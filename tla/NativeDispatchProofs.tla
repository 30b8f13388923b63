------------------------ MODULE NativeDispatchProofs ------------------------
(* Proofs about NativeDispatch, for any calls, files and number of daemons.  *)
(* The invariant has three parts that need each other: the entries of the    *)
(* pending map (Slots), the mutation queues (Queued) and the envelopes on    *)
(* their way (Ids).                                                          *)
EXTENDS NativeDispatch, TLAPS

\* The types, without the relations of TypeOK.
Types ==
  /\ tool \in Tools /\ host \in {"up", "exited"}
  /\ pc \in [Calls -> {"idle", "queued", "daemon", "oneshot", "builtin", "done"}]
  /\ result \in [Calls -> {"value", "error", "aborted", None}]
  /\ answered \in [Calls -> Calls \cup {None}]
  /\ aborted \in [Calls -> BOOLEAN]
  /\ slot \in Gens \cup {None} /\ born \in 0..MaxGens
  /\ pending \in [Gens -> SUBSET (Nat \X Calls)]
  /\ nextId \in [Gens -> Nat]
  /\ dying \in [Gens -> BOOLEAN] /\ ref \in [Gens -> BOOLEAN]
  /\ proc \in [Gens -> {"none", "up", "killed", "gone"}]
  /\ notices \in [Gens -> SUBSET {"exit", "stdin"}]
  /\ lost \in [Gens -> SUBSET (Nat \X Calls)]

\* A generation not yet started is untouched, and only a piread is dying.
Unborn ==
  /\ \A g \in Gens :
       g > born => /\ proc[g] = "none" /\ notices[g] = {} /\ out[g] = <<>>
                   /\ ~dying[g]
  /\ slot \in Gens => slot <= born
  /\ tool # "piread" => \A g \in Gens : ~dying[g]

\* A failed write whose call still waits is of the entry it waits with.
LostOnce ==
  \A g \in Gens : \A e \in lost[g] :
    /\ pc[e[2]] \notin {"idle", "queued"}
    /\ \A d \in pending[g] : d[2] = e[2] => d = e

Slots == Types /\ Unborn /\ LostOnce /\ AwaitedInSlot

-----------------------------------------------------------------------------
(* The pending map.                                                        *)

\* Who awaits the daemon stays, and with what.
LEMMA StaySlots ==
  ASSUME AwaitedInSlot, UNCHANGED <<slot, pending, dying, ref>>,
         \A c \in Calls : pc'[c] = "daemon" <=> pc[c] = "daemon"
  PROVE  AwaitedInSlot'
BY DEF AwaitedInSlot, Waiting

\* killDaemon empties the map and sends whoever waited on.
LEMMA KillSlots ==
  ASSUME Slots, NEW g \in Gens, KillDaemon(g)
  PROVE  /\ AwaitedInSlot'
         /\ slot' \in Gens \cup {None} /\ dying' \in [Gens -> BOOLEAN]
         /\ pending' \in [Gens -> SUBSET (Nat \X Calls)]
         /\ ref' \in [Gens -> BOOLEAN]
         /\ pc' \in [Calls -> {"idle", "queued", "daemon", "oneshot",
                               "builtin", "done"}]
         /\ proc' \in [Gens -> {"none", "up", "killed", "gone"}]
         /\ UNCHANGED <<born, nextId>>
<1>1. CASE tool = "piread" /\ dying[g]
  BY <1>1, StaySlots DEF KillDaemon, Slots, Types, slots
<1>2. CASE ~(tool = "piread" /\ dying[g])
  <2>1. /\ slot' = IF slot = g THEN None ELSE slot
        /\ dying' = [dying EXCEPT ![g] = tool = "piread"]
        /\ pending' = [pending EXCEPT ![g] = {}]
        /\ ref' = [ref EXCEPT ![g] = FALSE]
        /\ pc' = [c \in Calls |-> IF c \in Waiting(g) THEN "oneshot" ELSE pc[c]]
        /\ proc' = [proc EXCEPT ![g] = IF @ = "up" THEN "killed" ELSE @]
        /\ UNCHANGED <<born, nextId>>
    BY <1>2 DEF KillDaemon, RefAfter, Oneshot
  <2>2. (tool = "piread") \in BOOLEAN
    OBVIOUS
  <2>3. AwaitedInSlot'
    <3>1. \A h \in Gens : pending'[h] = IF h = g THEN {} ELSE pending[h]
      BY <2>1 DEF Slots, Types
    <3>2. \A h \in Gens : ref'[h] = IF h = g THEN FALSE ELSE ref[h]
      BY <2>1 DEF Slots, Types
    <3>3. \A h \in Gens : Waiting(h)' = IF h = g THEN {} ELSE Waiting(h)
      BY <3>1 DEF Waiting
    <3>4. \A c \in Calls :
            pc'[c] = "daemon" <=> pc[c] = "daemon" /\ c \notin Waiting(g)
      BY <2>1
    <3>5. \A c \in Calls : pc'[c] = "daemon" <=> \E h \in Gens : c \in Waiting(h)'
      <4>1. \A h \in Gens : pending[g] # {} => h = g \/ Waiting(h) = {}
        BY DEF Slots, AwaitedInSlot, Waiting
      <4>2. pending[g] = {} => Waiting(g) = {}
        BY DEF Waiting
      <4> QED
        BY <3>3, <3>4, <4>1, <4>2 DEF Slots, AwaitedInSlot
    <3>6. \A h \in Gens : pending'[h] # {} => h = slot' /\ ~dying'[h]
      BY <2>1, <3>1 DEF Slots, Types, AwaitedInSlot
    <3>7. \A h \in Gens : \A d, e \in pending'[h] : d[2] = e[2] => d = e
      BY <3>1 DEF Slots, AwaitedInSlot
    <3>8. \A h \in Gens : ref'[h] <=> pending'[h] # {}
      BY <3>1, <3>2 DEF Slots, AwaitedInSlot
    <3> QED
      BY <3>5, <3>6, <3>7, <3>8 DEF AwaitedInSlot
  <2> QED
    BY <2>1, <2>2, <2>3 DEF Slots, Types
<1> QED
  BY <1>1, <1>2

\* An entry leaves the map together with the wait of its call.
LEMMA ForgetSlots ==
  ASSUME Slots, NEW g \in Gens, NEW e \in pending[g], Forget(g, e),
         UNCHANGED <<slot, dying>>,
         NEW x, x # "daemon", pc' = [pc EXCEPT ![e[2]] = x]
  PROVE  /\ AwaitedInSlot'
         /\ pending' \in [Gens -> SUBSET (Nat \X Calls)]
         /\ ref' \in [Gens -> BOOLEAN]
<1>1. e \in Nat \X Calls /\ e[2] \in Calls
  BY DEF Slots, Types
<1>2. /\ \A h \in Gens : pending'[h] = IF h = g THEN pending[g] \ {e}
                                       ELSE pending[h]
      /\ ref' = [ref EXCEPT ![g] = @ /\ pending[g] \ {e} # {}]
  BY DEF Forget, RefAfter, Slots, Types
<1>3. \A h \in Gens : ref'[h] <=> pending'[h] # {}
  <2> TAKE h \in Gens
  <2>1. CASE h = g
    <3>1. ref[g] = TRUE
      BY DEF Slots, Types, AwaitedInSlot
    <3>2. ref'[g] = (ref[g] /\ pending[g] \ {e} # {})
      BY <1>2 DEF Slots, Types
    <3> QED
      BY <1>2, <2>1, <3>1, <3>2
  <2>2. CASE h # g
    BY <1>2, <2>2 DEF Slots, Types, AwaitedInSlot
  <2> QED
    BY <2>1, <2>2
<1>4. \A h \in Gens : h # g => pending[h] = {}
  BY DEF Slots, AwaitedInSlot
<1>5. \A c \in Calls : pc'[c] = "daemon" <=> \E h \in Gens : c \in Waiting(h)'
  <2>1. \A h \in Gens : h # g => Waiting(h)' = {} /\ Waiting(h) = {}
    BY <1>2, <1>4 DEF Waiting
  <2>2. Waiting(g)' = Waiting(g) \ {e[2]}
    BY <1>2 DEF Waiting, Slots, AwaitedInSlot
  <2>3. \A c \in Calls : pc'[c] = "daemon" <=> pc[c] = "daemon" /\ c # e[2]
    BY <1>1 DEF Slots, Types
  <2> QED
    BY <2>1, <2>2, <2>3 DEF Slots, AwaitedInSlot
<1>6. \A h \in Gens : pending'[h] # {} => h = slot' /\ ~dying'[h]
  BY <1>2 DEF Slots, AwaitedInSlot
<1>7. \A h \in Gens : \A c, d \in pending'[h] : c[2] = d[2] => c = d
  BY <1>2 DEF Slots, AwaitedInSlot
<1>8. pending' \in [Gens -> SUBSET (Nat \X Calls)]
  BY DEF Forget, Slots, Types
<1>9. ref' \in [Gens -> BOOLEAN]
  BY <1>2 DEF Slots, Types
<1> QED
  BY <1>3, <1>5, <1>6, <1>7, <1>8, <1>9 DEF AwaitedInSlot

\* A call that turns to the daemon gets an entry in the slot.
LEMMA SendSlots ==
  ASSUME Slots, NEW c \in Calls, pc[c] = "queued", NEW g \in Gens,
         slot' = g, slot \in {None, g}, ~dying[g], born' \in 0..MaxGens,
         born <= born', g <= born',
         proc' \in [Gens -> {"none", "up", "killed", "gone"}],
         \A h \in Gens : h > born' => proc'[h] = proc[h],
         Send(c, g)
  PROVE  Slots'
<1> DEFINE e == <<nextId[g], c>>
<1>1. e \in Nat \X Calls /\ nextId[g] + 1 \in Nat
  BY DEF Slots, Types
<1>2. /\ pending' = [pending EXCEPT ![g] = @ \cup {e}]
      /\ ref' = [ref EXCEPT ![g] = TRUE]
      /\ pc' = [pc EXCEPT ![c] = "daemon"]
      /\ nextId' = [nextId EXCEPT ![g] = @ + 1]
      /\ \/ UNCHANGED <<lost, notices>>
         \/ /\ lost' = [lost EXCEPT ![g] = @ \cup {e}]
            /\ notices' = [notices EXCEPT ![g] = @ \cup {"stdin"}]
      /\ UNCHANGED <<tool, host, dying, work, out, result, answered, aborted,
                     queue>>
  BY DEF Send
<1>0. e[2] = c
  OBVIOUS
<1> HIDE DEF e
<1>3. /\ \A h \in Gens : pending'[h] = IF h = g THEN pending[g] \cup {e}
                                       ELSE pending[h]
      /\ \A h \in Gens : ref'[h] = IF h = g THEN TRUE ELSE ref[h]
      /\ \A d \in Calls : pc'[d] = IF d = c THEN "daemon" ELSE pc[d]
  BY <1>2 DEF Slots, Types
<1>4. \A h \in Gens : h # g => pending[h] = {}
  BY DispatchAssumption DEF Slots, AwaitedInSlot
<1>5. \A h \in Gens : c \notin Waiting(h)
  BY DEF Slots, AwaitedInSlot
<1>6. e[2] = c /\ \A d \in pending[g] : d[2] # c
  BY <1>0, <1>5 DEF Waiting
<1>7. AwaitedInSlot'
  <2>1. \A h \in Gens : Waiting(h)' = IF h = g THEN Waiting(g) \cup {c}
                                      ELSE Waiting(h)
    <3>1. Waiting(g)' = {d[2] : d \in pending[g] \cup {e}}
      BY <1>3 DEF Waiting
    <3>2. {d[2] : d \in pending[g] \cup {e}} = Waiting(g) \cup {c}
      BY <1>6 DEF Waiting
    <3>3. \A h \in Gens : h # g => Waiting(h)' = Waiting(h)
      BY <1>3 DEF Waiting
    <3> QED
      BY <3>1, <3>2, <3>3
  <2>2. \A d \in Calls : pc'[d] = "daemon" <=> \E h \in Gens : d \in Waiting(h)'
    BY <1>3, <2>1 DEF Slots, AwaitedInSlot
  <2>3. \A h \in Gens : pending'[h] # {} => h = slot' /\ ~dying'[h]
    BY <1>2, <1>3, <1>4, <1>5
  <2>4. \A h \in Gens : \A x, y \in pending'[h] : x[2] = y[2] => x = y
    <3>1. \A h \in Gens : \A x, y \in pending[h] : x[2] = y[2] => x = y
      BY DEF Slots, AwaitedInSlot
    <3>2. \A x \in pending[g] : x[2] # e[2]
      BY <1>6
    <3> QED
      BY <1>3, <3>1, <3>2
  <2>5. \A h \in Gens : ref'[h] <=> pending'[h] # {}
    <3>1. ref'[g] /\ e \in pending'[g]
      BY <1>3
    <3>2. \A h \in Gens : h # g => ref'[h] = ref[h] /\ pending'[h] = pending[h]
      BY <1>3
    <3>3. \A h \in Gens : ref[h] <=> pending[h] # {}
      BY DEF Slots, AwaitedInSlot
    <3> QED
      BY <3>1, <3>2, <3>3
  <2> QED
    BY <2>2, <2>3, <2>4, <2>5 DEF AwaitedInSlot
<1>8. Types'
  <2>1. /\ pending' \in [Gens -> SUBSET (Nat \X Calls)]
        /\ lost' \in [Gens -> SUBSET (Nat \X Calls)]
    <3>1. pending[g] \cup {e} \in SUBSET (Nat \X Calls)
          /\ lost[g] \cup {e} \in SUBSET (Nat \X Calls)
      BY <1>1 DEF Slots, Types
    <3>2. pending' = [pending EXCEPT ![g] = pending[g] \cup {e}]
      BY <1>2
    <3>3. lost' = lost \/ lost' = [lost EXCEPT ![g] = lost[g] \cup {e}]
      BY <1>2
    <3> QED
      BY <3>1, <3>2, <3>3 DEF Slots, Types
  <2>2. nextId' \in [Gens -> Nat] /\ ref' \in [Gens -> BOOLEAN]
    BY <1>1, <1>2 DEF Slots, Types
  <2>3. notices' \in [Gens -> SUBSET {"exit", "stdin"}]
    <3>1. notices[g] \cup {"stdin"} \in SUBSET {"exit", "stdin"}
      BY DEF Slots, Types
    <3>2. notices' = notices
          \/ notices' = [notices EXCEPT ![g] = notices[g] \cup {"stdin"}]
      BY <1>2
    <3>3. [notices EXCEPT ![g] = notices[g] \cup {"stdin"}]
            \in [Gens -> SUBSET {"exit", "stdin"}]
      BY <3>1 DEF Slots, Types
    <3> QED
      BY <3>2, <3>3 DEF Slots, Types
  <2>4. pc' \in [Calls -> {"idle", "queued", "daemon", "oneshot", "builtin",
                          "done"}]
    BY <1>2 DEF Slots, Types
  <2> QED
    BY <1>2, <2>1, <2>2, <2>3, <2>4 DEF Slots, Types
<1>9. Unborn'
  <2>1. \A h \in Gens : h > born' => h > born /\ h # g
    BY DEF Slots, Types, Gens
  <2>2. \A h \in Gens : h # g => notices'[h] = notices[h]
    BY <1>2 DEF Slots, Types
  <2> QED
    BY <1>2, <2>1, <2>2 DEF Slots, Unborn
<1>10. LostOnce'
  <2>1. \A h \in Gens : lost'[h] \subseteq IF h = g THEN lost[g] \cup {e}
                                           ELSE lost[h]
    BY <1>2 DEF Slots, Types
  <2>2. \A h \in Gens : \A x \in lost[h] : x[2] # c /\ x[2] \in Calls
    BY DEF Slots, LostOnce, Types
  <2>3. \A h \in Gens : \A x \in lost'[h] :
          pc'[x[2]] \notin {"idle", "queued"}
    BY <1>3, <1>6, <2>1, <2>2 DEF Slots, LostOnce
  <2>4. \A h \in Gens : \A x \in lost'[h] : \A d \in pending'[h] :
          d[2] = x[2] => d = x
    BY <1>3, <1>6, <2>1, <2>2 DEF Slots, LostOnce
  <2> QED
    BY <2>3, <2>4 DEF LostOnce
<1> QED
  BY <1>7, <1>8, <1>9, <1>10 DEF Slots

\* A call that settles, or goes on to the built-in tool, is past the daemon.
LEMMA AfterRung ==
  ASSUME Types, NEW c \in Calls,
         \/ \E how \in {"value", "error", "aborted"} : Settle(c, how)
         \/ Fallback(c)
  PROVE  /\ result' \in [Calls -> {"value", "error", "aborted", None}]
         /\ \E x \in {"done", "builtin"} : pc' = [pc EXCEPT ![c] = x]
         /\ pc' \in [Calls -> {"idle", "queued", "daemon", "oneshot", "builtin",
                               "done"}]
<1>1. CASE Fallback(c)
  BY <1>1 DEF Fallback, Types
<1>2. CASE \E how \in {"value", "error", "aborted"} : Settle(c, how)
  BY <1>2 DEF Settle, Types
<1> QED
  BY <1>1, <1>2

\* The envelope of a rung ends it one way or the other.
LEMMA AfterResolve ==
  ASSUME NEW c \in Calls, NEW kind, Resolve(c, kind)
  PROVE  \/ \E how \in {"value", "error", "aborted"} : Settle(c, how)
         \/ Fallback(c)
BY DEF Resolve

\* What does not concern the daemons leaves their invariant alone.
LEMMA AsideSlots ==
  ASSUME Slots, UNCHANGED <<tool, slots, proc, notices, lost>>,
         host' \in {"up", "exited"},
         pc' \in [Calls -> {"idle", "queued", "daemon", "oneshot", "builtin",
                           "done"}],
         result' \in [Calls -> {"value", "error", "aborted", None}],
         answered' \in [Calls -> Calls \cup {None}],
         aborted' \in [Calls -> BOOLEAN],
         \A g \in Gens : g > born => out'[g] = out[g],
         \A c \in Calls : /\ pc'[c] = "daemon" <=> pc[c] = "daemon"
                          /\ pc[c] \notin {"idle", "queued"}
                               => pc'[c] \notin {"idle", "queued"}
  PROVE  Slots'
<1>1. Types'
  BY DEF Slots, Types, slots
<1>2. Unborn'
  BY DEF Slots, Unborn, slots
<1>3. LostOnce'
  BY DEF Slots, LostOnce, Types, slots
<1>4. AwaitedInSlot'
  BY StaySlots DEF Slots, slots
<1> QED
  BY <1>1, <1>2, <1>3, <1>4 DEF Slots

\* An entry forgotten as its call settles or falls back.
LEMMA EntryGone ==
  ASSUME Slots, NEW g \in Gens, NEW e \in pending[g], Forget(g, e),
         \/ \E how \in {"value", "error", "aborted"} : Settle(e[2], how)
         \/ Fallback(e[2]),
         UNCHANGED <<tool, host, slot, born, nextId, dying, proc, notices, lost>>,
         answered' \in [Calls -> Calls \cup {None}],
         aborted' \in [Calls -> BOOLEAN],
         \A h \in Gens : h > born => out'[h] = out[h]
  PROVE  Slots'
<1>1. e[2] \in Calls
  BY DEF Slots, Types
<1>2. PICK x \in {"done", "builtin"} : pc' = [pc EXCEPT ![e[2]] = x]
  BY <1>1, AfterRung DEF Slots
<1>3. AwaitedInSlot' /\ pending' \in [Gens -> SUBSET (Nat \X Calls)]
      /\ ref' \in [Gens -> BOOLEAN]
  BY <1>2, ForgetSlots
<1>4. Types'
  BY <1>1, <1>3, AfterRung DEF Slots, Types
<1>5. Unborn'
  BY DEF Slots, Unborn
<1>6. LostOnce'
  <2>1. \A h \in Gens : pending'[h] \subseteq pending[h]
    BY DEF Forget, Slots, Types
  <2>2. \A c \in Calls : pc[c] \notin {"idle", "queued"}
                           => pc'[c] \notin {"idle", "queued"}
    BY <1>2 DEF Slots, Types
  <2>3. \A h \in Gens : \A d \in lost[h] : d[2] \in Calls
    BY DEF Slots, Types
  <2> QED
    BY <2>1, <2>2, <2>3 DEF Slots, LostOnce
<1> QED
  BY <1>3, <1>4, <1>5, <1>6 DEF Slots

\* killDaemon, whatever event called it.
LEMMA DaemonKilled ==
  ASSUME Slots, NEW g \in Gens, KillDaemon(g), g <= born,
         UNCHANGED <<tool, host, lost, result, answered, aborted>>,
         notices' \in [Gens -> SUBSET {"exit", "stdin"}],
         \A h \in Gens : notices'[h] \subseteq notices[h],
         \A h \in Gens : h > born => out'[h] = out[h]
  PROVE  Slots'
<1>1. Types' /\ AwaitedInSlot'
  BY KillSlots DEF Slots, Types
<1>2. \A h \in Gens : h # g => dying'[h] = dying[h] /\ proc'[h] = proc[h]
  BY DEF KillDaemon, Slots, Types, slots
<1>3. tool # "piread" => \A h \in Gens : ~dying'[h]
  BY DEF KillDaemon, Slots, Types, Unborn, slots
<1>4. Unborn'
  <2>1. born' = born
    BY KillSlots
  <2>2. \A h \in Gens : h > born => h # g
    BY DEF Gens, Slots, Types
  <2>3. slot' \in {slot, None}
    BY DEF KillDaemon, slots
  <2> QED
    BY <1>2, <1>3, <2>1, <2>2, <2>3, DispatchAssumption DEF Slots, Unborn
<1>5. LostOnce'
  <2>1. \A h \in Gens : pending'[h] \subseteq pending[h]
    BY DEF KillDaemon, Slots, Types, slots
  <2>2. \A c \in Calls : pc[c] \notin {"idle", "queued"}
                           => pc'[c] \notin {"idle", "queued"}
    BY DEF KillDaemon, Oneshot, Slots, Types, slots
  <2>3. \A h \in Gens : \A d \in lost[h] : d[2] \in Calls
    BY DEF Slots, Types
  <2> QED
    BY <2>1, <2>2, <2>3 DEF Slots, LostOnce
<1> QED
  BY <1>1, <1>4, <1>5 DEF Slots

-----------------------------------------------------------------------------
(* The steps, as far as the pending map goes.                              *)

\* The response lines.
Envelope == [id : Nat, call : Calls, kind : Kinds]
Outs == out \in [Gens -> Seq(Envelope)]

\* A response line: the daemon is killed, an entry goes, or nothing happens.
LEMMA LineSlots ==
  ASSUME Slots, Outs, NEW g \in Gens, Line(g) PROVE Slots'
<1>1. \A h \in Gens : h # g => out'[h] = out[h]
  BY DEF Line, Outs
<1>2. g <= born
  BY DEF Line, Slots, Unborn, Types, Gens
<1>3. \A h \in Gens : h > born => out'[h] = out[h]
  BY <1>1, <1>2 DEF Slots, Types, Gens
<1>4. Head(out[g]).call \in Calls
  <2>1. out[g] \in Seq(Envelope) /\ out[g] # <<>>
    BY DEF Line, Outs
  <2>2. Head(out[g]) \in Envelope
    BY <2>1
  <2> QED
    BY <2>2 DEF Envelope
<1> DEFINE line == Head(out[g])
<1>5. CASE line.kind = "garbage"
  BY <1>2, <1>3, <1>5, DaemonKilled DEF Line, Slots, Types
<1>6. ASSUME NEW e \in pending[g], line.kind # "garbage", Forget(g, e),
             Resolve(e[2], line.kind),
             answered' = [answered EXCEPT ![e[2]] = line.call],
             UNCHANGED <<slot, born, nextId, dying, proc>>
      PROVE  Slots'
  <2>1. e[2] \in Calls
    BY DEF Slots, Types
  <2>2. answered' \in [Calls -> Calls \cup {None}]
    BY <1>4, <1>6 DEF Slots, Types
  <2> QED
    BY <1>3, <1>6, <2>1, <2>2, AfterResolve, EntryGone DEF Line, Slots, Types
<1>7. CASE UNCHANGED <<slots, proc, pc, result, answered, queue>>
  BY <1>3, <1>7, AsideSlots DEF Line, Slots, Types
<1> QED
  BY <1>5, <1>6, <1>7 DEF Line

\* An exit or error event kills its own generation only.
LEMMA NoticeSlots ==
  ASSUME Slots, NEW g \in Gens, Notice(g) PROVE Slots'
<1>1. g <= born
  BY DEF Notice, Slots, Unborn, Types, Gens
<1>2. notices' \in [Gens -> SUBSET {"exit", "stdin"}]
      /\ \A h \in Gens : notices'[h] \subseteq notices[h]
  BY DEF Notice, Slots, Types
<1> QED
  BY <1>1, <1>2, DaemonKilled DEF Notice

\* A failed write fails its entry, unless the sweep was faster.
LEMMA WriteCallbackSlots ==
  ASSUME Slots, NEW g \in Gens, WriteCallback(g) PROVE Slots'
<1>1. PICK e \in lost[g] : /\ lost' = [lost EXCEPT ![g] = @ \ {e}]
                           /\ Forget(g, e)
                           /\ Oneshot({e[2]} \cap Waiting(g))
  BY DEF WriteCallback
<1>2. UNCHANGED <<tool, host, slot, born, nextId, dying, proc, notices, out,
                  result, answered, aborted>>
  BY DEF WriteCallback
<1>3. e[2] \in Calls
  BY DEF Slots, Types
<1>4. lost' \in [Gens -> SUBSET (Nat \X Calls)]
      /\ \A h \in Gens : lost'[h] \subseteq lost[h]
  BY <1>1 DEF Slots, Types
<1>5. CASE e \in pending[g]
  <2>1. pc' = [pc EXCEPT ![e[2]] = "oneshot"]
    <3>1. e[2] \in Waiting(g)
      BY <1>5 DEF Waiting
    <3>2. pc' = [c \in Calls |-> IF c = e[2] THEN "oneshot" ELSE pc[c]]
      BY <1>1, <3>1 DEF Oneshot
    <3> QED
      BY <1>3, <3>2 DEF Slots, Types
  <2>2. AwaitedInSlot' /\ pending' \in [Gens -> SUBSET (Nat \X Calls)]
        /\ ref' \in [Gens -> BOOLEAN]
    BY <1>1, <1>2, <1>5, <2>1, ForgetSlots
  <2>3. Types'
    BY <1>2, <1>3, <1>4, <2>1, <2>2 DEF Slots, Types
  <2>4. Unborn'
    BY <1>2 DEF Slots, Unborn
  <2>5. LostOnce'
    <3>1. \A h \in Gens : pending'[h] \subseteq pending[h]
      BY <1>1 DEF Forget, Slots, Types
    <3>2. \A c \in Calls : pc[c] \notin {"idle", "queued"}
                             => pc'[c] \notin {"idle", "queued"}
      BY <2>1 DEF Slots, Types
    <3>3. \A h \in Gens : \A d \in lost[h] : d[2] \in Calls
      BY DEF Slots, Types
    <3> QED
      BY <1>4, <3>1, <3>2, <3>3 DEF Slots, LostOnce
  <2> QED
    BY <2>2, <2>3, <2>4, <2>5 DEF Slots
<1>6. CASE e \notin pending[g]
  <2>1. e[2] \notin Waiting(g)
    BY <1>6 DEF Waiting, Slots, LostOnce
  <2>2. pc' = pc
    BY <1>1, <2>1 DEF Oneshot, Slots, Types
  <2>3. pending' = pending
    BY <1>1, <1>6 DEF Forget, Slots, Types
  <2>4. ref' = ref
    <3>1. \A h \in Gens : ref[h] \in BOOLEAN /\ (ref[h] <=> pending[h] # {})
      BY DEF Slots, Types, AwaitedInSlot
    <3>2. ref' = [ref EXCEPT ![g] = ref[g] /\ pending[g] # {}]
      BY <1>1, <1>6 DEF Forget, RefAfter
    <3>3. (ref[g] /\ pending[g] # {}) = ref[g]
      BY <3>1
    <3> QED
      BY <3>2, <3>3 DEF Slots, Types
  <2>5. Types' /\ Unborn'
    BY <1>2, <1>4, <2>2, <2>3, <2>4 DEF Slots, Types, Unborn
  <2>6. LostOnce'
    BY <1>4, <2>2, <2>3 DEF Slots, LostOnce
  <2>7. AwaitedInSlot'
    BY <1>2, <2>2, <2>3, <2>4, StaySlots DEF Slots
  <2> QED
    BY <2>5, <2>6, <2>7 DEF Slots
<1> QED
  BY <1>5, <1>6

\* The signal takes the entry with it.
LEMMA AbortSlots ==
  ASSUME Slots, NEW c \in Calls, Abort(c) PROVE Slots'
<1>1. aborted' \in [Calls -> BOOLEAN]
  BY DEF Abort, Slots, Types
<1>2. UNCHANGED <<tool, host, slot, born, nextId, dying, procs, answered>>
  BY DEF Abort
<1>3. ASSUME NEW g \in Gens, NEW e \in pending[g], e[2] = c, Forget(g, e),
             Settle(c, "aborted")
      PROVE  Slots'
  BY <1>1, <1>2, <1>3, EntryGone DEF procs, Slots, Types
<1>4. CASE pc[c] = "oneshot" /\ Settle(c, "aborted") /\ UNCHANGED <<pending, ref>>
  <2>1. pc' = [pc EXCEPT ![c] = "done"]
        /\ result' \in [Calls -> {"value", "error", "aborted", None}]
    BY <1>4 DEF Settle, Slots, Types
  <2>2. pc' \in [Calls -> {"idle", "queued", "daemon", "oneshot", "builtin",
                          "done"}]
        /\ \A d \in Calls : /\ pc'[d] = "daemon" <=> pc[d] = "daemon"
                            /\ pc[d] \notin {"idle", "queued"}
                                 => pc'[d] \notin {"idle", "queued"}
    BY <1>4, <2>1 DEF Slots, Types
  <2> QED
    BY <1>1, <1>2, <1>4, <2>1, <2>2, AsideSlots DEF procs, slots, Slots, Types
<1>5. CASE UNCHANGED <<pending, ref, pc, result, queue>>
  BY <1>1, <1>2, <1>5, AsideSlots DEF procs, slots, Slots, Types
<1> QED
  BY <1>3, <1>4, <1>5 DEF Abort

\* A call whose turn has not come waits on nothing; a rung that is not the
\* daemon's leaves the pending map alone.
LEMMA RungSlots ==
  ASSUME Slots, NEW c \in Calls, pc[c] \in {"queued", "oneshot", "builtin"},
         \/ \E how \in {"value", "error", "aborted"} : Settle(c, how)
         \/ Fallback(c),
         UNCHANGED <<tool, host, slots, procs, aborted>>,
         answered' \in [Calls -> Calls \cup {None}]
  PROVE  Slots'
<1>1. PICK x \in {"done", "builtin"} : pc' = [pc EXCEPT ![c] = x]
  BY AfterRung DEF Slots
<1>2. \A d \in Calls : /\ pc'[d] = "daemon" <=> pc[d] = "daemon"
                       /\ pc[d] \notin {"idle", "queued"}
                            => pc'[d] \notin {"idle", "queued"}
  BY <1>1 DEF Slots, Types
<1>3. /\ result' \in [Calls -> {"value", "error", "aborted", None}]
      /\ pc' \in [Calls -> {"idle", "queued", "daemon", "oneshot", "builtin",
                            "done"}]
  BY AfterRung DEF Slots
<1> QED
  BY <1>2, <1>3, AsideSlots DEF procs, Slots, Types

\* The steps of execute().
LEMMA CallSlots ==
  ASSUME Slots, NEW c \in Calls,
         \/ Start(c) \/ DispatchAborted(c) \/ DispatchUnavailable(c)
         \/ DispatchStart(c) \/ DispatchSend(c)
         \/ \E k \in {"ok", "fail", "odd"} : OneshotAnswer(c, k)
         \/ OneshotFails(c) \/ BuiltinSettles(c)
  PROVE  Slots'
<1>1. CASE Start(c)
  <2>1. /\ pc[c] = "idle"
        /\ \E x \in {"queued", "builtin"} : pc' = [pc EXCEPT ![c] = x]
    BY <1>1 DEF Start
  <2>2. /\ pc' \in [Calls -> {"idle", "queued", "daemon", "oneshot", "builtin",
                              "done"}]
        /\ \A d \in Calls : /\ pc'[d] = "daemon" <=> pc[d] = "daemon"
                            /\ pc[d] \notin {"idle", "queued"}
                                 => pc'[d] \notin {"idle", "queued"}
    BY <2>1 DEF Slots, Types
  <2> QED
    BY <1>1, <2>2, AsideSlots DEF Start, procs, Slots, Types
<1>2. CASE DispatchAborted(c)
  BY <1>2, RungSlots DEF DispatchAborted, Ready, Slots, Types
<1>3. CASE DispatchUnavailable(c)
  <2>1. pc' = [pc EXCEPT ![c] = "oneshot"] /\ pc[c] = "queued"
    BY <1>3 DEF DispatchUnavailable, Ready, Oneshot, Slots, Types
  <2>2. /\ pc' \in [Calls -> {"idle", "queued", "daemon", "oneshot", "builtin",
                              "done"}]
        /\ \A d \in Calls : /\ pc'[d] = "daemon" <=> pc[d] = "daemon"
                            /\ pc[d] \notin {"idle", "queued"}
                                 => pc'[d] \notin {"idle", "queued"}
    BY <2>1 DEF Slots, Types
  <2> QED
    BY <1>3, <2>2, AsideSlots DEF DispatchUnavailable, procs, Slots, Types
<1>4. CASE DispatchStart(c)
  <2> DEFINE g == born + 1
  <2>1. g \in Gens /\ g > born /\ g \in 0..MaxGens /\ born <= g
    BY <1>4, DispatchAssumption DEF DispatchStart, Slots, Types, Gens
  <2>2. /\ pc[c] = "queued" /\ slot = None /\ slot' = g /\ born' = g
        /\ proc' = [proc EXCEPT ![g] = "up"] /\ Send(c, g)
    BY <1>4 DEF DispatchStart, Ready
  <2> HIDE DEF g
  <2>3. ~dying[g]
    BY <2>1 DEF Slots, Unborn
  <2>4. proc' \in [Gens -> {"none", "up", "killed", "gone"}]
        /\ \A h \in Gens : h > born' => proc'[h] = proc[h]
    BY <2>1, <2>2 DEF Slots, Types, Gens
  <2>5. g <= born'
    BY <2>1, <2>2
  <2> QED
    BY <2>1, <2>2, <2>3, <2>4, <2>5, SendSlots
<1>5. CASE DispatchSend(c)
  <2>1. /\ pc[c] = "queued" /\ slot # None /\ slot \in Gens
        /\ UNCHANGED <<slot, born, proc>> /\ Send(c, slot)
    BY <1>5 DEF DispatchSend, Ready, Slots, Types
  <2>2. ~dying[slot]
    BY <1>5, <2>1 DEF DispatchSend, Slots, Unborn
  <2>3. slot <= born
    BY <2>1 DEF Slots, Unborn
  <2> QED
    BY <2>1, <2>2, <2>3, SendSlots DEF Slots, Types
<1>6. CASE \E k \in {"ok", "fail", "odd"} : OneshotAnswer(c, k)
  <2>1. PICK k \in {"ok", "fail", "odd"} : OneshotAnswer(c, k)
    BY <1>6
  <2>2. answered' \in [Calls -> Calls \cup {None}]
    BY <2>1 DEF OneshotAnswer, Slots, Types
  <2> QED
    BY <2>1, <2>2, AfterResolve, RungSlots DEF OneshotAnswer
<1>7. CASE OneshotFails(c)
  BY <1>7, RungSlots DEF OneshotFails, Slots, Types
<1>8. CASE BuiltinSettles(c)
  BY <1>8, RungSlots DEF BuiltinSettles, Slots, Types
<1> QED
  BY <1>1, <1>2, <1>3, <1>4, <1>5, <1>6, <1>7, <1>8

\* What the processes do, and the end of the host.
LEMMA ProcessSlots ==
  ASSUME Slots, Outs,
         \/ HostExit
         \/ \E g \in Gens : \/ DaemonTake(g) \/ DaemonDies(g)
                           \/ \E k \in Kinds : DaemonAnswer(g, k)
  PROVE  Slots'
<1>1. CASE HostExit
  <2>1. /\ host' = "exited"
        /\ UNCHANGED <<tool, slots, notices, lost, inq, work, out, callers>>
        /\ \A g \in Gens : proc'[g] = IF slot = g /\ proc[g] = "up"
                                      THEN "killed" ELSE proc[g]
        /\ proc' \in [Gens -> {"none", "up", "killed", "gone"}]
    BY <1>1 DEF HostExit, Slots, Types
  <2>2. Types' /\ LostOnce'
    BY <2>1 DEF Slots, Types, LostOnce, slots, callers
  <2>3. Unborn'
    BY <2>1 DEF Slots, Unborn, slots
  <2>4. AwaitedInSlot'
    BY <2>1, StaySlots DEF Slots, slots, callers
  <2> QED
    BY <2>2, <2>3, <2>4 DEF Slots
<1>2. ASSUME NEW g \in Gens, DaemonTake(g) PROVE Slots'
  BY <1>2, AsideSlots DEF DaemonTake, callers, Slots, Types
<1>3. ASSUME NEW g \in Gens, NEW k \in Kinds, DaemonAnswer(g, k) PROVE Slots'
  <2>1. proc[g] # "none"
    BY <1>3 DEF DaemonAnswer, Alive
  <2>2. \A h \in Gens : h # g => out'[h] = out[h]
    BY <1>3 DEF DaemonAnswer, Outs
  <2>3. \A h \in Gens : h > born => out'[h] = out[h]
    BY <2>1, <2>2 DEF Slots, Unborn
  <2> QED
    BY <1>3, <2>3, AsideSlots DEF DaemonAnswer, callers, Slots, Types
<1>4. ASSUME NEW g \in Gens, DaemonDies(g) PROVE Slots'
  <2>1. /\ proc[g] # "none"
        /\ proc' = [proc EXCEPT ![g] = "gone"]
        /\ notices' = [notices EXCEPT ![g] = @ \cup {"exit"}]
        /\ UNCHANGED <<tool, host, slots, callers, lost, out>>
    BY <1>4 DEF DaemonDies, Alive
  <2>2. notices' \in [Gens -> SUBSET {"exit", "stdin"}]
    <3>1. notices[g] \cup {"exit"} \in SUBSET {"exit", "stdin"}
      BY DEF Slots, Types
    <3> QED
      BY <2>1, <3>1 DEF Slots, Types
  <2>3. Types' /\ LostOnce'
    BY <2>1, <2>2 DEF Slots, Types, LostOnce, slots, callers
  <2>4. \A h \in Gens : h # g => proc'[h] = proc[h] /\ notices'[h] = notices[h]
    BY <2>1 DEF Slots, Types
  <2>5. Unborn'
    BY <2>1, <2>4 DEF Slots, Unborn, slots
  <2>6. AwaitedInSlot'
    BY <2>1, StaySlots DEF Slots, slots, callers
  <2> QED
    BY <2>3, <2>5, <2>6 DEF Slots
<1> QED
  BY <1>1, <1>2, <1>3, <1>4

\* Every step keeps the pending map in order.
LEMMA SlotsStep == Slots /\ Outs /\ [Next]_vars => Slots'
<1> SUFFICES ASSUME Slots, Outs, [Next]_vars PROVE Slots'
  OBVIOUS
<1>1. CASE UNCHANGED vars
  BY <1>1, AsideSlots DEF vars, procs, callers, Slots, Types
<1>2. ASSUME NEW c \in Calls,
             \/ Start(c) \/ DispatchAborted(c) \/ DispatchUnavailable(c)
             \/ DispatchStart(c) \/ DispatchSend(c)
             \/ \E k \in {"ok", "fail", "odd"} : OneshotAnswer(c, k)
             \/ OneshotFails(c) \/ BuiltinSettles(c)
      PROVE  Slots'
  BY <1>2, CallSlots
<1>3. ASSUME NEW c \in Calls, Abort(c) PROVE Slots'
  BY <1>3, AbortSlots
<1>4. ASSUME NEW g \in Gens, Line(g) \/ Notice(g) \/ WriteCallback(g) PROVE Slots'
  BY <1>4, LineSlots, NoticeSlots, WriteCallbackSlots
<1>5. ASSUME HostExit \/ \E g \in Gens : \/ DaemonTake(g) \/ DaemonDies(g)
                                       \/ \E k \in Kinds : DaemonAnswer(g, k)
      PROVE  Slots'
  BY <1>5, ProcessSlots
<1> QED
  BY <1>1, <1>2, <1>3, <1>4, <1>5 DEF Next

-----------------------------------------------------------------------------
(* The mutation queues.                                                    *)

Members(q) == {q[i] : i \in DOMAIN q}
Injective(q) == \A i, j \in DOMAIN q : q[i] = q[j] => i = j

\* A call stands in the queue of its path, once, from its start to its end,
\* and past it only at its head.
Queued ==
  /\ queue \in [Paths -> Seq(Calls)]
  /\ \A p \in Paths : /\ Injective(queue[p])
                      /\ \A c \in Members(queue[p]) : PathOf[c] = p
  /\ tool = "piedit" => \A c \in Calls :
       /\ c \in Members(queue[PathOf[c]]) <=> pc[c] \notin {"idle", "done"}
       /\ pc[c] \in {"daemon", "oneshot"}
            => queue[PathOf[c]] # <<>> /\ Head(queue[PathOf[c]]) = c

\* The head is a member, and leaves with Tail.
LEMMA TailMembers ==
  ASSUME NEW q \in Seq(Calls), q # <<>>, Injective(q)
  PROVE  /\ Tail(q) \in Seq(Calls) /\ Injective(Tail(q))
         /\ Head(q) \in Members(q)
         /\ Members(Tail(q)) = Members(q) \ {Head(q)}
<1>1. /\ Len(q) \in Nat /\ Len(q) > 0 /\ DOMAIN q = 1..Len(q)
      /\ Head(q) = q[1] /\ Tail(q) \in Seq(Calls)
      /\ DOMAIN Tail(q) = 1..(Len(q) - 1)
      /\ \A i \in 1..(Len(q) - 1) : Tail(q)[i] = q[i + 1]
  OBVIOUS
<1>2. Injective(Tail(q))
  BY <1>1 DEF Injective
<1>3. Head(q) \in Members(q)
  BY <1>1 DEF Members
<1>4. ASSUME NEW x \in Members(Tail(q)) PROVE x \in Members(q) \ {Head(q)}
  <2>1. PICK i \in 1..(Len(q) - 1) : x = q[i + 1]
    BY <1>1, <1>4 DEF Members
  <2>2. i + 1 \in DOMAIN q /\ 1 \in DOMAIN q /\ i + 1 # 1
    BY <1>1
  <2> QED
    BY <1>1, <2>1, <2>2 DEF Members, Injective
<1>5. ASSUME NEW x \in Members(q), x # Head(q) PROVE x \in Members(Tail(q))
  <2>1. PICK i \in 1..Len(q) : x = q[i]
    BY <1>1 DEF Members
  <2>2. i - 1 \in 1..(Len(q) - 1) /\ (i - 1) + 1 = i
    BY <1>1, <1>5, <2>1
  <2> QED
    BY <1>1, <2>1, <2>2 DEF Members
<1> QED
  BY <1>1, <1>2, <1>3, <1>4, <1>5

\* A call that was not in the queue goes to its end.
LEMMA AppendMembers ==
  ASSUME NEW q \in Seq(Calls), Injective(q), NEW c \in Calls, c \notin Members(q)
  PROVE  /\ Append(q, c) \in Seq(Calls) /\ Injective(Append(q, c))
         /\ Members(Append(q, c)) = Members(q) \cup {c}
         /\ q # <<>> => Head(Append(q, c)) = Head(q)
         /\ Append(q, c) # <<>>
<1>1. /\ Len(q) \in Nat /\ DOMAIN q = 1..Len(q)
      /\ Append(q, c) \in Seq(Calls) /\ DOMAIN Append(q, c) = 1..(Len(q) + 1)
      /\ Append(q, c)[Len(q) + 1] = c
      /\ \A i \in 1..Len(q) : Append(q, c)[i] = q[i]
  OBVIOUS
<1>2. Injective(Append(q, c))
  BY <1>1 DEF Injective, Members
<1>3. ASSUME NEW x \in Members(Append(q, c)) PROVE x \in Members(q) \cup {c}
  BY <1>1, <1>3 DEF Members
<1>4. ASSUME NEW x \in Members(q) \cup {c} PROVE x \in Members(Append(q, c))
  BY <1>1, <1>4 DEF Members
<1>5. Append(q, c) # <<>> /\ (q # <<>> => Head(Append(q, c)) = Head(q))
  <2>1. Len(Append(q, c)) = Len(q) + 1
    OBVIOUS
  <2>2. Append(q, c) # <<>>
    BY <1>1, <2>1
  <2>3. ASSUME q # <<>> PROVE Head(Append(q, c)) = Head(q)
    <3>1. Len(q) > 0 /\ Head(q) = q[1]
      BY <2>3
    <3>2. Head(Append(q, c)) = Append(q, c)[1]
      BY <1>1, <2>2
    <3> QED
      BY <1>1, <3>1, <3>2
  <2> QED
    BY <2>2, <2>3
<1> QED
  BY <1>1, <1>2, <1>3, <1>4, <1>5

\* No call enters or leaves, and only the head goes past its queue.
LEMMA StayQueued ==
  ASSUME Types, Queued, UNCHANGED <<tool, queue>>,
         \A c \in Calls :
           /\ pc'[c] \in {"idle", "done"} <=> pc[c] \in {"idle", "done"}
           /\ pc'[c] \in {"daemon", "oneshot"}
                => pc[c] \in {"daemon", "oneshot"} \/ Holds(c)
  PROVE  Queued'
BY DEF Queued, Holds

\* A call past its queue, or with the queue.
AtHead(c) ==
  /\ pc[c] \notin {"idle", "done"}
  /\ tool = "piedit" => queue[PathOf[c]] # <<>> /\ Head(queue[PathOf[c]]) = c

\* A call that settles, or goes to the built-in tool, gives the queue up.
LEMMA LeaveQueued ==
  ASSUME Types, Queued, UNCHANGED tool, NEW c \in Calls, AtHead(c),
         \/ \E how \in {"value", "error", "aborted"} : Settle(c, how)
         \/ Fallback(c)
  PROVE  Queued'
<1> DEFINE p == PathOf[c]
           q == queue[p]
<1>1. p \in Paths /\ q \in Seq(Calls)
  BY DispatchAssumption DEF Queued
<1>2. CASE tool # "piedit"
  <2>1. tool = "piread"
    BY <1>2, DispatchAssumption DEF Types
  <2> QED
    BY <2>1 DEF Queued, Settle, Fallback, Released
<1>3. CASE tool = "piedit"
  <2>1. q # <<>> /\ Head(q) = c /\ Injective(q) /\ pc[c] \notin {"idle", "done"}
    BY <1>1, <1>3 DEF AtHead, Queued
  <2>2. /\ Tail(q) \in Seq(Calls) /\ Injective(Tail(q))
        /\ Members(Tail(q)) = Members(q) \ {c} /\ c \in Members(q)
    BY <1>1, <2>1, TailMembers
  <2>3. \A d \in Calls : d # c /\ PathOf[d] = p
                         => pc[d] \notin {"daemon", "oneshot"}
    BY <1>3, <2>1 DEF Queued
  <2>4. PICK r \in Seq(Calls) :
          /\ queue' = [queue EXCEPT ![p] = r] /\ Injective(r)
          /\ \/ pc' = [pc EXCEPT ![c] = "done"] /\ Members(r) = Members(q) \ {c}
             \/ pc' = [pc EXCEPT ![c] = "builtin"] /\ Members(r) = Members(q)
    <3>1. CASE Fallback(c)
      <4>1. /\ Append(Tail(q), c) \in Seq(Calls) /\ Injective(Append(Tail(q), c))
            /\ Members(Append(Tail(q), c)) = Members(q)
        <5>1. c \notin Members(Tail(q))
          BY <2>2
        <5>2. Members(Append(Tail(q), c)) = Members(Tail(q)) \cup {c}
              /\ Append(Tail(q), c) \in Seq(Calls) /\ Injective(Append(Tail(q), c))
          BY <2>2, <5>1, AppendMembers
        <5>3. (Members(q) \ {c}) \cup {c} = Members(q)
          BY <2>2
        <5> QED
          BY <2>2, <5>2, <5>3
      <4>2. /\ queue' = [queue EXCEPT ![p] = Append(Tail(q), c)]
            /\ pc' = [pc EXCEPT ![c] = "builtin"]
        BY <1>3, <3>1 DEF Fallback
      <4> QED
        BY <4>1, <4>2
    <3>2. CASE \E how \in {"value", "error", "aborted"} : Settle(c, how)
      <4>1. queue' = [queue EXCEPT ![p] = Tail(q)] /\ pc' = [pc EXCEPT ![c] = "done"]
        BY <1>3, <3>2 DEF Settle, Released
      <4> QED
        BY <2>2, <4>1
    <3> QED
      BY <3>1, <3>2
  <2>5. /\ queue' \in [Paths -> Seq(Calls)] /\ queue'[p] = r
        /\ \A x \in Paths : x # p => queue'[x] = queue[x]
    BY <1>1, <2>4 DEF Queued
  <2>6. /\ pc'[c] \in {"done", "builtin"}
        /\ pc'[c] = "builtin" <=> c \in Members(r)
        /\ \A d \in Calls : d # c => pc'[d] = pc[d] /\ (d \in Members(r) <=> d \in Members(q))
    BY <2>2, <2>4 DEF Types
  <2>7. \A x \in Paths : /\ Injective(queue'[x])
                         /\ \A d \in Members(queue'[x]) : PathOf[d] = x
    BY <2>2, <2>4, <2>5 DEF Queued
  <2>8. ASSUME NEW d \in Calls
        PROVE  /\ d \in Members(queue'[PathOf[d]]) <=> pc'[d] \notin {"idle", "done"}
               /\ pc'[d] \in {"daemon", "oneshot"}
                    => queue'[PathOf[d]] # <<>> /\ Head(queue'[PathOf[d]]) = d
    <3>1. CASE d = c
      BY <2>5, <2>6, <3>1
    <3>2. CASE d # c /\ PathOf[d] = p
      BY <1>3, <2>3, <2>5, <2>6, <3>2 DEF Queued
    <3>3. CASE PathOf[d] # p
      BY <1>3, <2>5, <2>6, <3>3, DispatchAssumption DEF Queued
    <3> QED
      BY <3>1, <3>2, <3>3
  <2> QED
    BY <2>5, <2>7, <2>8 DEF Queued, Members
<1> QED
  BY <1>2, <1>3

\* A call enters the queue of its path at the end.
LEMMA StartQueued ==
  ASSUME Types, Queued, NEW c \in Calls, Start(c) PROVE Queued'
<1> DEFINE p == PathOf[c]
           q == queue[p]
<1>1. p \in Paths /\ q \in Seq(Calls)
  BY DispatchAssumption DEF Queued
<1>2. /\ pc[c] = "idle" /\ tool' = tool
      /\ tool = "piedit" => pc' = [pc EXCEPT ![c] = "queued"]
      /\ queue' = IF tool = "piread" THEN queue
                  ELSE [queue EXCEPT ![p] = Append(q, c)]
  BY DEF Start
<1>3. CASE tool = "piread"
  BY <1>2, <1>3 DEF Queued
<1>4. CASE tool = "piedit"
  <2>1. c \notin Members(q) /\ Injective(q)
    BY <1>1, <1>2, <1>4 DEF Queued
  <2>2. PICK r \in Seq(Calls) :
          /\ queue' = [queue EXCEPT ![p] = r] /\ Injective(r)
          /\ Members(r) = Members(q) \cup {c} /\ r # <<>>
          /\ q # <<>> => Head(r) = Head(q)
    BY <1>1, <1>2, <1>4, <2>1, AppendMembers
  <2>3. /\ queue' \in [Paths -> Seq(Calls)] /\ queue'[p] = r
        /\ \A x \in Paths : x # p => queue'[x] = queue[x]
    BY <1>1, <2>2 DEF Queued
  <2>4. pc'[c] = "queued" /\ \A d \in Calls : d # c => pc'[d] = pc[d]
    BY <1>2, <1>4 DEF Types
  <2>5. \A x \in Paths : /\ Injective(queue'[x])
                         /\ \A d \in Members(queue'[x]) : PathOf[d] = x
    BY <2>2, <2>3 DEF Queued
  <2>6. ASSUME NEW d \in Calls
        PROVE  /\ d \in Members(queue'[PathOf[d]]) <=> pc'[d] \notin {"idle", "done"}
               /\ pc'[d] \in {"daemon", "oneshot"}
                    => queue'[PathOf[d]] # <<>> /\ Head(queue'[PathOf[d]]) = d
    <3>1. CASE d = c
      BY <2>2, <2>3, <2>4, <3>1
    <3>2. CASE d # c /\ PathOf[d] = p
      BY <1>4, <2>2, <2>3, <2>4, <3>2 DEF Queued
    <3>3. CASE PathOf[d] # p
      BY <1>4, <2>3, <2>4, <3>3, DispatchAssumption DEF Queued
    <3> QED
      BY <3>1, <3>2, <3>3
  <2> QED
    BY <2>3, <2>5, <2>6 DEF Queued, Members
<1> QED
  BY <1>3, <1>4, DispatchAssumption DEF Types

\* Nobody's wait for the daemon turns into anything but a one-shot.
LEMMA KillQueued ==
  ASSUME Slots, Queued, NEW g \in Gens, KillDaemon(g), UNCHANGED <<tool, queue>>
  PROVE  Queued'
<1>1. \A c \in Waiting(g) \cap Calls : pc[c] = "daemon"
  BY DEF Slots, AwaitedInSlot
<1>2. \A c \in Calls : pc'[c] = pc[c] \/ (pc[c] = "daemon" /\ pc'[c] = "oneshot")
  BY <1>1 DEF KillDaemon, Oneshot
<1> QED
  BY <1>2, StayQueued DEF Slots

\* Every step keeps the queues in order.
LEMMA QueuedStep == Slots /\ Queued /\ [Next]_vars => Queued'
<1> SUFFICES ASSUME Slots, Queued, [Next]_vars PROVE Queued'
  OBVIOUS
<1>0. Types
  BY DEF Slots
<1>1. ASSUME UNCHANGED <<tool, queue, pc>> PROVE Queued'
  BY <1>0, <1>1, StayQueued
<1>2. ASSUME NEW c \in Calls, Start(c) PROVE Queued'
  BY <1>0, <1>2, StartQueued
<1>3. ASSUME NEW c \in Calls, DispatchAborted(c) \/ BuiltinSettles(c) PROVE Queued'
  <2>1. AtHead(c)
    BY <1>0, <1>3, DispatchAssumption
       DEF AtHead, DispatchAborted, BuiltinSettles, Ready, Holds
  <2> QED
    BY <1>0, <1>3, <2>1, LeaveQueued DEF DispatchAborted, BuiltinSettles
<1>4. ASSUME NEW c \in Calls,
             DispatchUnavailable(c) \/ DispatchStart(c) \/ DispatchSend(c)
      PROVE  Queued'
  <2>1. /\ pc[c] = "queued" /\ Holds(c) /\ UNCHANGED <<tool, queue>>
        /\ \E x \in {"oneshot", "daemon"} : pc' = [pc EXCEPT ![c] = x]
    BY <1>0, <1>4 DEF DispatchUnavailable, DispatchStart, DispatchSend, Send,
                      Ready, Oneshot, Types
  <2> QED
    BY <1>0, <2>1, StayQueued DEF Types
<1>5. ASSUME NEW c \in Calls,
             \/ OneshotFails(c)
             \/ \E k \in {"ok", "fail", "odd"} : OneshotAnswer(c, k)
      PROVE  Queued'
  <2>1. AtHead(c)
    BY <1>5 DEF AtHead, OneshotAnswer, OneshotFails, Queued
  <2> QED
    BY <1>0, <1>5, <2>1, LeaveQueued, AfterResolve DEF OneshotAnswer, OneshotFails
<1>6. ASSUME NEW c \in Calls, Abort(c) PROVE Queued'
  <2>1. CASE pc[c] \in {"daemon", "oneshot"} /\ Settle(c, "aborted")
    <3>1. AtHead(c)
      BY <2>1 DEF AtHead, Queued
    <3> QED
      BY <1>0, <1>6, <2>1, <3>1, LeaveQueued DEF Abort
  <2> QED
    BY <1>1, <1>6, <2>1 DEF Abort
<1>7. ASSUME NEW g \in Gens, Line(g) PROVE Queued'
  <2>1. UNCHANGED tool
    BY <1>7 DEF Line
  <2>2. CASE KillDaemon(g) /\ UNCHANGED queue
    BY <2>1, <2>2, KillQueued
  <2>3. ASSUME NEW e \in pending[g], Resolve(e[2], Head(out[g]).kind) PROVE Queued'
    <3>1. e[2] \in Calls /\ pc[e[2]] = "daemon"
      BY DEF Slots, Types, AwaitedInSlot, Waiting
    <3>2. AtHead(e[2])
      BY <3>1 DEF AtHead, Queued
    <3> QED
      BY <1>0, <2>1, <2>3, <3>1, <3>2, AfterResolve, LeaveQueued
  <2> QED
    BY <1>1, <1>7, <2>1, <2>2, <2>3 DEF Line
<1>8. ASSUME NEW g \in Gens, Notice(g) PROVE Queued'
  BY <1>8, KillQueued DEF Notice
<1>9. ASSUME NEW g \in Gens, WriteCallback(g) PROVE Queued'
  <2>1. PICK e \in lost[g] : Oneshot({e[2]} \cap Waiting(g))
    BY <1>9 DEF WriteCallback
  <2>2. \A c \in Calls : pc'[c] = pc[c] \/ (pc[c] = "daemon" /\ pc'[c] = "oneshot")
    BY <2>1 DEF Oneshot, Slots, AwaitedInSlot
  <2>3. UNCHANGED <<tool, queue>>
    BY <1>9 DEF WriteCallback
  <2> QED
    BY <1>0, <2>2, <2>3, StayQueued
<1>10. ASSUME \/ HostExit \/ UNCHANGED vars
              \/ \E g \in Gens : \/ DaemonTake(g) \/ DaemonDies(g)
                                 \/ \E k \in Kinds : DaemonAnswer(g, k)
       PROVE  Queued'
  BY <1>1, <1>10 DEF HostExit, vars, DaemonTake, DaemonDies, DaemonAnswer, callers
<1> QED
  BY <1>2, <1>3, <1>4, <1>5, <1>6, <1>7, <1>8, <1>9, <1>10 DEF Next

-----------------------------------------------------------------------------
(* The envelopes.                                                          *)

\* The requests of g that an answer may still come for, as <<id, call>>.
Sent(g) ==
  {inq[g][i] : i \in DOMAIN inq[g]}
    \cup {m \in {work[g]} : m # None}
    \cup {<<out[g][i].id, out[g][i].call>> : i \in DOMAIN out[g]}

\* An id that is on its way was given out, and whoever waits with it is the
\* call whose request it names.
Ids ==
  /\ Outs /\ inq \in [Gens -> Seq(Nat \X Calls)]
  /\ work \in [Gens -> (Nat \X Calls) \cup {None}]
  /\ \A g \in Gens : \A e \in pending[g] : e[1] < nextId[g]
  /\ \A g \in Gens : \A m \in Sent(g) :
       /\ m[1] < nextId[g]
       /\ \A e \in pending[g] : e[1] = m[1] => e[2] = m[2]

\* Entries and envelopes only disappear.
LEMMA LessIds ==
  ASSUME Ids, Outs', inq' \in [Gens -> Seq(Nat \X Calls)],
         work' \in [Gens -> (Nat \X Calls) \cup {None}], UNCHANGED nextId,
         \A g \in Gens : pending'[g] \subseteq pending[g],
         \A g \in Gens : Sent(g)' \subseteq Sent(g)
  PROVE  Ids'
BY DEF Ids

\* No step but a send gives out an id; an entry that goes, goes alone.
LEMMA LessPending ==
  ASSUME Types, NEW g \in Gens,
         \/ KillDaemon(g)
         \/ \E e \in pending[g] \cup lost[g] : Forget(g, e)
  PROVE  \A h \in Gens : pending'[h] \subseteq pending[h]
<1>1. CASE KillDaemon(g)
  BY <1>1 DEF KillDaemon, Types, slots
<1>2. ASSUME NEW e, Forget(g, e) PROVE \A h \in Gens : pending'[h] \subseteq pending[h]
  BY <1>2 DEF Forget, Types
<1> QED
  BY <1>1, <1>2

\* An element of a sequence that grew is the last or an old one.
LEMMA AppendIndex ==
  ASSUME NEW S, NEW q \in Seq(S), NEW x \in S
  PROVE  /\ Append(q, x) \in Seq(S)
         /\ \A i \in DOMAIN Append(q, x) :
              Append(q, x)[i] = x \/ (i \in DOMAIN q /\ Append(q, x)[i] = q[i])
<1>1. /\ Len(q) \in Nat /\ DOMAIN q = 1..Len(q)
      /\ Append(q, x) \in Seq(S) /\ DOMAIN Append(q, x) = 1..(Len(q) + 1)
      /\ Append(q, x)[Len(q) + 1] = x
      /\ \A i \in 1..Len(q) : Append(q, x)[i] = q[i]
  OBVIOUS
<1>2. ASSUME NEW i \in 1..(Len(q) + 1) PROVE i = Len(q) + 1 \/ i \in 1..Len(q)
  BY <1>1
<1> QED
  BY <1>1, <1>2

\* A request goes out with an id that nothing on its way carries.
LEMMA SendIds ==
  ASSUME Types, Ids, NEW c \in Calls, NEW g \in Gens, Send(c, g) PROVE Ids'
<1> DEFINE e == <<nextId[g], c>>
<1>1. /\ e \in Nat \X Calls /\ e[1] = nextId[g] /\ e[2] = c
      /\ nextId[g] \in Nat
  BY DEF Types
<1>2. /\ pending' = [pending EXCEPT ![g] = @ \cup {e}]
      /\ nextId' = [nextId EXCEPT ![g] = @ + 1]
      /\ inq' = inq \/ inq' = [inq EXCEPT ![g] = Append(@, e)]
      /\ UNCHANGED <<work, out>>
  BY DEF Send
<1> HIDE DEF e
<1>3. inq' \in [Gens -> Seq(Nat \X Calls)]
  <2>1. inq[g] \in Seq(Nat \X Calls) /\ Append(inq[g], e) \in Seq(Nat \X Calls)
    BY <1>1, AppendIndex DEF Ids
  <2> QED
    BY <1>2, <2>1 DEF Ids
<1>4. \A h \in Gens : Sent(h)' \subseteq IF h = g THEN Sent(g) \cup {e} ELSE Sent(h)
  <2> TAKE h \in Gens
  <2>1. CASE inq' = inq
    BY <1>2, <2>1 DEF Sent
  <2>2. CASE inq' = [inq EXCEPT ![g] = Append(@, e)]
    <3>1. CASE h = g
      <4>1. inq'[g] = Append(inq[g], e) /\ inq[g] \in Seq(Nat \X Calls)
        BY <2>2 DEF Ids
      <4>2. ASSUME NEW i \in DOMAIN inq'[g]
            PROVE  inq'[g][i] = e \/ (i \in DOMAIN inq[g] /\ inq'[g][i] = inq[g][i])
        <5>1. \A j \in DOMAIN Append(inq[g], e) :
                 Append(inq[g], e)[j] = e
                 \/ (j \in DOMAIN inq[g] /\ Append(inq[g], e)[j] = inq[g][j])
          BY <1>1, <4>1, AppendIndex
        <5> QED
          BY <4>1, <5>1
      <4> QED
        BY <1>2, <3>1, <4>2 DEF Sent
    <3>2. CASE h # g
      <4>1. inq'[h] = inq[h]
        BY <2>2, <3>2 DEF Ids
      <4> QED
        BY <1>2, <3>2, <4>1 DEF Sent
    <3> QED
      BY <3>1, <3>2
  <2> QED
    BY <1>2, <2>1, <2>2
<1>5. /\ \A h \in Gens : pending'[h] = IF h = g THEN pending[g] \cup {e} ELSE pending[h]
      /\ \A h \in Gens : nextId'[h] = IF h = g THEN nextId[g] + 1 ELSE nextId[h]
  BY <1>2 DEF Types
<1>6. \A h \in Gens : \A d \in pending[h] : d[1] \in Nat
  BY DEF Types
<1>7. \A h \in Gens : \A m \in Sent(h) : m[1] \in Nat
  <2> TAKE h \in Gens
  <2>1. \A i \in DOMAIN inq[h] : inq[h][i] \in Nat \X Calls
    BY DEF Ids
  <2>2. \A i \in DOMAIN out[h] : out[h][i].id \in Nat
    <3>1. out[h] \in Seq(Envelope)
      BY DEF Ids, Outs
    <3>2. \A i \in DOMAIN out[h] : out[h][i] \in Envelope
      BY <3>1
    <3> QED
      BY <3>2 DEF Envelope
  <2>3. work[h] # None => work[h] \in Nat \X Calls
    BY DEF Ids
  <2> QED
    BY <2>1, <2>2, <2>3 DEF Sent
<1>8. ASSUME NEW h \in Gens, NEW d \in pending'[h] PROVE d[1] < nextId'[h]
  <2>1. d = e \/ d \in pending[h]
    BY <1>5
  <2>2. nextId[h] \in Nat
    BY DEF Types
  <2>3. CASE d = e /\ h = g
    BY <1>1, <1>5, <2>3
  <2>4. CASE d \in pending[h]
    BY <1>5, <1>6, <2>2, <2>4 DEF Ids
  <2> QED
    BY <1>5, <2>3, <2>4
<1>9. ASSUME NEW h \in Gens, NEW m \in Sent(h)' PROVE m[1] < nextId'[h]
  <2>2. nextId[h] \in Nat
    BY DEF Types
  <2>3. CASE m = e /\ h = g
    BY <1>1, <1>5, <2>3
  <2>4. CASE m \in Sent(h)
    BY <1>5, <1>7, <2>2, <2>4 DEF Ids
  <2> QED
    BY <1>4, <2>3, <2>4
<1>10. ASSUME NEW h \in Gens, NEW m \in Sent(h)', NEW d \in pending'[h],
              d[1] = m[1]
       PROVE  d[2] = m[2]
  <2>1. CASE h # g
    BY <1>4, <1>5, <1>10, <2>1 DEF Ids
  <2>2. CASE h = g /\ m \in Sent(g) /\ d \in pending[g]
    BY <1>10, <2>2 DEF Ids
  <2>3. CASE h = g /\ m = e /\ d = e
    BY <2>3
  <2>4. CASE h = g /\ m = e /\ d \in pending[g]
    BY <1>1, <1>6, <1>10, <2>4 DEF Ids
  <2>5. CASE h = g /\ m \in Sent(g) /\ d = e
    BY <1>1, <1>7, <1>10, <2>5 DEF Ids
  <2> QED
    BY <1>4, <1>5, <1>10, <2>1, <2>2, <2>3, <2>4, <2>5
<1> QED
  BY <1>2, <1>3, <1>8, <1>9, <1>10 DEF Ids, Outs

\* The daemon hands ids on, or loses them.
LEMMA DaemonIds ==
  ASSUME Types, Ids, NEW g \in Gens,
         \/ DaemonTake(g) \/ DaemonDies(g)
         \/ \E k \in Kinds : DaemonAnswer(g, k)
  PROVE  Ids'
<1>0. UNCHANGED <<pending, nextId>>
  BY DEF DaemonTake, DaemonDies, DaemonAnswer, slots
<1>1. inq[g] \in Seq(Nat \X Calls) /\ out[g] \in Seq(Envelope)
  BY DEF Ids, Outs
<1>2. CASE DaemonTake(g)
  <2>1. /\ inq[g] # <<>> /\ inq' = [inq EXCEPT ![g] = Tail(@)]
        /\ work' = [work EXCEPT ![g] = Head(inq[g])] /\ out' = out
    BY <1>2 DEF DaemonTake
  <2>2. /\ Tail(inq[g]) \in Seq(Nat \X Calls) /\ Head(inq[g]) \in Nat \X Calls
        /\ 1 \in DOMAIN inq[g] /\ Head(inq[g]) = inq[g][1]
        /\ \A i \in DOMAIN Tail(inq[g]) :
             i + 1 \in DOMAIN inq[g] /\ Tail(inq[g])[i] = inq[g][i + 1]
    BY <1>1, <2>1
  <2>3. /\ inq' \in [Gens -> Seq(Nat \X Calls)]
        /\ work' \in [Gens -> (Nat \X Calls) \cup {None}]
    BY <2>1, <2>2 DEF Ids
  <2>4. /\ inq'[g] = Tail(inq[g]) /\ work'[g] = Head(inq[g])
        /\ \A h \in Gens : h # g => inq'[h] = inq[h] /\ work'[h] = work[h]
    BY <2>1 DEF Ids
  <2>5. Sent(g)' \subseteq Sent(g)
    BY <2>1, <2>2, <2>4 DEF Sent
  <2>6. \A h \in Gens : h # g => Sent(h)' = Sent(h)
    BY <2>1, <2>4 DEF Sent
  <2> QED
    BY <1>0, <2>1, <2>3, <2>5, <2>6, LessIds DEF Ids, Outs
<1>3. CASE DaemonDies(g)
  <2>1. /\ inq' = [inq EXCEPT ![g] = <<>>] /\ work' = [work EXCEPT ![g] = None]
        /\ out' = out
    BY <1>3 DEF DaemonDies
  <2>2. /\ inq' \in [Gens -> Seq(Nat \X Calls)]
        /\ work' \in [Gens -> (Nat \X Calls) \cup {None}]
    BY <2>1 DEF Ids
  <2>3. /\ inq'[g] = <<>> /\ work'[g] = None
        /\ \A h \in Gens : h # g => inq'[h] = inq[h] /\ work'[h] = work[h]
    BY <2>1 DEF Ids
  <2>4. Sent(g)' \subseteq Sent(g)
    BY <2>1, <2>3 DEF Sent
  <2>5. \A h \in Gens : h # g => Sent(h)' = Sent(h)
    BY <2>1, <2>3 DEF Sent
  <2> QED
    BY <1>0, <2>1, <2>2, <2>4, <2>5, LessIds DEF Ids, Outs
<1>4. ASSUME NEW k \in Kinds, DaemonAnswer(g, k) PROVE Ids'
  <2> DEFINE line == [id |-> work[g][1], call |-> work[g][2], kind |-> k]
  <2>1. /\ work[g] # None /\ out' = [out EXCEPT ![g] = Append(@, line)]
        /\ work' = [work EXCEPT ![g] = None] /\ inq' = inq
    BY <1>4 DEF DaemonAnswer
  <2>2. work[g] \in Nat \X Calls
    BY <2>1 DEF Ids
  <2>3. line \in Envelope /\ <<line.id, line.call>> = work[g]
    BY <2>2 DEF Envelope
  <2> HIDE DEF line
  <2>4. Outs' /\ work' \in [Gens -> (Nat \X Calls) \cup {None}]
    BY <2>1, <2>3 DEF Ids, Outs
  <2>5. /\ out'[g] = Append(out[g], line) /\ work'[g] = None
        /\ \A h \in Gens : h # g => out'[h] = out[h] /\ work'[h] = work[h]
    BY <2>1 DEF Ids, Outs
  <2>6. Sent(g)' \subseteq Sent(g)
    <3>1. ASSUME NEW i \in DOMAIN out'[g]
          PROVE  out'[g][i] = line \/ (i \in DOMAIN out[g] /\ out'[g][i] = out[g][i])
      BY <1>1, <2>3, <2>5, AppendIndex
    <3>2. work[g] \in Sent(g)
      BY <2>1 DEF Sent
    <3> QED
      BY <2>1, <2>3, <2>5, <3>1, <3>2 DEF Sent
  <2>7. \A h \in Gens : h # g => Sent(h)' = Sent(h)
    BY <2>1, <2>5 DEF Sent
  <2> QED
    BY <1>0, <2>1, <2>4, <2>6, <2>7, LessIds DEF Ids
<1> QED
  BY <1>2, <1>3, <1>4

\* A line that was read is gone.
LEMMA LineIds ==
  ASSUME Types, Ids, NEW g \in Gens, Line(g) PROVE Ids'
<1>1. /\ out[g] # <<>> /\ out' = [out EXCEPT ![g] = Tail(@)]
      /\ UNCHANGED <<inq, work>>
  BY DEF Line
<1>2. out[g] \in Seq(Envelope)
  BY DEF Ids, Outs
<1>3. /\ Tail(out[g]) \in Seq(Envelope)
      /\ \A i \in DOMAIN Tail(out[g]) :
           i + 1 \in DOMAIN out[g] /\ Tail(out[g])[i] = out[g][i + 1]
  BY <1>1, <1>2
<1>4. Outs'
  BY <1>1, <1>3 DEF Ids, Outs
<1>5. /\ out'[g] = Tail(out[g])
      /\ \A h \in Gens : h # g => out'[h] = out[h]
  BY <1>1 DEF Ids, Outs
<1>6. Sent(g)' \subseteq Sent(g)
  BY <1>1, <1>3, <1>5 DEF Sent
<1>7. \A h \in Gens : h # g => Sent(h)' = Sent(h)
  BY <1>1, <1>5 DEF Sent
<1>8. UNCHANGED nextId /\ \A h \in Gens : pending'[h] \subseteq pending[h]
  BY LessPending DEF Line, KillDaemon, slots
<1> QED
  BY <1>1, <1>4, <1>6, <1>7, <1>8, LessIds DEF Ids

\* Every step keeps ids and calls together.
LEMMA IdsStep == Types /\ Ids /\ [Next]_vars => Ids'
<1> SUFFICES ASSUME Types, Ids, [Next]_vars PROVE Ids'
  OBVIOUS
<1>1. ASSUME UNCHANGED <<nextId, inq, work, out>>,
             \A h \in Gens : pending'[h] \subseteq pending[h]
      PROVE  Ids'
  BY <1>1, LessIds DEF Ids, Outs, Sent
<1>2. ASSUME NEW c \in Calls, DispatchStart(c) PROVE Ids'
  <2>1. born + 1 \in Gens /\ Send(c, born + 1)
    BY <1>2, DispatchAssumption DEF DispatchStart, Types, Gens
  <2> QED
    BY <2>1, SendIds
<1>3. ASSUME NEW c \in Calls, DispatchSend(c) PROVE Ids'
  BY <1>3, SendIds DEF DispatchSend, Types
<1>4. ASSUME NEW c \in Calls,
             \/ Start(c) \/ DispatchAborted(c) \/ DispatchUnavailable(c)
             \/ \E k \in {"ok", "fail", "odd"} : OneshotAnswer(c, k)
             \/ OneshotFails(c) \/ BuiltinSettles(c)
      PROVE  Ids'
  BY <1>1, <1>4 DEF Start, DispatchAborted, DispatchUnavailable, OneshotAnswer,
                    OneshotFails, BuiltinSettles, slots, procs
<1>5. ASSUME NEW c \in Calls, Abort(c) PROVE Ids'
  <2>1. UNCHANGED <<nextId, inq, work, out>>
    BY <1>5 DEF Abort, procs, Forget
  <2>2. \A h \in Gens : pending'[h] \subseteq pending[h]
    BY <1>5, LessPending DEF Abort
  <2> QED
    BY <1>1, <2>1, <2>2
<1>6. ASSUME NEW g \in Gens, Line(g) PROVE Ids'
  BY <1>6, LineIds
<1>7. ASSUME NEW g \in Gens, Notice(g) \/ WriteCallback(g) PROVE Ids'
  <2>1. UNCHANGED <<nextId, inq, work, out>>
    BY <1>7 DEF Notice, WriteCallback, KillDaemon, slots
  <2>2. \A h \in Gens : pending'[h] \subseteq pending[h]
    BY <1>7, LessPending DEF Notice, WriteCallback
  <2> QED
    BY <1>1, <2>1, <2>2
<1>8. ASSUME NEW g \in Gens, \/ DaemonTake(g) \/ DaemonDies(g)
                             \/ \E k \in Kinds : DaemonAnswer(g, k)
      PROVE  Ids'
  BY <1>8, DaemonIds
<1>9. ASSUME HostExit \/ UNCHANGED vars PROVE Ids'
  BY <1>1, <1>9 DEF HostExit, vars, slots, procs
<1> QED
  BY <1>2, <1>3, <1>4, <1>5, <1>6, <1>7, <1>8, <1>9 DEF Next

-----------------------------------------------------------------------------
(* The properties.                                                         *)

\* The line that settles a call answers its request.
LEMMA AnswersStep ==
  Types /\ Ids /\ AnswersBelong /\ [Next]_vars => AnswersBelong'
<1> SUFFICES ASSUME Types, Ids, AnswersBelong, [Next]_vars PROVE AnswersBelong'
  OBVIOUS
<1>1. ASSUME NEW c \in Calls, answered' = [answered EXCEPT ![c] = c]
      PROVE  AnswersBelong'
  BY <1>1 DEF AnswersBelong, Types
<1>2. CASE UNCHANGED answered
  BY <1>2 DEF AnswersBelong
<1>3. ASSUME NEW g \in Gens, Line(g) PROVE AnswersBelong'
  <2>1. ASSUME NEW e \in pending[g], e[1] = Head(out[g]).id,
               answered' = [answered EXCEPT ![e[2]] = Head(out[g]).call]
        PROVE  AnswersBelong'
    <3>1. out[g] \in Seq(Envelope) /\ out[g] # <<>>
      BY <1>3 DEF Line, Ids, Outs
    <3>2. 1 \in DOMAIN out[g] /\ Head(out[g]) = out[g][1]
      BY <3>1
    <3>3. <<out[g][1].id, out[g][1].call>> \in Sent(g)
      BY <3>2 DEF Sent
    <3>4. e[2] = Head(out[g]).call
      BY <2>1, <3>2, <3>3 DEF Ids
    <3>5. e[2] \in Calls
      BY DEF Types
    <3> QED
      BY <1>1, <2>1, <3>4, <3>5
  <2> QED
    BY <1>2, <1>3, <2>1 DEF Line
<1>4. ASSUME NEW c \in Calls, NEW k, OneshotAnswer(c, k) PROVE AnswersBelong'
  BY <1>1, <1>4 DEF OneshotAnswer
<1>5. ASSUME NEW c \in Calls,
             \/ Start(c) \/ DispatchAborted(c) \/ DispatchUnavailable(c)
             \/ DispatchStart(c) \/ DispatchSend(c) \/ Abort(c)
             \/ OneshotFails(c) \/ BuiltinSettles(c)
      PROVE  UNCHANGED answered
  BY <1>5 DEF Start, DispatchAborted, DispatchUnavailable, DispatchStart,
              DispatchSend, Send, Abort, OneshotFails, BuiltinSettles
<1>6. ASSUME NEW g \in Gens,
             \/ Notice(g) \/ WriteCallback(g) \/ DaemonTake(g) \/ DaemonDies(g)
             \/ \E k \in Kinds : DaemonAnswer(g, k)
      PROVE  UNCHANGED answered
  BY <1>6 DEF Notice, WriteCallback, DaemonTake, DaemonDies, DaemonAnswer,
              callers
<1>7. ASSUME HostExit \/ UNCHANGED vars PROVE UNCHANGED answered
  BY <1>7 DEF HostExit, vars, callers
<1> QED
  BY <1>2, <1>3, <1>4, <1>5, <1>6, <1>7 DEF Next

\* While a call is on its way, something holds the event loop: its own rung, or
\* that of the head of the queue it stands in.
LEMMA HeldWhileAwaited ==
  ASSUME Slots, Queued, NEW c \in Calls, pc[c] \notin {"idle", "done"}
  PROVE  LoopHeld
<1>1. ASSUME NEW d \in Calls, pc[d] \in {"daemon", "oneshot"} PROVE LoopHeld
  <2>1. pc[d] = "daemon" => \E g \in Gens : pending[g] # {}
    BY DEF Slots, AwaitedInSlot, Waiting
  <2> QED
    BY <1>1, <2>1 DEF LoopHeld, Slots, AwaitedInSlot
<1>2. ASSUME NEW d \in Calls, pc[d] \in {"queued", "builtin"}, Holds(d)
      PROVE  LoopHeld
  BY <1>2 DEF LoopHeld
<1>3. CASE pc[c] \in {"queued", "builtin"} /\ ~Holds(c)
  <2> DEFINE q == queue[PathOf[c]]
  <2>1. tool = "piedit" /\ PathOf[c] \in Paths /\ q \in Seq(Calls)
    BY <1>3, DispatchAssumption DEF Holds, Queued, Slots, Types
  <2>2. c \in Members(q) /\ Injective(q)
    BY <2>1 DEF Queued
  <2>3. q # <<>>
    BY <2>1, <2>2 DEF Members
  <2>4. Head(q) \in Members(q) /\ Head(q) \in Calls
    BY <2>1, <2>2, <2>3, TailMembers
  <2>5. PathOf[Head(q)] = PathOf[c]
    BY <2>1, <2>4 DEF Queued
  <2>6. pc[Head(q)] \notin {"idle", "done"} /\ Holds(Head(q))
    BY <2>1, <2>3, <2>4, <2>5 DEF Queued, Holds
  <2> QED
    BY <1>1, <1>2, <2>4, <2>6 DEF Slots, Types
<1> QED
  BY <1>1, <1>2, <1>3 DEF Slots, Types

\* Node exits only when no call is on its way, and then nothing moves any more.
LEMMA ExitStep ==
  Slots /\ Queued /\ NoUnsettledExit /\ [Next]_vars => NoUnsettledExit'
<1> SUFFICES ASSUME Slots, Queued, NoUnsettledExit, [Next]_vars
             PROVE  NoUnsettledExit'
  OBVIOUS
<1>1. CASE UNCHANGED <<host, pc>>
  BY <1>1 DEF NoUnsettledExit
<1>2. CASE HostExit
  BY <1>2, HeldWhileAwaited DEF HostExit, NoUnsettledExit, callers
<1>3. ASSUME NEW c \in Calls,
             \/ Start(c) \/ DispatchAborted(c) \/ DispatchUnavailable(c)
             \/ DispatchStart(c) \/ DispatchSend(c) \/ Abort(c)
             \/ \E k \in {"ok", "fail", "odd"} : OneshotAnswer(c, k)
             \/ OneshotFails(c) \/ BuiltinSettles(c)
      PROVE  host' = "up"
  BY <1>3 DEF Start, DispatchAborted, DispatchUnavailable, DispatchStart,
              DispatchSend, Send, Ready, Abort, OneshotAnswer, OneshotFails,
              BuiltinSettles
<1>4. ASSUME NEW g \in Gens, Line(g) \/ Notice(g) \/ WriteCallback(g)
      PROVE  host' = "up"
  BY <1>4 DEF Line, Notice, WriteCallback
<1>5. ASSUME NEW g \in Gens,
             \/ DaemonTake(g) \/ DaemonDies(g)
             \/ \E k \in Kinds : DaemonAnswer(g, k)
      PROVE  UNCHANGED <<host, pc>>
  BY <1>5 DEF DaemonTake, DaemonDies, DaemonAnswer, callers
<1>6. host' = "up" => NoUnsettledExit'
  BY DEF NoUnsettledExit
<1>7. UNCHANGED vars => UNCHANGED <<host, pc>>
  BY DEF vars, callers
<1> QED
  BY <1>1, <1>2, <1>3, <1>4, <1>5, <1>6, <1>7 DEF Next

Inv == Slots /\ Queued /\ Ids /\ AnswersBelong /\ NoUnsettledExit

\* Nothing was called or started.
LEMMA InitInv == Init => Inv
<1> SUFFICES ASSUME Init PROVE Inv
  OBVIOUS
<1>1. Types
  BY DispatchAssumption DEF Init, Types
<1>2. Unborn /\ LostOnce
  BY DispatchAssumption DEF Init, Unborn, LostOnce, Gens
<1>3. AwaitedInSlot
  BY DEF Init, AwaitedInSlot, Waiting
<1>4. Queued
  <2>1. <<>> \in Seq(Calls) /\ DOMAIN <<>> = {}
    OBVIOUS
  <2>2. \A p \in Paths : queue[p] = <<>>
    BY DEF Init
  <2>3. Members(<<>>) = {} /\ Injective(<<>>)
    BY <2>1 DEF Members, Injective
  <2>4. \A c \in Calls : pc[c] = "idle" /\ PathOf[c] \in Paths
    BY DispatchAssumption DEF Init
  <2>5. queue \in [Paths -> Seq(Calls)]
    BY <2>1 DEF Init
  <2> QED
    BY <2>2, <2>3, <2>4, <2>5 DEF Queued
<1>5. Ids
  <2>1. \A g \in Gens : Sent(g) = {}
    BY DEF Init, Sent
  <2> QED
    BY <2>1 DEF Init, Ids, Outs
<1>6. AnswersBelong /\ NoUnsettledExit
  BY DEF Init, AnswersBelong, NoUnsettledExit
<1> QED
  BY <1>1, <1>2, <1>3, <1>4, <1>5, <1>6 DEF Inv, Slots

\* The three parts and what follows from them hold in every behaviour.
THEOREM Inductive == Spec => []Inv
<1>1. Inv /\ [Next]_vars => Inv'
  BY SlotsStep, QueuedStep, IdsStep, AnswersStep, ExitStep DEF Inv, Slots, Ids
<1> QED
  BY <1>1, InitInv, PTL DEF Spec

\* The maps, slots and handles agree: a call awaits the daemon exactly when it
\* has its one entry, in the slot, and handles hold the loop exactly then.
THEOREM TypeCorrect == Spec => []TypeOK
<1>1. Inv => TypeOK
  BY DEF Inv, Slots, Types, TypeOK
<1> QED
  BY <1>1, Inductive, PTL

\* Node never exits with an awaited call unsettled (the "exit 13" hang).
THEOREM NeverExitsUnsettled == Spec => []NoUnsettledExit
<1>1. Inv => NoUnsettledExit
  BY DEF Inv
<1> QED
  BY <1>1, Inductive, PTL

\* Late and dropped answers never cross.
THEOREM AnswersNeverCross == Spec => []AnswersBelong
<1>1. Inv => AnswersBelong
  BY DEF Inv
<1> QED
  BY <1>1, Inductive, PTL

\* Same-path edits serialise.
THEOREM EditsSerialise == Spec => []QueueExcludes
<1>1. Inv => QueueExcludes
  BY DEF Inv, Queued, QueueExcludes, Holds
<1> QED
  BY <1>1, Inductive, PTL

-----------------------------------------------------------------------------
(* The promise of a tool call, as far as safety goes.                      *)

\* A call has an outcome when it is done, and an aborted one was signalled.
Outcomes ==
  \A c \in Calls : /\ result[c] # None <=> pc[c] = "done"
                   /\ result[c] = "aborted" => aborted[c]

\* One call settles with how, and nothing else happens to the promise.
LEMMA SettlesOnce ==
  ASSUME Types, Outcomes, NEW c \in Calls, pc[c] \notin {"idle", "done"},
         NEW how \in {"value", "error", "aborted"}, how = "aborted" => aborted[c],
         Settle(c, how), UNCHANGED aborted
  PROVE  Outcomes' /\ Promise!Next
<1>1. /\ pc' = [pc EXCEPT ![c] = "done"]
      /\ result' = [result EXCEPT ![c] = how]
  BY DEF Settle
<1>2. Outcomes'
  BY <1>1, DispatchAssumption DEF Outcomes, Types
<1>3. Promise!Settle(c, how)
  <2>1. [d \in Calls |-> pc[d] # "idle"][c]
    OBVIOUS
  <2>2. [d \in Calls |-> pc'[d] # "idle"] = [d \in Calls |-> pc[d] # "idle"]
    BY <1>1 DEF Types
  <2>3. result[c] = None
    BY DEF Outcomes
  <2> QED
    BY <1>1, <2>1, <2>2, <2>3 DEF Promise!Settle
<1> QED
  BY <1>2, <1>3 DEF Promise!Next, Promise!Outcomes

\* The call moves on between its start and its end.
LEMMA MovesOn ==
  ASSUME Types, Outcomes, UNCHANGED <<result, aborted>>,
         \A c \in Calls : /\ pc'[c] = "idle" <=> pc[c] = "idle"
                          /\ pc'[c] = "done" <=> pc[c] = "done"
  PROVE  Outcomes' /\ UNCHANGED Promise!vars
<1>1. [c \in Calls |-> pc'[c] # "idle"] = [c \in Calls |-> pc[c] # "idle"]
  OBVIOUS
<1> QED
  BY <1>1 DEF Outcomes, Promise!vars

\* A call that settles or falls back, on whatever rung.
LEMMA RungEnds ==
  ASSUME Types, Outcomes, UNCHANGED aborted, NEW c \in Calls,
         pc[c] \notin {"idle", "done"},
         \/ \E how \in {"value", "error", "aborted"} :
              Settle(c, how) /\ (how = "aborted" => aborted[c])
         \/ Fallback(c)
  PROVE  Outcomes' /\ (Promise!Next \/ UNCHANGED Promise!vars)
<1>1. CASE Fallback(c)
  BY <1>1, MovesOn DEF Fallback, Types
<1> QED
  BY <1>1, SettlesOnce

\* Every step is one of the promise, or none.
LEMMA PromiseStep ==
  Slots /\ Outcomes /\ [Next]_vars
    => Outcomes' /\ (Promise!Next \/ UNCHANGED Promise!vars)
<1> DEFINE Goal == Outcomes' /\ (Promise!Next \/ UNCHANGED Promise!vars)
<1> SUFFICES ASSUME Slots, Outcomes, [Next]_vars PROVE Goal
  OBVIOUS
<1>0. Types
  BY DEF Slots
<1>1. ASSUME UNCHANGED <<pc, result, aborted>> PROVE Goal
  BY <1>0, <1>1, MovesOn
<1>2. ASSUME NEW c \in Calls, Start(c) PROVE Goal
  <2>1. /\ pc[c] = "idle"
        /\ \E x \in {"queued", "builtin"} : pc' = [pc EXCEPT ![c] = x]
        /\ UNCHANGED <<result, aborted>>
    BY <1>2 DEF Start
  <2>2. Outcomes'
    BY <1>0, <2>1 DEF Outcomes, Types
  <2>3. [d \in Calls |-> pc'[d] # "idle"]
          = [[d \in Calls |-> pc[d] # "idle"] EXCEPT ![c] = TRUE]
    BY <1>0, <2>1 DEF Types
  <2>4. Promise!Start(c)
    BY <2>1, <2>3 DEF Promise!Start
  <2> QED
    BY <2>2, <2>4 DEF Promise!Next
<1>3. ASSUME NEW c \in Calls, DispatchAborted(c) PROVE Goal
  BY <1>0, <1>3, RungEnds DEF DispatchAborted, Ready
<1>4. ASSUME NEW c \in Calls,
             DispatchUnavailable(c) \/ DispatchStart(c) \/ DispatchSend(c)
      PROVE  Goal
  <2>1. /\ pc[c] = "queued" /\ UNCHANGED <<result, aborted>>
        /\ \E x \in {"oneshot", "daemon"} : pc' = [pc EXCEPT ![c] = x]
    BY <1>0, <1>4 DEF DispatchUnavailable, DispatchStart, DispatchSend, Send,
                      Ready, Oneshot, Types
  <2> QED
    BY <1>0, <2>1, MovesOn DEF Types
<1>5. ASSUME NEW c \in Calls, NEW kind, Resolve(c, kind)
      PROVE  \/ \E how \in {"value", "error", "aborted"} :
                  Settle(c, how) /\ (how = "aborted" => aborted[c])
             \/ Fallback(c)
  BY <1>5 DEF Resolve
<1>6. ASSUME NEW c \in Calls, NEW k, OneshotAnswer(c, k) PROVE Goal
  BY <1>0, <1>5, <1>6, RungEnds DEF OneshotAnswer
<1>7. ASSUME NEW c \in Calls, OneshotFails(c) PROVE Goal
  BY <1>0, <1>7, RungEnds DEF OneshotFails
<1>8. ASSUME NEW c \in Calls, BuiltinSettles(c) PROVE Goal
  BY <1>0, <1>8, RungEnds DEF BuiltinSettles
<1>9. ASSUME NEW c \in Calls, Abort(c) PROVE Goal
  <2>1. /\ aborted' = [aborted EXCEPT ![c] = TRUE] /\ ~aborted[c]
        /\ pc[c] \notin {"idle", "done"} /\ result[c] = None
    BY <1>9 DEF Abort, Outcomes
  <2>2. CASE Settle(c, "aborted")
    <3>1. /\ pc' = [pc EXCEPT ![c] = "done"]
          /\ result' = [result EXCEPT ![c] = "aborted"]
      BY <2>2 DEF Settle
    <3>2. Outcomes'
      BY <1>0, <2>1, <3>1, DispatchAssumption DEF Outcomes, Types
    <3>3. [d \in Calls |-> pc'[d] # "idle"] = [d \in Calls |-> pc[d] # "idle"]
      BY <1>0, <2>1, <3>1 DEF Types
    <3>4. Promise!Signal(c)
      BY <2>1, <3>1, <3>3 DEF Promise!Signal
    <3> QED
      BY <3>2, <3>4 DEF Promise!Next
  <2>3. CASE UNCHANGED <<pc, result>>
    <3>1. Outcomes'
      BY <1>0, <2>1, <2>3 DEF Outcomes, Types
    <3>2. Promise!Signal(c)
      BY <2>1, <2>3 DEF Promise!Signal
    <3> QED
      BY <3>1, <3>2 DEF Promise!Next
  <2> QED
    BY <1>9, <2>2, <2>3 DEF Abort
<1>10. ASSUME NEW g \in Gens, KillDaemon(g), UNCHANGED <<result, aborted>>
       PROVE  Goal
  <2>1. \A c \in Calls : pc'[c] = pc[c] \/ (pc[c] = "daemon" /\ pc'[c] = "oneshot")
    <3>1. \A c \in Waiting(g) \cap Calls : pc[c] = "daemon"
      BY DEF Slots, AwaitedInSlot
    <3> QED
      BY <1>10, <3>1 DEF KillDaemon, Oneshot
  <2> QED
    BY <1>0, <1>10, <2>1, MovesOn
<1>11. ASSUME NEW g \in Gens, Line(g) PROVE Goal
  <2>1. UNCHANGED aborted
    BY <1>11 DEF Line
  <2>2. ASSUME NEW e \in pending[g], NEW kind, Resolve(e[2], kind) PROVE Goal
    <3>1. e[2] \in Calls /\ pc[e[2]] = "daemon"
      BY DEF Slots, Types, AwaitedInSlot, Waiting
    <3> QED
      BY <1>0, <1>5, <2>1, <2>2, <3>1, RungEnds
  <2> QED
    BY <1>1, <1>10, <1>11, <2>1, <2>2 DEF Line
<1>12. ASSUME NEW g \in Gens, Notice(g) PROVE Goal
  BY <1>10, <1>12 DEF Notice
<1>13. ASSUME NEW g \in Gens, WriteCallback(g) PROVE Goal
  <2>1. PICK e \in lost[g] : Oneshot({e[2]} \cap Waiting(g))
    BY <1>13 DEF WriteCallback
  <2>2. \A c \in Calls : pc'[c] = pc[c] \/ (pc[c] = "daemon" /\ pc'[c] = "oneshot")
    BY <2>1 DEF Oneshot, Slots, AwaitedInSlot
  <2>3. UNCHANGED <<result, aborted>>
    BY <1>13 DEF WriteCallback
  <2> QED
    BY <1>0, <2>2, <2>3, MovesOn
<1>14. ASSUME \/ HostExit \/ UNCHANGED vars
              \/ \E g \in Gens : \/ DaemonTake(g) \/ DaemonDies(g)
                                 \/ \E k \in Kinds : DaemonAnswer(g, k)
       PROVE  Goal
  BY <1>1, <1>14 DEF HostExit, vars, DaemonTake, DaemonDies, DaemonAnswer, callers
<1> HIDE DEF Goal
<1> QED
  BY <1>2, <1>3, <1>4, <1>6, <1>7, <1>8, <1>9, <1>11, <1>12, <1>13, <1>14 DEF Next

\* A tool call settles at most once, only after it was started, and as aborted
\* only when its signal fired, whichever of the three rungs carries it out.
THEOREM KeepsPromise == Spec => Promise!Init /\ [][Promise!Next]_(Promise!vars)
<1>1. Init => Outcomes /\ Promise!Init
  <2> SUFFICES ASSUME Init PROVE Outcomes /\ Promise!Init
    OBVIOUS
  <2>1. Outcomes
    BY DispatchAssumption DEF Init, Outcomes
  <2>2. [c \in Calls |-> pc[c] # "idle"] = [c \in Calls |-> FALSE]
    BY DEF Init
  <2> QED
    BY <2>1, <2>2 DEF Init, Promise!Init
<1>2. Inv => Slots
  BY DEF Inv
<1>3. Slots /\ Outcomes /\ [Next]_vars => Outcomes' /\ [Promise!Next]_(Promise!vars)
  BY PromiseStep
<1> QED
  BY <1>1, <1>2, <1>3, Inductive, PTL DEF Spec
=============================================================================
