--------------------------- MODULE GateBashProofs ---------------------------
(* Proofs about GateBash, for any calls, commands and R10 keys.              *)
EXTENDS GateBash, FiniteSetTheorems, TLAPS

\* The calls whose mutation took effect and is not counted yet.
Uncounted ==
  {c \in Calls : run[c].at = "ran" /\ ~run[c].failed /\ Mutates(run[c].cmd)}

\* A call's record: r is Idle or has the fields of where it is.
Shaped(r) ==
  /\ r = Idle \/ r.at \in {"confirming", "blocked", "running", "ran"}
  /\ r.at \in {"confirming", "blocked"} => r.cmd \in Cmds
  /\ r.at = "confirming" => r.cmd \in Destructive
  /\ r.at \in {"running", "ran"} => r.cmd \in Cmds \cup {Edit} /\ r.seq \in Nat
  /\ r.at = "ran" => /\ r.failed \in BOOLEAN /\ r.current \in BOOLEAN
                     /\ DOMAIN r = {"at", "cmd", "seq", "failed", "current"}

Types ==
  /\ run = [c \in Calls |-> run[c]] /\ \A c \in Calls : Shaped(run[c])
  /\ dialog \subseteq Calls
  /\ pendingBash \in [Calls -> Bases \cup {None}]
  /\ pendingBashFull \in [Calls -> Cmds \cup {None}]
  /\ lastBashRun = [b \in Bases |-> lastBashRun[b]]
  /\ \A b \in Bases : lastBashRun[b] # None =>
        lastBashRun[b] \in [mut : Nat, failed : BOOLEAN, raced : BOOLEAN]
  /\ lastBlockedBash # None => lastBlockedBash \in [cmd : Cmds, mut : Nat]
  /\ mutationSeq \in Nat /\ tree \in 0..MaxSeq
  /\ lastApproved \in granted \cup {None} /\ granted \subseteq Destructive
  /\ promptApproves \in BOOLEAN

\* What the handlers remember of a call is its command.
Keyed ==
  \A c \in Calls :
    /\ run[c].at \in {"running", "ran"} /\ run[c].cmd # Edit
         => pendingBash[c] = BaseOf[run[c].cmd]
    /\ run[c].at \in {"confirming", "blocked"} => pendingBashFull[c] = run[c].cmd

\* Every mutation is counted once.
Counted ==
  /\ IsFiniteSet(Uncounted)
  /\ mutationSeq + Cardinality(Uncounted) = tree

\* No record is of a later count.
Earlier ==
  /\ \A c \in Calls : run[c].at \in {"running", "ran"} => run[c].seq <= mutationSeq
  /\ \A b \in Bases : lastBashRun[b] # None => lastBashRun[b].mut <= mutationSeq
  /\ lastBlockedBash # None => lastBlockedBash.mut <= mutationSeq

\* An output seen before the last mutation is known to be outdated by the time
\* that mutation is counted.
Fresh ==
  /\ \A b \in Bases :
       lastBashRun[b] # None /\ ~lastBashRun[b].failed /\ ~lastBashRun[b].raced
         /\ lastBashRun[b].mut = mutationSeq
         => b \in shown \/ Uncounted # {}
  /\ \A c \in Calls :
       run[c].at = "ran" /\ ~run[c].current /\ run[c].seq = mutationSeq
         => Uncounted # {}

\* A command the two rules must leave to the user.
Approvable(m) == m \in Destructive \ Rejected /\ OwnKey(m)

\* Neither rule has anything on record against such a command.
Exempt ==
  /\ lastBlockedBash # None => ~Approvable(lastBlockedBash.cmd)
  /\ \A c \in Calls : run[c].at = "blocked" /\ run[c].family # "Destructive"
       => ~Approvable(run[c].cmd)
  /\ \A m \in Destructive :
       OwnKey(m) /\ lastBashRun[BaseOf[m]] # None /\ ~lastBashRun[BaseOf[m]].failed
         => lastBashRun[BaseOf[m]].mut < mutationSeq

Inv == Types /\ Keyed /\ Counted /\ Earlier /\ Fresh /\ Exempt

-----------------------------------------------------------------------------
\* A call that blocks or runs.
LEMMA Shapes ==
  ASSUME Types
  PROVE  /\ Shaped(Idle)
         /\ \A m \in Cmds : \A f : Shaped([at |-> "blocked", cmd |-> m, family |-> f])
         /\ \A m \in Destructive : Shaped([at |-> "confirming", cmd |-> m])
         /\ \A m \in Cmds \cup {Edit} :
              Shaped([at |-> "running", cmd |-> m, seq |-> mutationSeq])
         /\ \A m \in Cmds \cup {Edit}, s \in Nat, f, t \in BOOLEAN :
              Shaped([at |-> "ran", cmd |-> m, seq |-> s, failed |-> f,
                      current |-> t])
BY BashAssumption DEF Types, Shaped, Idle

\* One call moves on to r.
LEMMA Moves ==
  ASSUME Types, NEW c \in Calls, NEW r, Shaped(r), run' = [run EXCEPT ![c] = r]
  PROVE  /\ run' = [d \in Calls |-> run'[d]] /\ \A d \in Calls : Shaped(run'[d])
         /\ \A d \in Calls : run'[d] = IF d = c THEN r ELSE run[d]
BY DEF Types

\* The end of the tool_call handler.
LEMMA Finishes ==
  ASSUME Types, NEW c \in Calls, NEW m \in Cmds, Finish(c, m)
  PROVE  /\ \A d \in Calls : Shaped(run'[d])
         /\ run' = [d \in Calls |-> run'[d]]
         /\ pendingBash' \in [Calls -> Bases \cup {None}]
         /\ \A d \in Calls : d # c => /\ run'[d] = run[d]
                                      /\ pendingBash'[d] = pendingBash[d]
         /\ \/ /\ Reruns(m)
               /\ run'[c] = [at |-> "blocked", cmd |-> m, family |-> "Re-run"]
            \/ /\ run'[c] = [at |-> "running", cmd |-> m, seq |-> mutationSeq]
               /\ pendingBash'[c] = BaseOf[m]
<1>1. CASE Reruns(m) /\ Blocked(c, m, "Re-run")
  BY <1>1, Shapes, Moves DEF Blocked, Types
<1>2. CASE /\ pendingBash' = [pendingBash EXCEPT ![c] = BaseOf[m]]
           /\ run' = [run EXCEPT ![c] = [at |-> "running", cmd |-> m,
                                         seq |-> mutationSeq]]
  BY <1>2, Shapes, Moves DEF Types, Bases
<1> QED
  BY <1>1, <1>2 DEF Finish

-----------------------------------------------------------------------------
LEMMA TypesStep == Types /\ Counted /\ [Next]_vars => Types'
<1> SUFFICES ASSUME Types, Counted, [Next]_vars PROVE Types'
  OBVIOUS
<1>1. ASSUME NEW c \in Calls, NEW m \in Cmds, BashCall(c, m) PROVE Types'
  <2>1. ASSUME NEW f, Blocked(c, m, f)
        PROVE  /\ run' = [d \in Calls |-> run'[d]]
               /\ \A d \in Calls : Shaped(run'[d])
               /\ pendingBash' \in [Calls -> Bases \cup {None}]
    BY <2>1, Shapes, Moves DEF Blocked, Types
  <2>2. pendingBashFull' \in [Calls -> Cmds \cup {None}]
    BY <1>1 DEF BashCall, Types
  <2>3. /\ run' = [d \in Calls |-> run'[d]]
        /\ \A d \in Calls : Shaped(run'[d])
        /\ pendingBash' \in [Calls -> Bases \cup {None}]
        /\ dialog' \subseteq Calls
    BY <1>1, <2>1, Shapes, Moves, Finishes DEF BashCall, Types
  <2> QED
    BY <1>1, <2>2, <2>3 DEF BashCall, Types
<1>2. ASSUME NEW c \in Calls, NEW yes, UserAnswers(c, yes) PROVE Types'
  <2>1. CASE run[c].at # "confirming"
    BY <1>2, <2>1 DEF UserAnswers, Types
  <2>2. CASE run[c].at = "confirming"
    <3>1. run[c].cmd \in Destructive /\ run[c].cmd \in Cmds
      BY <2>2 DEF Types, Shaped
    <3>2. /\ run' = [d \in Calls |-> run'[d]]
          /\ \A d \in Calls : Shaped(run'[d])
          /\ pendingBash' \in [Calls -> Bases \cup {None}]
          /\ lastApproved' \in granted' \cup {None} /\ granted' \subseteq Destructive
      BY <1>2, <2>2, <3>1, Shapes, Moves, Finishes DEF UserAnswers, Blocked, Types
    <3> QED
      BY <1>2, <3>2 DEF UserAnswers, Types
  <2> QED
    BY <2>1, <2>2
<1>3. ASSUME NEW c \in Calls, ConfirmTimeout(c) PROVE Types'
  <2>1. run[c].cmd \in Cmds
    BY <1>3 DEF ConfirmTimeout, Types, Shaped
  <2>2. /\ run' = [d \in Calls |-> run'[d]]
        /\ \A d \in Calls : Shaped(run'[d])
    BY <1>3, <2>1, Shapes, Moves DEF ConfirmTimeout, Blocked
  <2> QED
    BY <1>3, <2>2 DEF ConfirmTimeout, Blocked, Types
<1>4. ASSUME NEW c \in Calls, EditCall(c) PROVE Types'
  <2>1. /\ run' = [d \in Calls |-> run'[d]]
        /\ \A d \in Calls : Shaped(run'[d])
    BY <1>4, Shapes, Moves DEF EditCall
  <2> QED
    BY <1>4, <2>1 DEF EditCall, Types
<1>5. ASSUME NEW c \in Calls, NEW failed \in BOOLEAN, Exec(c, failed) PROVE Types'
  <2>1. run[c].cmd \in Cmds \cup {Edit} /\ run[c].seq \in Nat
    BY <1>5 DEF Exec, Types, Shaped
  <2>2. \A d \in Calls :
          run[d].at = "ran" => Shaped([run[d] EXCEPT !.current = FALSE])
    BY DEF Types, Shaped
  <2>3. /\ run' = [d \in Calls |-> run'[d]]
        /\ \A d \in Calls : Shaped(run'[d])
    BY <1>5, <2>1, <2>2, Shapes DEF Exec, Types
  <2>4. tree' \in 0..MaxSeq
    BY <1>5, BashAssumption DEF Exec, Types
  <2> QED
    BY <1>5, <2>3, <2>4 DEF Exec, Types
<1>6. ASSUME NEW c \in Calls, BashResult(c) PROVE Types'
  <2>1. /\ run' = [d \in Calls |-> run'[d]]
        /\ \A d \in Calls : Shaped(run'[d])
    BY <1>6, Shapes, Moves DEF BashResult
  <2>2. /\ pendingBash' \in [Calls -> Bases \cup {None}]
        /\ pendingBashFull' \in [Calls -> Cmds \cup {None}]
    BY <1>6 DEF BashResult, Types
  <2>3. run[c].failed \in BOOLEAN
    BY <1>6 DEF BashResult, Types, Shaped
  <2>4. mutationSeq' \in Nat
    BY <1>6 DEF BashResult, Types
  <2>5. /\ lastBashRun' = [b \in Bases |-> lastBashRun'[b]]
        /\ \A b \in Bases : lastBashRun'[b] # None =>
             lastBashRun'[b] \in [mut : Nat, failed : BOOLEAN, raced : BOOLEAN]
    <3>1. \/ lastBashRun' = lastBashRun
          \/ \E r \in [mut : Nat, failed : BOOLEAN, raced : BOOLEAN] :
               lastBashRun' = [lastBashRun EXCEPT ![pendingBash[c]] = r]
      BY <1>6, <2>3 DEF BashResult, Types
    <3> QED
      BY <3>1 DEF Types
  <2> QED
    BY <1>6, <2>1, <2>2, <2>4, <2>5 DEF BashResult, Types
<1>7. ASSUME NEW c \in Calls, BlockedResult(c) PROVE Types'
  <2>1. /\ run' = [d \in Calls |-> run'[d]]
        /\ \A d \in Calls : Shaped(run'[d])
    BY <1>7, Shapes, Moves DEF BlockedResult
  <2>2. pendingBashFull' \in [Calls -> Cmds \cup {None}]
    BY <1>7 DEF BlockedResult, Types
  <2> QED
    BY <1>7, <2>1, <2>2 DEF BlockedResult, Types
<1>8. ASSUME NEW c \in Calls, EditResult(c) PROVE Types'
  <2>1. /\ run' = [d \in Calls |-> run'[d]]
        /\ \A d \in Calls : Shaped(run'[d])
    BY <1>8, Shapes, Moves DEF EditResult
  <2> QED
    BY <1>8, <2>1 DEF EditResult, Types
<1>9. ASSUME NEW approves \in BOOLEAN, Prompt(approves) PROVE Types'
  BY <1>9 DEF Prompt, Types
<1>10. CASE SessionCompact
  BY <1>10 DEF SessionCompact, Types
<1>11. ASSUME NEW b \in Bases, RunWindowElapses(b) PROVE Types'
  BY <1>11 DEF RunWindowElapses, Types
<1>12. CASE BlockWindowElapses \/ ApprovalWindowElapses \/ UNCHANGED vars
  BY <1>12 DEF BlockWindowElapses, ApprovalWindowElapses, vars, Types
<1> QED
  BY <1>1, <1>2, <1>3, <1>4, <1>5, <1>6, <1>7, <1>8, <1>9, <1>10, <1>11, <1>12
     DEF Next

-----------------------------------------------------------------------------
(* What the handlers do to a call, in the terms of the invariant.          *)

\* Where tool_call can leave call c.
Admits(c) ==
  /\ run'[c].at \in {"confirming", "blocked", "running"}
  /\ run'[c].at \in {"confirming", "blocked"}
       => run'[c].cmd \in Cmds /\ pendingBashFull'[c] = run'[c].cmd
  /\ run'[c].at = "blocked"
       => \/ run'[c].family = "Destructive" \/ run'[c].cmd \in Rejected
          \/ Reblocks(run'[c].cmd) \/ Reruns(run'[c].cmd)
  /\ run'[c].at = "running"
       => /\ run'[c].seq = mutationSeq
          /\ run'[c].cmd # Edit => pendingBash'[c] = BaseOf[run'[c].cmd]

\* tool_call touches its own call, and no record.
CallStep(c) ==
  /\ \A d \in Calls \ {c} : /\ run'[d] = run[d]
                            /\ pendingBash'[d] = pendingBash[d]
                            /\ pendingBashFull'[d] = pendingBashFull[d]
  /\ \/ /\ run'[c] = run[c]
        /\ pendingBash'[c] = pendingBash[c]
        /\ pendingBashFull'[c] = pendingBashFull[c]
     \/ run[c].at \in {"idle", "confirming"} /\ Admits(c)
  /\ UNCHANGED <<lastBashRun, lastBlockedBash, mutationSeq, tree, shown>>

LEMMA CallSteps ==
  ASSUME Types, Keyed, NEW c \in Calls,
         \/ \E m \in Cmds : BashCall(c, m)
         \/ \E yes \in BOOLEAN : UserAnswers(c, yes)
         \/ ConfirmTimeout(c) \/ EditCall(c)
  PROVE  CallStep(c)
<1>1. ASSUME NEW m \in Cmds, BashCall(c, m) PROVE CallStep(c)
  <2>1. /\ \A d \in Calls \ {c} : pendingBashFull'[d] = pendingBashFull[d]
        /\ pendingBashFull'[c] = m /\ run[c].at = "idle"
        /\ UNCHANGED <<lastBashRun, lastBlockedBash, mutationSeq, tree, shown>>
    BY <1>1 DEF BashCall, Types, Idle
  <2>2. ASSUME NEW f, Blocked(c, m, f),
               \/ f = "Destructive" \/ m \in Rejected \/ Reblocks(m) \/ Reruns(m)
        PROVE  CallStep(c)
    <3>1. /\ run'[c] = [at |-> "blocked", cmd |-> m, family |-> f]
          /\ \A d \in Calls \ {c} : run'[d] = run[d]
          /\ pendingBash' = pendingBash
      BY <2>2 DEF Blocked, Types
    <3>2. Admits(c)
      BY <2>1, <2>2, <3>1 DEF Admits
    <3> QED
      BY <2>1, <3>1, <3>2 DEF CallStep
  <2>3. ASSUME run' = [run EXCEPT ![c] = [at |-> "confirming", cmd |-> m]],
               UNCHANGED pendingBash
        PROVE  CallStep(c)
    <3>1. /\ run'[c] = [at |-> "confirming", cmd |-> m]
          /\ \A d \in Calls \ {c} : run'[d] = run[d]
      BY <2>3 DEF Types
    <3>2. Admits(c)
      BY <2>1, <3>1 DEF Admits
    <3> QED
      BY <2>1, <2>3, <3>1, <3>2 DEF CallStep
  <2>4. ASSUME Finish(c, m) PROVE CallStep(c)
    <3>1. Admits(c)
      <4>1. CASE run'[c] = [at |-> "blocked", cmd |-> m, family |-> "Re-run"]
                   /\ Reruns(m)
        BY <2>1, <4>1 DEF Admits
      <4>2. CASE run'[c] = [at |-> "running", cmd |-> m, seq |-> mutationSeq]
                   /\ pendingBash'[c] = BaseOf[m]
        BY <4>2 DEF Admits
      <4> QED
        BY <2>4, <4>1, <4>2, Finishes
    <3>2. \A d \in Calls \ {c} : /\ run'[d] = run[d]
                                 /\ pendingBash'[d] = pendingBash[d]
      BY <2>4, Finishes
    <3> QED
      BY <2>1, <3>1, <3>2 DEF CallStep
  <2> QED
    BY <1>1, <2>2, <2>3, <2>4 DEF BashCall
<1>2. ASSUME NEW yes, UserAnswers(c, yes) PROVE CallStep(c)
  <2>1. UNCHANGED <<lastBashRun, lastBlockedBash, mutationSeq, tree, shown,
                    pendingBashFull>>
    BY <1>2 DEF UserAnswers
  <2>2. CASE UNCHANGED <<run, pendingBash>>
    BY <2>1, <2>2 DEF CallStep
  <2>3. CASE run[c].at = "confirming"
    <3>1. run[c].cmd \in Cmds /\ pendingBashFull[c] = run[c].cmd
      BY <2>3 DEF Types, Shaped, Keyed
    <3>2. CASE Finish(c, run[c].cmd)
      <4>1. Admits(c)
        <5> DEFINE m == run[c].cmd
        <5>1. CASE run'[c] = [at |-> "blocked", cmd |-> m, family |-> "Re-run"]
                     /\ Reruns(m)
          BY <2>1, <3>1, <5>1 DEF Admits
        <5>2. CASE run'[c] = [at |-> "running", cmd |-> m, seq |-> mutationSeq]
                     /\ pendingBash'[c] = BaseOf[m]
          BY <5>2 DEF Admits
        <5> QED
          BY <3>1, <3>2, <5>1, <5>2, Finishes
      <4>2. \A d \in Calls \ {c} : /\ run'[d] = run[d]
                                   /\ pendingBash'[d] = pendingBash[d]
        BY <3>1, <3>2, Finishes
      <4> QED
        BY <2>1, <2>3, <4>1, <4>2 DEF CallStep
    <3>3. CASE Blocked(c, run[c].cmd, "Destructive")
      <4>1. /\ run'[c] = [at |-> "blocked", cmd |-> run[c].cmd,
                          family |-> "Destructive"]
            /\ \A d \in Calls \ {c} : run'[d] = run[d]
            /\ pendingBash' = pendingBash
        BY <3>3 DEF Blocked, Types
      <4>2. Admits(c)
        BY <2>1, <3>1, <4>1 DEF Admits
      <4> QED
        BY <2>1, <2>3, <4>1, <4>2 DEF CallStep
    <3> QED
      BY <1>2, <2>2, <3>2, <3>3 DEF UserAnswers
  <2> QED
    BY <1>2, <2>2, <2>3 DEF UserAnswers
<1>3. ASSUME ConfirmTimeout(c) PROVE CallStep(c)
  <2>1. /\ run[c].at = "confirming" /\ run[c].cmd \in Cmds
        /\ pendingBashFull'[c] = run[c].cmd
    BY <1>3 DEF ConfirmTimeout, Types, Shaped, Keyed
  <2>2. /\ run'[c] = [at |-> "blocked", cmd |-> run[c].cmd,
                      family |-> "Destructive"]
        /\ \A d \in Calls \ {c} : run'[d] = run[d]
    BY <1>3 DEF ConfirmTimeout, Blocked, Types
  <2>3. Admits(c)
    BY <2>1, <2>2 DEF Admits
  <2> QED
    BY <1>3, <2>1, <2>2, <2>3 DEF CallStep, ConfirmTimeout, Blocked
<1>4. ASSUME EditCall(c) PROVE CallStep(c)
  <2>1. /\ run'[c] = [at |-> "running", cmd |-> Edit, seq |-> mutationSeq]
        /\ \A d \in Calls \ {c} : run'[d] = run[d]
        /\ run[c].at = "idle"
    BY <1>4 DEF EditCall, Types, Idle
  <2>2. Admits(c)
    BY <2>1 DEF Admits
  <2> QED
    BY <1>4, <2>1, <2>2 DEF CallStep, EditCall
<1> QED
  BY <1>1, <1>2, <1>3, <1>4

\* A result takes its call off.
ResultStep(c) ==
  /\ run' = [run EXCEPT ![c] = Idle]
  /\ \A d \in Calls \ {c} : /\ run'[d] = run[d]
                            /\ pendingBash'[d] = pendingBash[d]
                            /\ pendingBashFull'[d] = pendingBashFull[d]
  /\ run'[c].at = "idle"
  /\ UNCHANGED tree

LEMMA ResultSteps ==
  ASSUME Types, NEW c \in Calls, BashResult(c) \/ BlockedResult(c) \/ EditResult(c)
  PROVE  ResultStep(c)
BY DEF BashResult, BlockedResult, EditResult, ResultStep, Types, Idle

\* Where no call moves.
Still == \/ SessionCompact
         \/ \E b \in Bases : RunWindowElapses(b)
         \/ \E approves \in BOOLEAN : Prompt(approves)
         \/ BlockWindowElapses \/ ApprovalWindowElapses
         \/ UNCHANGED vars

LEMMA Stills ==
  ASSUME Types, Still
  PROVE  /\ UNCHANGED <<run, mutationSeq, tree, shown>>
         /\ UNCHANGED <<pendingBash, pendingBashFull>> \/ AllIdle
         /\ lastBlockedBash' \in {lastBlockedBash, None}
         /\ \A b \in Bases : lastBashRun'[b] \in {lastBashRun[b], None}
<1>1. ASSUME NEW b \in Bases, RunWindowElapses(b)
      PROVE  \A a \in Bases : lastBashRun'[a] \in {lastBashRun[a], None}
  BY <1>1 DEF RunWindowElapses, Types
<1> QED
  BY <1>1 DEF Still, SessionCompact, RunWindowElapses, Prompt, BlockWindowElapses,
              ApprovalWindowElapses, vars

\* The kinds of steps.
LEMMA Kinds ==
  ASSUME Types, Keyed, [Next]_vars
  PROVE  \/ \E c \in Calls : CallStep(c)
         \/ \E c \in Calls, failed \in BOOLEAN : Exec(c, failed)
         \/ \E c \in Calls : BashResult(c) \/ BlockedResult(c) \/ EditResult(c)
         \/ Still
BY CallSteps DEF Next, Still

\* How a run changes the calls.
LEMMA ExecStep ==
  ASSUME Types, NEW c \in Calls, NEW failed \in BOOLEAN, Exec(c, failed)
  PROVE  /\ run[c].at = "running" /\ run'[c].at = "ran"
         /\ run'[c].cmd = run[c].cmd /\ run'[c].seq = run[c].seq
         /\ run'[c].failed = failed
         /\ run'[c].current <=> failed \/ ~Mutates(run[c].cmd)
         /\ \A d \in Calls \ {c} :
              IF ~failed /\ Mutates(run[c].cmd) /\ run[d].at = "ran"
              THEN /\ run'[d].at = "ran" /\ run'[d].cmd = run[d].cmd
                   /\ run'[d].seq = run[d].seq /\ run'[d].failed = run[d].failed
                   /\ ~run'[d].current
              ELSE run'[d] = run[d]
<1>1. \A d \in Calls : run[d].at = "ran" =>
        LET r == [run[d] EXCEPT !.current = FALSE]
        IN  /\ r.at = "ran" /\ r.cmd = run[d].cmd /\ r.seq = run[d].seq
            /\ r.failed = run[d].failed /\ ~r.current
  BY DEF Types, Shaped
<1> QED
  BY <1>1 DEF Exec

-----------------------------------------------------------------------------
(* The parts of the invariant, one by one.                                 *)

LEMMA KeyedStep == Types /\ Keyed /\ [Next]_vars => Keyed'
<1> SUFFICES ASSUME Types, Keyed, [Next]_vars PROVE Keyed'
  OBVIOUS
<1>1. ASSUME NEW c \in Calls, CallStep(c) PROVE Keyed'
  BY <1>1, BashAssumption DEF CallStep, Admits, Keyed
<1>2. ASSUME NEW c \in Calls, NEW failed \in BOOLEAN, Exec(c, failed)
      PROVE  Keyed'
  <2>1. UNCHANGED <<pendingBash, pendingBashFull>>
    BY <1>2 DEF Exec
  <2> QED
    BY <1>2, <2>1, ExecStep DEF Keyed
<1>3. ASSUME NEW c \in Calls, BashResult(c) \/ BlockedResult(c) \/ EditResult(c)
      PROVE  Keyed'
  BY <1>3, ResultSteps DEF ResultStep, Keyed
<1>4. CASE Still
  BY <1>4, Stills DEF Keyed, AllIdle, Idle
<1> QED
  BY <1>1, <1>2, <1>3, <1>4, Kinds

LEMMA CountedStep == Types /\ Keyed /\ Counted /\ [Next]_vars => Counted'
<1> SUFFICES ASSUME Types, Keyed, Counted, [Next]_vars PROVE Counted'
  OBVIOUS
<1>0. Cardinality(Uncounted) \in Nat /\ mutationSeq \in Nat
  BY FS_CardinalityType DEF Counted, Types
<1>1. ASSUME NEW c \in Calls, CallStep(c) PROVE Counted'
  <2>1. Uncounted' = Uncounted
    BY <1>1 DEF CallStep, Admits, Uncounted, Mutates
  <2> QED
    BY <1>1, <2>1 DEF CallStep, Counted
<1>2. ASSUME NEW c \in Calls, NEW failed \in BOOLEAN, Exec(c, failed)
      PROVE  Counted'
  <2>1. c \notin Uncounted
    BY <1>2, ExecStep DEF Uncounted
  <2>2. CASE ~failed /\ Mutates(run[c].cmd)
    <3>1. Uncounted' = Uncounted \cup {c}
      BY <1>2, <2>2, ExecStep DEF Uncounted, Mutates
    <3>2. tree' = tree + 1 /\ mutationSeq' = mutationSeq
      BY <1>2, <2>2 DEF Exec
    <3>3. /\ IsFiniteSet(Uncounted \cup {c})
          /\ Cardinality(Uncounted \cup {c}) = Cardinality(Uncounted) + 1
      BY <2>1, FS_AddElement DEF Counted
    <3> QED
      BY <1>0, <3>1, <3>2, <3>3 DEF Counted
  <2>3. CASE ~(~failed /\ Mutates(run[c].cmd))
    <3>1. Uncounted' = Uncounted
      BY <1>2, <2>3, ExecStep DEF Uncounted, Mutates
    <3>2. tree' = tree /\ mutationSeq' = mutationSeq
      BY <1>2, <2>3 DEF Exec
    <3> QED
      BY <3>1, <3>2 DEF Counted
  <2> QED
    BY <2>2, <2>3
<1>3. ASSUME NEW c \in Calls, BashResult(c) \/ BlockedResult(c) \/ EditResult(c)
      PROVE  Counted'
  <2>1. Uncounted' = Uncounted \ {c}
    BY <1>3, ResultSteps DEF ResultStep, Uncounted, Mutates
  <2>2. /\ tree' = tree
        /\ mutationSeq' = IF c \in Uncounted THEN mutationSeq + 1 ELSE mutationSeq
    <3>1. CASE BashResult(c)
      <4>1. pendingBash[c] # None
        BY <3>1, BashAssumption DEF BashResult, Keyed, Types, Shaped, Bases
      <4> QED
        BY <3>1, <4>1 DEF BashResult, Uncounted
    <3>2. CASE BlockedResult(c)
      BY <3>2 DEF BlockedResult, Uncounted
    <3>3. CASE EditResult(c)
      BY <3>3 DEF EditResult, Uncounted, Mutates
    <3> QED
      BY <1>3, <3>1, <3>2, <3>3
  <2>3. /\ IsFiniteSet(Uncounted \ {c})
        /\ Cardinality(Uncounted \ {c})
             = IF c \in Uncounted THEN Cardinality(Uncounted) - 1
                                  ELSE Cardinality(Uncounted)
    BY FS_RemoveElement DEF Counted
  <2> QED
    BY <1>0, <2>1, <2>2, <2>3 DEF Counted
<1>4. CASE Still
  <2>1. Uncounted' = Uncounted
    BY <1>4, Stills DEF Uncounted, Mutates
  <2> QED
    BY <1>4, <2>1, Stills DEF Counted
<1> QED
  BY <1>1, <1>2, <1>3, <1>4, Kinds

\* What a completed command leaves on record, and how the count goes on.
LEMMA Records ==
  ASSUME Types, Keyed, NEW c \in Calls, BashResult(c)
  PROVE  LET b == BaseOf[run[c].cmd]
         IN  /\ run[c].cmd \in Cmds /\ b \in Bases
             /\ \A a \in Bases \ {b} : lastBashRun'[a] = lastBashRun[a]
             /\ lastBashRun'[b].mut = mutationSeq
             /\ lastBashRun'[b].failed = run[c].failed
             /\ lastBashRun'[b].raced = (run[c].seq # mutationSeq)
             /\ mutationSeq' = IF c \in Uncounted THEN mutationSeq + 1
                                                  ELSE mutationSeq
             /\ shown' = IF run[c].current THEN shown \cup {b} ELSE shown \ {b}
             /\ lastBlockedBash' = lastBlockedBash
<1> DEFINE b == BaseOf[run[c].cmd]
<1>1. run[c].cmd \in Cmds /\ b \in Bases
  BY DEF BashResult, Types, Shaped, Bases
<1>2. pendingBash[c] = b /\ b # None
  BY <1>1, BashAssumption DEF BashResult, Keyed
<1>3. /\ lastBashRun' = [lastBashRun EXCEPT ![b] =
             [mut |-> mutationSeq, failed |-> run[c].failed,
              raced |-> run[c].seq # mutationSeq]]
      /\ mutationSeq' = IF c \in Uncounted THEN mutationSeq + 1 ELSE mutationSeq
      /\ shown' = IF run[c].current THEN shown \cup {b} ELSE shown \ {b}
      /\ lastBlockedBash' = lastBlockedBash
  BY <1>2 DEF BashResult, Uncounted
<1> QED
  BY <1>1, <1>3 DEF Types

\* The count of the other results.
LEMMA Counts ==
  ASSUME Types, NEW c \in Calls, BlockedResult(c) \/ EditResult(c)
  PROVE  /\ mutationSeq' = IF c \in Uncounted THEN mutationSeq + 1
                                              ELSE mutationSeq
         /\ UNCHANGED <<lastBashRun, shown>>
         /\ \/ lastBlockedBash' = lastBlockedBash
            \/ /\ run[c].at = "blocked" /\ run[c].family # "Destructive"
               /\ lastBlockedBash' = [cmd |-> pendingBashFull[c],
                                      mut |-> mutationSeq]
BY DEF BlockedResult, EditResult, Uncounted, Mutates

LEMMA EarlierStep == Types /\ Keyed /\ Earlier /\ [Next]_vars => Earlier'
<1> SUFFICES ASSUME Types, Keyed, Earlier, [Next]_vars PROVE Earlier'
  OBVIOUS
<1>0. /\ mutationSeq \in Nat
      /\ \A c \in Calls : run[c].at \in {"running", "ran"} => run[c].seq \in Nat
      /\ \A b \in Bases : lastBashRun[b] # None => lastBashRun[b].mut \in Nat
      /\ lastBlockedBash # None => lastBlockedBash.mut \in Nat
  BY DEF Types, Shaped
<1>1. ASSUME NEW c \in Calls, CallStep(c) PROVE Earlier'
  BY <1>0, <1>1 DEF CallStep, Admits, Earlier
<1>2. ASSUME NEW c \in Calls, NEW failed \in BOOLEAN, Exec(c, failed)
      PROVE  Earlier'
  <2>1. UNCHANGED <<lastBashRun, lastBlockedBash, mutationSeq>>
    BY <1>2 DEF Exec
  <2> QED
    BY <1>2, <2>1, ExecStep DEF Earlier
<1>3. ASSUME NEW c \in Calls, BashResult(c) PROVE Earlier'
  BY <1>0, <1>3, Records, ResultSteps DEF ResultStep, Earlier
<1>4. ASSUME NEW c \in Calls, BlockedResult(c) \/ EditResult(c) PROVE Earlier'
  BY <1>0, <1>4, Counts, ResultSteps DEF ResultStep, Earlier
<1>5. CASE Still
  BY <1>5, Stills DEF Earlier
<1> QED
  BY <1>1, <1>2, <1>3, <1>4, <1>5, Kinds

LEMMA FreshStep ==
  Types /\ Keyed /\ Earlier /\ Fresh /\ [Next]_vars => Fresh'
<1> SUFFICES ASSUME Types, Keyed, Earlier, Fresh, [Next]_vars PROVE Fresh'
  OBVIOUS
<1>0. /\ mutationSeq \in Nat
      /\ \A c \in Calls : run[c].at \in {"running", "ran"} => run[c].seq \in Nat
      /\ \A b \in Bases : lastBashRun[b] # None => lastBashRun[b].mut \in Nat
  BY DEF Types, Shaped
<1>1. ASSUME NEW c \in Calls, CallStep(c) PROVE Fresh'
  <2>1. Uncounted' = Uncounted
    BY <1>1 DEF CallStep, Admits, Uncounted, Mutates
  <2> QED
    BY <1>1, <2>1 DEF CallStep, Admits, Fresh
<1>2. ASSUME NEW c \in Calls, NEW failed \in BOOLEAN, Exec(c, failed)
      PROVE  Fresh'
  <2>1. UNCHANGED <<lastBashRun, mutationSeq>>
    BY <1>2 DEF Exec
  <2>2. CASE ~failed /\ Mutates(run[c].cmd)
    <3>1. c \in Uncounted'
      BY <1>2, <2>2, ExecStep DEF Uncounted, Mutates
    <3> QED
      BY <3>1 DEF Fresh
  <2>3. CASE ~(~failed /\ Mutates(run[c].cmd))
    <3>1. Uncounted' = Uncounted
      BY <1>2, <2>3, ExecStep DEF Uncounted, Mutates
    <3>2. shown' = shown /\ run'[c].current
      BY <1>2, <2>3, ExecStep DEF Exec
    <3> QED
      BY <1>2, <2>1, <2>3, <3>1, <3>2, ExecStep DEF Fresh
  <2> QED
    BY <2>2, <2>3
\* A result that counts a mutation leaves no record of the present count.
<1>3. ASSUME NEW c \in Calls, BashResult(c) \/ BlockedResult(c) \/ EditResult(c)
      PROVE  /\ Uncounted' = Uncounted \ {c}
             /\ \A d \in Calls : run'[d].at = "ran" => d # c /\ run'[d] = run[d]
  BY <1>3, ResultSteps DEF ResultStep, Uncounted, Mutates
<1>4. ASSUME NEW c \in Calls, BashResult(c) PROVE Fresh'
  <2> DEFINE b == BaseOf[run[c].cmd]
  <2>1. run[c].at = "ran" /\ run[c].current \in BOOLEAN
    BY <1>4 DEF BashResult, Types, Shaped
  <2>2. CASE c \in Uncounted
    <3>1. mutationSeq' = mutationSeq + 1
      BY <1>4, <2>2, Records
    <3>2. \A a \in Bases : lastBashRun'[a] # None =>
            lastBashRun'[a].mut <= mutationSeq /\ lastBashRun'[a].mut \in Nat
      BY <1>0, <1>4, Records DEF Earlier
    <3>3. \A d \in Calls : run'[d].at = "ran" =>
            run'[d].seq <= mutationSeq /\ run'[d].seq \in Nat
      BY <1>0, <1>3, <1>4 DEF Earlier
    <3> QED
      BY <1>0, <3>1, <3>2, <3>3 DEF Fresh
  <2>3. CASE c \notin Uncounted
    <3>1. mutationSeq' = mutationSeq /\ Uncounted' = Uncounted
      BY <1>3, <1>4, <2>3, Records
    <3>2. ~run[c].current /\ run[c].seq = mutationSeq => Uncounted # {}
      BY <2>1 DEF Fresh
    <3>3. /\ \A a \in Bases \ {b} :
                lastBashRun'[a] = lastBashRun[a] /\ (a \in shown => a \in shown')
          /\ lastBashRun'[b].raced = (run[c].seq # mutationSeq)
          /\ run[c].current => b \in shown'
      BY <1>4, Records
    <3>4. \A a \in Bases :
            /\ lastBashRun'[a] # None /\ ~lastBashRun'[a].failed
            /\ ~lastBashRun'[a].raced /\ lastBashRun'[a].mut = mutationSeq
            => a \in shown' \/ Uncounted # {}
      BY <3>2, <3>3 DEF Fresh
    <3>5. \A d \in Calls :
            run'[d].at = "ran" /\ ~run'[d].current /\ run'[d].seq = mutationSeq
            => Uncounted # {}
      BY <1>3, <1>4 DEF Fresh
    <3> QED
      BY <3>1, <3>4, <3>5 DEF Fresh
  <2> QED
    BY <2>2, <2>3
<1>5. ASSUME NEW c \in Calls, BlockedResult(c) \/ EditResult(c) PROVE Fresh'
  <2>1. UNCHANGED <<lastBashRun, shown>>
    BY <1>5, Counts
  <2>2. CASE c \in Uncounted
    <3>1. mutationSeq' = mutationSeq + 1
      BY <1>5, <2>2, Counts
    <3>2. \A d \in Calls : run'[d].at = "ran" =>
            run'[d].seq <= mutationSeq /\ run'[d].seq \in Nat
      BY <1>0, <1>3, <1>5 DEF Earlier
    <3> QED
      BY <1>0, <2>1, <3>1, <3>2 DEF Fresh, Earlier
  <2>3. CASE c \notin Uncounted
    <3>1. mutationSeq' = mutationSeq /\ Uncounted' = Uncounted
      BY <1>3, <1>5, <2>3, Counts
    <3> QED
      BY <1>3, <1>5, <2>1, <3>1 DEF Fresh
  <2> QED
    BY <2>2, <2>3
<1>6. CASE Still
  <2>1. Uncounted' = Uncounted
    BY <1>6, Stills DEF Uncounted, Mutates
  <2> QED
    BY <1>6, <2>1, Stills DEF Fresh
<1> QED
  BY <1>1, <1>2, <1>4, <1>5, <1>6, Kinds

\* A command exempted from both rules passes both.
LEMMA Unblocked ==
  ASSUME Types, Exempt, NEW m, Approvable(m)
  PROVE  ~Reblocks(m) /\ ~Reruns(m)
<1>1. ~Reblocks(m)
  BY DEF Reblocks, Exempt
<1>2. ~Reruns(m)
  <2>1. BaseOf[m] \in Bases
    BY BashAssumption DEF Approvable, Bases
  <2>2. lastBashRun[BaseOf[m]] # None => lastBashRun[BaseOf[m]].mut \in Nat
    BY <2>1 DEF Types
  <2> QED
    BY <2>2 DEF Approvable, Reruns, Exempt, Types
<1> QED
  BY <1>1, <1>2

LEMMA ExemptStep ==
  Types /\ Keyed /\ Earlier /\ Exempt /\ [Next]_vars => Exempt'
<1> SUFFICES ASSUME Types, Keyed, Earlier, Exempt, [Next]_vars PROVE Exempt'
  OBVIOUS
<1>0. /\ mutationSeq \in Nat
      /\ \A b \in Bases : lastBashRun[b] # None => lastBashRun[b].mut \in Nat
      /\ \A m \in Destructive : BaseOf[m] \in Bases
  BY BashAssumption DEF Types, Bases
<1>1. ASSUME NEW c \in Calls, CallStep(c) PROVE Exempt'
  <2>1. run'[c].at = "blocked" /\ run'[c].family # "Destructive" /\ Admits(c)
          => ~Approvable(run'[c].cmd)
    BY Unblocked DEF Admits, Approvable
  <2> QED
    BY <1>1, <2>1 DEF CallStep, Exempt, Approvable, OwnKey
<1>2. ASSUME NEW c \in Calls, NEW failed \in BOOLEAN, Exec(c, failed)
      PROVE  Exempt'
  <2>1. UNCHANGED <<lastBashRun, lastBlockedBash, mutationSeq>>
    BY <1>2 DEF Exec
  <2>2. \A d \in Calls : run'[d].at = "blocked" => run'[d] = run[d]
    BY <1>2, ExecStep
  <2> QED
    BY <2>1, <2>2 DEF Exempt, Approvable, OwnKey
<1>3. ASSUME NEW c \in Calls, BashResult(c) \/ BlockedResult(c) \/ EditResult(c)
      PROVE  \A d \in Calls : run'[d].at = "blocked" => run'[d] = run[d]
  BY <1>3, ResultSteps DEF ResultStep
<1>4. ASSUME NEW c \in Calls, BashResult(c) PROVE Exempt'
  <2> DEFINE b == BaseOf[run[c].cmd]
  <2>1. lastBlockedBash' = lastBlockedBash
    BY <1>4, Records
  <2>2. ASSUME NEW m \in Destructive, OwnKey(m), lastBashRun'[BaseOf[m]] # None,
               ~lastBashRun'[BaseOf[m]].failed
        PROVE  lastBashRun'[BaseOf[m]].mut < mutationSeq'
    <3>1. CASE BaseOf[m] = b
      <4>1. run[c].cmd \in Mutating
        BY <1>4, <2>2, <3>1, Records DEF OwnKey
      <4>2. c \in Uncounted
        BY <1>4, <2>2, <3>1, <4>1, Records DEF Uncounted, Mutates, BashResult
      <4> QED
        BY <1>0, <1>4, <3>1, <4>2, Records
    <3>2. CASE BaseOf[m] # b
      <4>1. lastBashRun'[BaseOf[m]] = lastBashRun[BaseOf[m]]
        BY <1>0, <1>4, <3>2, Records
      <4>2. mutationSeq' = mutationSeq \/ mutationSeq' = mutationSeq + 1
        BY <1>4, Records
      <4> QED
        BY <1>0, <2>2, <4>1, <4>2 DEF Exempt
    <3> QED
      BY <3>1, <3>2
  <2> QED
    BY <1>3, <1>4, <2>1, <2>2 DEF Exempt, Approvable, OwnKey
<1>5. ASSUME NEW c \in Calls, BlockedResult(c) \/ EditResult(c) PROVE Exempt'
  <2>1. lastBlockedBash' # None => ~Approvable(lastBlockedBash'.cmd)
    BY <1>5, Counts DEF Exempt, Keyed
  <2>2. /\ lastBashRun' = lastBashRun
        /\ mutationSeq' = mutationSeq \/ mutationSeq' = mutationSeq + 1
    BY <1>5, Counts
  <2> QED
    BY <1>0, <1>3, <1>5, <2>1, <2>2 DEF Exempt, Approvable, OwnKey
<1>6. CASE Still
  BY <1>0, <1>6, Stills DEF Exempt, Approvable, OwnKey
<1> QED
  BY <1>1, <1>2, <1>4, <1>5, <1>6, Kinds

-----------------------------------------------------------------------------
(* The properties.                                                         *)

\* Nothing has been called.
LEMMA InitInv == Init => Inv
<1> SUFFICES ASSUME Init PROVE Inv
  OBVIOUS
<1>1. Types
  <2>1. Shaped(Idle) /\ \A c \in Calls : run[c] = Idle
    BY DEF Init, Shaped, Idle
  <2>2. \A b \in Bases : lastBashRun[b] = None
    BY DEF Init
  <2>3. /\ run = [c \in Calls |-> run[c]] /\ \A c \in Calls : Shaped(run[c])
        /\ lastBashRun = [b \in Bases |-> lastBashRun[b]]
        /\ pendingBash \in [Calls -> Bases \cup {None}]
        /\ pendingBashFull \in [Calls -> Cmds \cup {None}]
    BY <2>1 DEF Init
  <2>4. mutationSeq \in Nat /\ tree \in 0..MaxSeq
    BY BashAssumption DEF Init
  <2> QED
    BY <2>2, <2>3, <2>4 DEF Init, Types
<1>2. Uncounted = {}
  BY DEF Init, Uncounted, Idle
<1>3. Counted
  BY <1>2, FS_EmptySet DEF Init, Counted
<1>4. Keyed /\ Earlier /\ Fresh
  BY DEF Init, Keyed, Earlier, Fresh, Idle
<1>5. Exempt
  BY BashAssumption DEF Init, Exempt, Idle, Bases
<1> QED
  BY <1>1, <1>3, <1>4, <1>5 DEF Inv

\* The parts together are inductive.
THEOREM Inductive == Spec => []Inv
<1>1. Inv /\ [Next]_vars => Inv'
  BY TypesStep, KeyedStep, CountedStep, EarlierStep, FreshStep, ExemptStep DEF Inv
<1> QED
  BY <1>1, InitInv, PTL DEF Spec

\* The gate's maps hold what they should, and it never counts a mutation that
\* did not take effect (tool_result's mutationSeq).
THEOREM TypeCorrect == Spec => []TypeOK
<1>1. Inv => TypeOK
  <2> SUFFICES ASSUME Inv PROVE TypeOK
    OBVIOUS
  <2>1. Types /\ Earlier /\ Counted
    BY DEF Inv
  <2>2. Cardinality(Uncounted) \in Nat
    BY <2>1, FS_CardinalityType DEF Counted
  <2>3. mutationSeq \in 0..tree /\ tree \in 0..MaxSeq
    BY <2>1, <2>2, BashAssumption DEF Types, Counted
  <2>4. \A n \in Nat : n <= mutationSeq => n \in 0..MaxSeq
    BY <2>3, BashAssumption
  <2>5. \A b \in Bases : lastBashRun[b] # None =>
          lastBashRun[b] \in [mut : 0..MaxSeq, failed : BOOLEAN, raced : BOOLEAN]
    BY <2>1, <2>4 DEF Types, Earlier
  <2>6. lastBlockedBash # None => lastBlockedBash \in [cmd : Cmds, mut : 0..MaxSeq]
    BY <2>1, <2>4 DEF Types, Earlier
  <2> QED
    BY <2>1, <2>3, <2>5, <2>6 DEF Types, TypeOK
<1> QED
  BY <1>1, Inductive, PTL

\* What R10 blocks would show what is in context.
THEOREM RerunsJustified == Spec => []RerunBlockJustified
<1>1. Inv => RerunBlockJustified
  <2>1. InFlightMutation <=> Uncounted # {}
    BY DEF InFlightMutation, Uncounted
  <2>2. \A m \in Cmds : BaseOf[m] \in Bases
    BY DEF Bases
  <2> QED
    BY <2>1, <2>2 DEF Inv, Fresh, Reruns, RerunBlockJustified
<1> QED
  BY <1>1, Inductive, PTL

\* The user's approval is not undone by Re-block or R10.
THEOREM ApprovalHolds == Spec => []ApprovalUnblocks
<1>1. Inv => ApprovalUnblocks
  BY Unblocked DEF Inv, ApprovalUnblocks, Approvable
<1> QED
  BY <1>1, Inductive, PTL

\* No destructive command starts without an approval still in force.
THEOREM NeverUnapproved == Spec => UnapprovedNeverRuns
<1> DEFINE Starts(c) == /\ run[c].at # "running" /\ run'[c].at = "running"
                        /\ run'[c].cmd \in Destructive
           Allowed(c) == promptApproves \/ run'[c].cmd \in granted'
<1>1. Types /\ Keyed /\ [Next]_vars => \A c \in Calls : Starts(c) => Allowed(c)
  <2> SUFFICES ASSUME Types, Keyed, [Next]_vars, NEW c \in Calls, Starts(c)
               PROVE  Allowed(c)
    OBVIOUS
  <2>1. ASSUME NEW d \in Calls, NEW m, NEW f, Blocked(d, m, f) PROVE FALSE
    BY <2>1 DEF Blocked, Types
  <2>2. ASSUME NEW d \in Calls, NEW m \in Cmds, Finish(d, m)
        PROVE  d = c /\ run'[c].cmd = m
    <3>1. /\ \A e \in Calls : e # d => run'[e] = run[e]
          /\ \/ run'[d] = [at |-> "blocked", cmd |-> m, family |-> "Re-run"]
             \/ run'[d] = [at |-> "running", cmd |-> m, seq |-> mutationSeq]
      BY <2>2, Finishes
    <3> QED
      BY <3>1
  <2>3. ASSUME NEW d \in Calls, NEW m \in Cmds, BashCall(d, m) PROVE Allowed(c)
    <3>1. ~(run' = [run EXCEPT ![d] = [at |-> "confirming", cmd |-> m]])
      BY DEF Types
    <3>2. Finish(d, m) /\ (m \in Destructive => Approved(m))
      BY <2>1, <2>3, <3>1 DEF BashCall
    <3>3. run'[c].cmd = m /\ m # None /\ granted' = granted
      BY <2>2, <2>3, <3>2, BashAssumption DEF BashCall
    <3> QED
      BY <3>2, <3>3 DEF Approved, Types
  <2>4. ASSUME NEW d \in Calls, NEW yes, UserAnswers(d, yes) PROVE Allowed(c)
    <3>1. run[d].at = "confirming" => run[d].cmd \in Cmds
      BY DEF Types, Shaped
    <3>2. /\ run[d].at = "confirming" /\ Finish(d, run[d].cmd)
          /\ granted' = granted \cup {run[d].cmd}
      BY <2>1, <2>4 DEF UserAnswers
    <3> QED
      BY <2>2, <3>1, <3>2
  <2>5. ASSUME NEW d \in Calls, ConfirmTimeout(d) PROVE FALSE
    BY <2>1, <2>5 DEF ConfirmTimeout
  <2>6. ASSUME NEW d \in Calls, EditCall(d) PROVE FALSE
    BY <2>6, BashAssumption DEF EditCall, Types
  <2>7. ASSUME NEW d \in Calls, NEW failed \in BOOLEAN, Exec(d, failed)
        PROVE  FALSE
    BY <2>7, ExecStep
  <2>8. ASSUME NEW d \in Calls, BashResult(d) \/ BlockedResult(d) \/ EditResult(d)
        PROVE  FALSE
    BY <2>8, ResultSteps DEF ResultStep
  <2>9. CASE Still
    BY <2>9, Stills
  <2> QED
    BY <2>3, <2>4, <2>5, <2>6, <2>7, <2>8, <2>9 DEF Next, Still
<1>2. Inv => Types /\ Keyed
  BY DEF Inv
<1>3. Inv /\ [Next]_vars
        => [\A c \in Calls :
              (run[c].at # "running" /\ run'[c].at = "running"
                 /\ run'[c].cmd \in Destructive)
                 => promptApproves \/ run'[c].cmd \in granted']_vars
  BY <1>1, <1>2
<1> QED
  BY <1>3, Inductive, PTL DEF Spec, UnapprovedNeverRuns
=============================================================================
