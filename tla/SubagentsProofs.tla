-------------------------- MODULE SubagentsProofs --------------------------
(* Proofs about Subagents, for any number of launches, agents and names.    *)
EXTENDS Subagents, TLAPS

\* What is known of a launch once it has begun, and that its process comes
\* with its registration.
Begun ==
  \A l \in Launches :
    /\ st[l] # "idle" => /\ name[l] \in Names /\ file[l] \in Files
                         /\ op[l] \in {"default", "explicit", "resume"}
    /\ st[l] \in {"idle", "launching"} => child[l] = "none"
    /\ st[l] = "idle" => op[l] = None
    /\ l \in unnamed => child[l] # "none"

\* A name chosen by default is this launch's from its choice on, unless the
\* launch failed and gave it back or the registry could not be written.
Keeps(l) == /\ op[l] = "default" /\ l \notin unnamed
            /\ st[l] = "launching" \/ child[l] # "none"

NamesKept ==
  /\ \A l, m \in Launches : l # m /\ Keeps(l) /\ Keeps(m) => name[l] # name[m]
  /\ \A l \in Launches : op[l] = "default" /\ st[l] = "launching"
                           => name[l] \in reserved
  /\ \A l \in Launches : op[l] = "default" /\ child[l] # "none" /\ l \notin unnamed
                           => registry[name[l]] # None

\* Whoever still watches is in the map, or its own signal fired, and has killed
\* nothing; and no other signal fires alone.
Signalled ==
  /\ \A l \in Launches : st[l] = "watched" => /\ l \in running \cup ownAborted
                                              /\ child[l] \notin {"none", "killed", "cut"}
  /\ modAborted \subseteq ownAborted
  /\ \A l \in Launches : outcome[l] # None => st[l] = "ended"

\* A sidecar, and what a watcher that saw an exit reports, come from a child of
\* the same session that had finished its work; and whoever reports has closed
\* the pane.
Finished == {"closing", "exited", "cut"}

Reported ==
  /\ \A f \in exitFile : \E m \in Launches : file[m] = f /\ child[m] \in Finished
  /\ \A l \in Launches : outcome[l] \in {"result", "error"} =>
       /\ child[l] \notin {"none", "alive", "closing"}
       /\ \E m \in Launches : file[m] = file[l] /\ child[m] \in Finished

Inv == TypeOK /\ Begun /\ NamesKept /\ DefaultNameResolves
         /\ Signalled /\ ShutdownDetaches /\ Reported

\* No launch has begun.
LEMMA InitInv == Init => Inv
<1> SUFFICES ASSUME Init PROVE Inv
  OBVIOUS
<1>1. TypeOK
  BY DEF Init, TypeOK
<1>2. Begun /\ NamesKept /\ DefaultNameResolves
  BY SubagentsAssumption
     DEF Init, Begun, NamesKept, Keeps, DefaultNameResolves
<1>3. Signalled /\ ShutdownDetaches /\ Reported
  BY SubagentsAssumption DEF Init, Signalled, ShutdownDetaches, Reported
<1> QED
  BY <1>1, <1>2, <1>3 DEF Inv

\* A launch begins, with a name and a session file.
LEMMA BeginInv ==
  ASSUME Inv, NEW l \in Launches, NEW how \in {"default", "explicit", "resume"},
         NEW nm \in Names, NEW f \in Files, Begin(l, how, nm, f),
         \/ how # "default" /\ UNCHANGED reserved
         \/ /\ how = "default" /\ nm \notin Taken
            /\ reserved' = reserved \cup {nm}
  PROVE  Inv'
<1>1. /\ st[l] = "idle" /\ st' = [st EXCEPT ![l] = "launching"]
      /\ op' = [op EXCEPT ![l] = how] /\ name' = [name EXCEPT ![l] = nm]
      /\ file' = [file EXCEPT ![l] = f]
      /\ UNCHANGED <<up, running, registry, ownAborted, modAborted, child,
                     panes, exitFile, outcome, loadouts, unnamed>>
  BY DEF Begin, IsNext, watching, children
<1>2. /\ st'[l] = "launching" /\ op'[l] = how /\ name'[l] = nm /\ file'[l] = f
      /\ \A m \in Launches : m # l => /\ st'[m] = st[m] /\ op'[m] = op[m]
                                      /\ name'[m] = name[m] /\ file'[m] = file[m]
  BY <1>1 DEF Inv, TypeOK
<1>3. child[l] = "none" /\ l \notin running /\ l \notin unnamed
  BY <1>1 DEF Inv, TypeOK, Begun
<1>4. TypeOK'
  BY <1>1, <1>3 DEF Inv, TypeOK
<1>5. Begun'
  BY <1>1, <1>2, <1>3 DEF Inv, Begun
<1>6. NamesKept'
  <2>1. \A m \in Launches : m # l => (Keeps(m)' <=> Keeps(m))
    BY <1>1, <1>2 DEF Keeps
  <2>2. \A m \in Launches : Keeps(m) => name[m] \in Taken
    BY DEF Keeps, Inv, NamesKept, Taken, Begun
  <2>3. Keeps(l)' => how = "default"
    BY <1>2 DEF Keeps
  <2> QED
    BY <1>1, <1>2, <1>3, <2>1, <2>2, <2>3 DEF Inv, NamesKept
<1>7. DefaultNameResolves'
  <2>1. ASSUME NEW k \in Launches, op'[k] = "default", child'[k] # "none",
               k \notin unnamed',
               \A m \in Launches : op'[m] = "explicit" => name'[m] # name'[k]
        PROVE  registry'[name'[k]] = file'[k]
    <3>1. k # l
      BY <1>1, <1>3, <2>1
    <3>2. \A m \in Launches : op[m] = "explicit" => m # l
      BY <1>1, SubagentsAssumption DEF Inv, Begun
    <3>3. \A m \in Launches : op[m] = "explicit" => name[m] # name[k]
      BY <1>2, <2>1, <3>1, <3>2
    <3> QED
      BY <1>1, <1>2, <2>1, <3>1, <3>3 DEF Inv, DefaultNameResolves
  <2> QED
    BY <2>1 DEF DefaultNameResolves
<1>8. Signalled' /\ ShutdownDetaches'
  BY <1>1, <1>2 DEF Inv, Signalled, ShutdownDetaches
<1>9. Reported'
  <2>1. ASSUME NEW k \in Launches, outcome[k] \in {"result", "error"} PROVE k # l
    BY <1>1, <2>1, SubagentsAssumption DEF Inv, Signalled
  <2>2. \A k \in Launches : \A g : file[k] = g /\ child[k] \in Finished
                                   => file'[k] = g /\ child'[k] \in Finished
    BY <1>1, <1>2, <1>3 DEF Finished
  <2> QED
    BY <1>1, <1>2, <2>1, <2>2 DEF Inv, Reported
<1> QED
  BY <1>4, <1>5, <1>6, <1>7, <1>8, <1>9 DEF Inv

\* The launch is in the map and watched, its name in the registry unless that
\* could not be written.
LEMMA RegisterInv ==
  ASSUME Inv, NEW l \in Launches, SpawnRegisters(l) \/ ResumeRegisters(l)
  PROVE  Inv'
<1>1. /\ st[l] = "launching" /\ st' = [st EXCEPT ![l] = "watched"]
      /\ child' = [child EXCEPT ![l] = "alive"] /\ running' = running \cup {l}
      /\ panes' = panes \cup {l}
      /\ UNCHANGED <<up, op, name, file, ownAborted, modAborted, exitFile,
                     outcome>>
      /\ loadouts' \in {loadouts, loadouts \cup {file[l]}}
  BY DEF SpawnRegisters, ResumeRegisters, Register, StartsChild, WriteLoadout, names
<1>2. /\ st'[l] = "watched" /\ child'[l] = "alive"
      /\ \A m \in Launches : m # l => st'[m] = st[m] /\ child'[m] = child[m]
  BY <1>1 DEF Inv, TypeOK
<1>3. /\ name[l] \in Names /\ file[l] \in Files /\ file[l] # None
      /\ child[l] = "none" /\ l \notin unnamed
  BY <1>1, SubagentsAssumption DEF Inv, Begun, Files
<1>4. \/ op[l] = "resume" /\ UNCHANGED <<registry, reserved, unnamed>>
      \/ /\ op[l] # "resume"
         /\ reserved' = IF op[l] = "default" THEN reserved \ {name[l]}
                        ELSE reserved
         /\ \/ /\ registry' = [registry EXCEPT ![name[l]] = file[l]]
               /\ UNCHANGED unnamed
            \/ UNCHANGED registry /\ unnamed' = unnamed \cup {l}
  BY DEF SpawnRegisters, ResumeRegisters, RegisterName, Released, names
<1>5. TypeOK'
  BY <1>1, <1>3, <1>4 DEF Inv, TypeOK
<1>6. Begun'
  BY <1>1, <1>2, <1>4 DEF Inv, Begun
<1>7. \A nm \in Names : registry'[nm] # registry[nm]
                         => nm = name[l] /\ registry'[nm] = file[l] /\ op[l] # "resume"
  BY <1>4 DEF Inv, TypeOK
<1>8. op[l] # "resume" /\ l \notin unnamed' => registry'[name[l]] = file[l]
  BY <1>3, <1>4 DEF Inv, TypeOK
<1>9. \A m \in Launches : /\ m \in unnamed => m \in unnamed'
                          /\ m # l /\ m \in unnamed' => m \in unnamed
  BY <1>4
<1>10. NamesKept'
  <2>1. \A m \in Launches : Keeps(m)' => Keeps(m)
    BY <1>1, <1>2, <1>3, <1>9 DEF Keeps
  <2>2. \A m \in Launches : op[m] = "default" /\ st'[m] = "launching"
                             => name[m] \in reserved'
    <3> TAKE m \in Launches
    <3> HAVE op[m] = "default" /\ st'[m] = "launching"
    <3>1. m # l /\ st[m] = "launching" /\ name[m] \in reserved
      BY <1>2 DEF Inv, NamesKept
    <3>2. Keeps(m) /\ (op[l] = "default" => Keeps(l))
      BY <1>1, <1>3, <3>1 DEF Keeps, Inv, Begun
    <3>3. op[l] = "default" => name[l] # name[m]
      BY <3>1, <3>2 DEF Inv, NamesKept
    <3> QED
      BY <1>4, <3>1, <3>3
  <2>3. \A m \in Launches : op[m] = "default" /\ child'[m] # "none" /\ m \notin unnamed'
                             => registry'[name[m]] # None
    <3> TAKE m \in Launches
    <3>1. CASE m = l
      BY <1>3, <1>8, <3>1
    <3>2. CASE m # l
      <4>1. ASSUME op[m] = "default", child'[m] # "none", m \notin unnamed'
            PROVE  name[m] \in Names /\ registry[name[m]] # None
        BY <1>2, <1>9, <3>2, <4>1 DEF Inv, Begun, NamesKept
      <4> QED
        BY <1>3, <1>7, <4>1
    <3> QED
      BY <3>1, <3>2
  <2> QED
    BY <1>1, <2>1, <2>2, <2>3 DEF Inv, NamesKept
<1>11. DefaultNameResolves'
  <2>1. ASSUME NEW k \in Launches, op[k] = "default", child'[k] # "none",
               k \notin unnamed',
               \A m \in Launches : op[m] = "explicit" => name[m] # name[k]
        PROVE  registry'[name[k]] = file[k]
    <3>1. CASE k = l
      BY <1>8, <2>1, <3>1
    <3>2. CASE k # l
      <4>1. /\ registry[name[k]] = file[k] /\ name[k] \in Names
            /\ k \notin unnamed /\ child[k] # "none"
        BY <1>2, <1>9, <2>1, <3>2 DEF Inv, DefaultNameResolves, Begun
      <4>2. op[l] # "resume" => name[l] # name[k]
        <5>1. op[l] \in {"default", "explicit", "resume"}
          BY <1>1 DEF Inv, Begun
        <5>2. op[l] = "default" => Keeps(l) /\ Keeps(k)
          BY <1>1, <1>3, <2>1, <4>1 DEF Keeps
        <5> QED
          BY <2>1, <3>2, <5>1, <5>2 DEF Inv, NamesKept
      <4> QED
        BY <1>7, <4>1, <4>2
    <3> QED
      BY <3>1, <3>2
  <2> QED
    BY <1>1, <2>1 DEF DefaultNameResolves
<1>12. Signalled' /\ ShutdownDetaches'
  BY <1>1, <1>2, SubagentsAssumption DEF Inv, Signalled, ShutdownDetaches
<1>13. Reported'
  <2>1. \A k \in Launches : child[k] \in Finished => child'[k] \in Finished
    BY <1>2, <1>3 DEF Finished
  <2>2. \A k \in Launches : outcome[k] # None => k # l
    BY <1>1 DEF Inv, Signalled
  <2> QED
    BY <1>1, <1>2, <2>1, <2>2, SubagentsAssumption DEF Inv, Reported
<1> QED
  BY <1>5, <1>6, <1>10, <1>11, <1>12, <1>13 DEF Inv

\* A launch that failed gives its name back.
LEMMA FailsInv ==
  ASSUME Inv, NEW l \in Launches, LaunchFails(l) PROVE Inv'
<1>1. /\ st[l] = "launching" /\ st' = [st EXCEPT ![l] = "ended"]
      /\ reserved' = IF op[l] = "default" THEN reserved \ {name[l]} ELSE reserved
      /\ UNCHANGED <<up, op, name, file, running, registry, ownAborted,
                     modAborted, child, panes, exitFile, outcome, loadouts, unnamed>>
  BY DEF LaunchFails, Released, watching, children
<1>2. st'[l] = "ended" /\ \A m \in Launches : m # l => st'[m] = st[m]
  BY <1>1 DEF Inv, TypeOK
<1>3. TypeOK' /\ Begun'
  BY <1>1, <1>2 DEF Inv, TypeOK, Begun
<1>4. NamesKept'
  BY <1>1, <1>2 DEF Inv, NamesKept, Keeps, Begun
<1>5. DefaultNameResolves' /\ Signalled' /\ ShutdownDetaches' /\ Reported'
  BY <1>1, <1>2 DEF Inv, DefaultNameResolves, Signalled, ShutdownDetaches, Reported
<1> QED
  BY <1>3, <1>4, <1>5 DEF Inv

\* Neither the names nor who has begun change: the rest of the invariant is
\* about processes and signals.
LEMMA NamesAside ==
  ASSUME Inv, UNCHANGED <<op, name, file, names>>,
         \A m \in Launches :
           /\ child'[m] = "none" <=> child[m] = "none"
           /\ st'[m] = st[m] \/ (st[m] = "watched" /\ st'[m] = "ended")
  PROVE  Begun' /\ NamesKept' /\ DefaultNameResolves'
<1>1. Begun'
  BY DEF Inv, Begun, names
<1>2. \A m \in Launches : Keeps(m)' <=> Keeps(m)
  BY DEF Keeps, names
<1>3. NamesKept'
  BY <1>2 DEF Inv, NamesKept, names
<1>4. DefaultNameResolves'
  BY DEF Inv, DefaultNameResolves, names
<1> QED
  BY <1>1, <1>3, <1>4

\* A child fails, exits, or ends with its pane.
LEMMA ExitsInv ==
  ASSUME Inv, NEW l \in Launches, ChildFails(l) \/ ChildExits(l) \/ PaneLost(l)
  PROVE  Inv'
<1>1. /\ child[l] \in {"alive", "closing", "exited"}
      /\ panes' \in {panes, panes \ {l}} /\ exitFile' \in {exitFile, exitFile \cup {file[l]}}
      /\ \/ child' = [child EXCEPT ![l] = "closing"] /\ child[l] = "alive"
         \/ child' = [child EXCEPT ![l] = "exited"] /\ exitFile' = exitFile
      /\ UNCHANGED <<up, st, op, name, file, running, names, loadouts,
                     ownAborted, modAborted, outcome>>
  BY DEF ChildFails, ChildExits, PaneLost, launches, watching, Inv, TypeOK
<1>2. /\ child'[l] \in {"closing", "exited"} /\ (child'[l] = "closing" => child[l] = "alive")
      /\ \A m \in Launches : m # l => child'[m] = child[m]
  BY <1>1 DEF Inv, TypeOK
<1>3. file[l] \in Files
  BY <1>1 DEF Inv, Begun, TypeOK
<1>4. TypeOK'
  BY <1>1, <1>2, <1>3 DEF Inv, TypeOK, names
<1>5. Begun' /\ NamesKept' /\ DefaultNameResolves'
  BY <1>1, <1>2, NamesAside
<1>6. Signalled' /\ ShutdownDetaches'
  BY <1>1, <1>2 DEF Inv, Signalled, ShutdownDetaches
<1>7. Reported'
  <2>1. \A k \in Launches : child[k] \in Finished => child'[k] \in Finished
    BY <1>2 DEF Finished
  <2>2. child'[l] \in Finished
    BY <1>2 DEF Finished
  <2>3. \A f \in exitFile' : f \in exitFile \/ f = file[l]
    BY <1>1
  <2>4. \A f \in exitFile' : \E m \in Launches : file'[m] = f /\ child'[m] \in Finished
    BY <1>1, <2>1, <2>2, <2>3 DEF Inv, Reported
  <2>5. ASSUME NEW k \in Launches, outcome'[k] \in {"result", "error"}
        PROVE  /\ child'[k] \notin {"none", "alive", "closing"}
               /\ \E m \in Launches : file'[m] = file'[k] /\ child'[m] \in Finished
    BY <1>1, <1>2, <2>1, <2>5 DEF Inv, Reported
  <2> QED
    BY <2>4, <2>5 DEF Reported
<1> QED
  BY <1>4, <1>5, <1>6, <1>7 DEF Inv

\* A watcher is over; unless it detaches, its pane is closed.
LEMMA EndsInv ==
  ASSUME Inv, NEW l \in Launches, st[l] = "watched",
         NEW how \in {"result", "detached", "error"}, Ends(l, how, how # "detached"),
         exitFile' \subseteq exitFile,
         how # "detached" =>
           \E m \in Launches : file[m] = file[l] /\ child[m] \in Finished
  PROVE  Inv'
<1>1. /\ st' = [st EXCEPT ![l] = "ended"] /\ outcome' = [outcome EXCEPT ![l] = how]
      /\ running' = running \ {l} /\ panes' = panes \ {l}
      /\ ownAborted' = ownAborted \ {l} /\ modAborted' = modAborted \ {l}
      /\ IF how # "detached" THEN ClosesPane(l) ELSE child' = child
      /\ UNCHANGED <<up, op, name, file, names, loadouts>>
  BY DEF Ends
<1>2. /\ child \in [Launches -> {"none", "alive", "closing", "exited", "killed", "cut"}]
      /\ child' \in [Launches -> {"none", "alive", "closing", "exited", "killed", "cut"}]
      /\ \A m \in Launches : m # l => child'[m] = child[m]
      /\ child'[l] = "none" <=> child[l] = "none"
      /\ how # "detached" => child'[l] \notin {"alive", "closing"}
      /\ child[l] \in Finished => child'[l] \in Finished
      /\ how = "detached" => child'[l] = child[l]
  BY <1>1 DEF ClosesPane, Inv, TypeOK, Finished
<1>3. /\ st'[l] = "ended" /\ outcome'[l] = how
      /\ \A m \in Launches : m # l => st'[m] = st[m] /\ outcome'[m] = outcome[m]
  BY <1>1 DEF Inv, TypeOK
<1>4. TypeOK'
  BY <1>1, <1>2, <1>3 DEF Inv, TypeOK, names
<1>5. Begun' /\ NamesKept' /\ DefaultNameResolves'
  BY <1>1, <1>2, <1>3, NamesAside
<1>6. Signalled'
  BY <1>1, <1>2, <1>3 DEF Inv, Signalled
<1>7. ShutdownDetaches'
  <2>1. how = "detached" => child'[l] \notin {"killed", "cut"}
    BY <1>2 DEF Inv, Signalled
  <2> QED
    BY <1>2, <1>3, <2>1 DEF Inv, ShutdownDetaches
<1>8. Reported'
  <2>1. \A k \in Launches : child[k] \in Finished => child'[k] \in Finished
    BY <1>2
  <2>2. \A f \in exitFile' : \E m \in Launches : file'[m] = f /\ child'[m] \in Finished
    BY <1>1, <2>1 DEF Inv, Reported
  <2>3. ASSUME NEW k \in Launches, outcome'[k] \in {"result", "error"}
        PROVE  /\ child'[k] \notin {"none", "alive", "closing"}
               /\ \E m \in Launches : file'[m] = file'[k] /\ child'[m] \in Finished
    <3>1. CASE k # l
      BY <1>1, <1>2, <1>3, <2>1, <2>3, <3>1 DEF Inv, Reported
    <3>2. CASE k = l
      <4>1. how # "detached"
        BY <1>3, <2>3, <3>2
      <4>2. child'[l] # "none"
        BY <1>2 DEF Inv, Signalled
      <4> QED
        BY <1>1, <1>2, <2>1, <3>2, <4>1, <4>2
    <3> QED
      BY <3>1, <3>2
  <2> QED
    BY <2>2, <2>3 DEF Reported
<1> QED
  BY <1>4, <1>5, <1>6, <1>7, <1>8 DEF Inv

\* A watcher ends: by the sidecar or the sentinel, or by a signal, which is its
\* own or comes with it.
LEMMA PollsInv ==
  ASSUME Inv, NEW l \in Launches,
         PollSidecar(l) \/ PollSentinel(l) \/ PollAborted(l)
  PROVE  Inv'
<1>1. CASE PollSidecar(l) \/ PollSentinel(l)
  <2>1. \E m \in Launches : file[m] = file[l] /\ child[m] \in Finished
    BY <1>1 DEF PollSidecar, PollSentinel, Inv, Reported, Finished
  <2>2. /\ st[l] = "watched" /\ exitFile' \subseteq exitFile
        /\ Ends(l, "result", TRUE) \/ Ends(l, "detached", FALSE) \/ Ends(l, "error", TRUE)
    BY <1>1 DEF PollSidecar, PollSentinel, Reports, Catches
  <2>3. \E how \in {"result", "detached", "error"} : Ends(l, how, how # "detached")
    BY <2>2
  <2> QED
    BY <2>1, <2>2, <2>3, EndsInv
<1>2. CASE PollAborted(l)
  <2>1. l \in ownAborted
    BY <1>2 DEF PollAborted, Aborted, Inv, Signalled
  <2>2. Ends(l, "detached", "detached" # "detached") /\ st[l] = "watched" /\ exitFile' = exitFile
    BY <1>2, <2>1 DEF PollAborted, Catches
  <2> QED
    BY <2>2, EndsInv
<1> QED
  BY <1>1, <1>2

\* A shutdown fires both signals of whoever watches; a start fires none.
LEMMA SessionInv == ASSUME Inv, Shutdown \/ SessionStart PROVE Inv'
<1>1. /\ up' \in BOOLEAN /\ running' \subseteq running
      /\ UNCHANGED <<st, op, name, file, names, loadouts, child, panes, exitFile,
                     outcome>>
  BY DEF Shutdown, SessionStart, launches, children
<1>2. TypeOK'
  BY <1>1 DEF Inv, TypeOK, names
<1>3. Begun' /\ NamesKept' /\ DefaultNameResolves'
  BY <1>1, NamesAside
<1>4. Signalled'
  BY <1>1 DEF Inv, Signalled, Shutdown, SessionStart
<1>5. ShutdownDetaches' /\ Reported'
  BY <1>1 DEF Inv, ShutdownDetaches, Reported
<1> QED
  BY <1>2, <1>3, <1>4, <1>5 DEF Inv

\* Every step keeps the invariant.
LEMMA StepInv == Inv /\ [Next]_vars => Inv'
<1> SUFFICES ASSUME Inv, [Next]_vars PROVE Inv'
  OBVIOUS
<1>1. CASE UNCHANGED vars
  <2>1. Begun' /\ NamesKept' /\ DefaultNameResolves'
    BY <1>1, NamesAside DEF vars, launches, names, watching, children
  <2>2. TypeOK' /\ Signalled'
    BY <1>1 DEF vars, launches, names, watching, children, Inv, TypeOK, Signalled
  <2>3. ShutdownDetaches' /\ Reported'
    BY <1>1 DEF vars, launches, watching, children, Inv, ShutdownDetaches, Reported
  <2> QED
    BY <2>1, <2>2, <2>3 DEF Inv
<1>2. ASSUME NEW l \in Launches, NEW a \in Agents, SpawnDefault(l, a) PROVE Inv'
  <2>1. PICK nm \in Names : /\ nm \notin Taken /\ reserved' = reserved \cup {nm}
                            /\ Begin(l, "default", nm, l)
    BY <1>2 DEF SpawnDefault, IsDefaultName
  <2> QED
    BY <2>1, BeginInv DEF Files
<1>3. ASSUME NEW l \in Launches, NEW nm \in Given, SpawnExplicit(l, nm) PROVE Inv'
  BY <1>3, BeginInv, SubagentsAssumption DEF SpawnExplicit, Files
<1>4. ASSUME NEW l \in Launches, NEW nm \in Names, ResumeChecks(l, nm) PROVE Inv'
  <2>1. registry[nm] \in Files
    BY <1>4 DEF ResumeChecks, IsRegistered, Inv, TypeOK
  <2> QED
    BY <1>4, <2>1, BeginInv DEF ResumeChecks
<1>5. ASSUME NEW l \in Launches,
             SpawnRegisters(l) \/ ResumeRegisters(l) \/ LaunchFails(l)
      PROVE  Inv'
  BY <1>5, RegisterInv, FailsInv
<1>6. ASSUME NEW l \in Launches, ChildFails(l) \/ ChildExits(l) \/ PaneLost(l)
      PROVE  Inv'
  BY <1>6, ExitsInv
<1>7. ASSUME NEW l \in Launches,
             PollSidecar(l) \/ PollSentinel(l) \/ PollAborted(l)
      PROVE  Inv'
  BY <1>7, PollsInv
<1>8. ASSUME Shutdown \/ SessionStart PROVE Inv'
  BY <1>8, SessionInv
<1> QED
  BY <1>1, <1>2, <1>3, <1>4, <1>5, <1>6, <1>7, <1>8 DEF Next

\* The invariant holds in every behaviour.
THEOREM Inductive == Spec => []Inv
BY InitInv, StepInv, PTL DEF Spec

\* The map of running subagents holds watched ones only, whatever overlaps.
THEOREM TypeCorrect == Spec => []TypeOK
<1>1. Inv => TypeOK
  BY DEF Inv
<1> QED
  BY <1>1, Inductive, PTL

\* A defaulted name never collides (uniqueRunningName).
THEOREM DefaultNamesResolve == Spec => []DefaultNameResolves
<1>1. Inv => DefaultNameResolves
  BY DEF Inv
<1> QED
  BY <1>1, Inductive, PTL

\* A shutdown leaves every pane it detaches from running, and no watcher ends
\* in its error arm.
THEOREM ShutdownOnlyDetaches == Spec => []ShutdownDetaches
<1>1. Inv => ShutdownDetaches
  BY DEF Inv
<1> QED
  BY <1>1, Inductive, PTL

\* A watcher that saw an exit and ends its child with the pane had not cut it off
\* in its work: it had exited or written its sidecar, unless the session was
\* resumed and a sidecar of another run may lie there (watchSubagent).
THEOREM ResultsSawFinish == Spec => []ResultSawFinish
<1>1. Inv => ResultSawFinish
  BY DEF Inv, TypeOK, Reported, Finished, ResultSawFinish
<1> QED
  BY <1>1, Inductive, PTL
=============================================================================
