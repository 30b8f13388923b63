-------------------------- MODULE CompanionProofs --------------------------
(* Proofs about Companion, for every number of launches, rivals, screens and *)
(* clicks.  What a server that takes part in the recorded address believes   *)
(* of the two files is tied to what they hold: while nobody published        *)
(* without having seen them, each file changes once, from empty to the       *)
(* address of the first server that published.                               *)
EXTENDS Companion, TLAPS, SequenceTheorems

Phases == {"off", "loading", "binding", "port", "listening", "live", "gone"}

\* A server that may still publish, or has: it drew, or found, its address.
Early(s) == srv[s].phase \in {"loading", "binding", "port", "listening"}

Process == [phase : Phases, port : Nat, token : Nat,
            triedFallback : BOOLEAN, blind : BOOLEAN,
            known : SUBSET Nat, timers : SUBSET Nat]

\* The type of the processes and the two files, as far as the address goes.
AddrType ==
  /\ srv \in [Servers -> Process]
  /\ portFile \in Nat /\ tokenFile \in Nat /\ raced \in BOOLEAN
  /\ \A s \in Servers :
       /\ Early(s) \/ Live(s) => srv[s].port # 0
       /\ srv[s].phase \in {"binding", "port", "listening", "live"}
            => srv[s].token # 0
       /\ srv[s].phase = "port" => ~srv[s].triedFallback

\* A server that saw both files on its way up holds what they say.
SeenIsRecorded ==
  \A s \in Servers :
    Early(s) /\ ~srv[s].triedFallback /\ ~srv[s].blind /\ ~raced
      => /\ portFile # 0 /\ srv[s].port = portFile
         /\ srv[s].phase # "loading" => tokenFile # 0 /\ srv[s].token = tokenFile

\* The port file goes first.
PortRecorded ==
  \A s \in Servers :
    srv[s].phase \in {"listening", "live"} /\ ~srv[s].triedFallback /\ ~raced
      => portFile = srv[s].port

IInv == AddrType /\ SeenIsRecorded /\ PortRecorded /\ AddressKept

\* The numbers a launch draws are addresses, and none of them stands for "no
\* file" (randomPort, generateToken).
LEMMA Drawn ==
  ASSUME NEW s \in Servers
  PROVE  s \in Nat \ {0} /\ Fallback(s) \in Nat \ {0}
BY CompanionAssumption DEF Servers, Fallback

\* Nothing is launched and nothing recorded.
LEMMA InitInv == Init => IInv
<1> SUFFICES ASSUME Init PROVE IInv
  OBVIOUS
<1>1. \A s \in Servers : srv[s] = Off
  BY DEF Init
<1>2. /\ Off.phase = "off" /\ Off.port \in Nat /\ Off.token \in Nat
      /\ Off \in Process
  BY DEF Off, Phases, Process
<1>3. AddrType
  BY <1>1, <1>2 DEF Init, AddrType, Early, Live
<1>4. SeenIsRecorded /\ PortRecorded /\ AddressKept
  BY <1>1, <1>2 DEF SeenIsRecorded, PortRecorded, AddressKept, Early, Live
<1> QED
  BY <1>3, <1>4 DEF IInv

\* What a server watches, typed.
LEMMA Fields ==
  ASSUME AddrType, NEW s \in Servers
  PROVE  srv[s].known \in SUBSET Nat /\ srv[s].timers \in SUBSET Nat
BY DEF AddrType, Process

\* A process that is gone is one, and has no address to keep.
LEMMA GoneIsProcess == Gone \in Process /\ Gone.phase = "gone"
BY DEF Gone, Off, Process, Phases

\* One process takes a state that fits its type; the others keep theirs.
LEMMA OneChanges ==
  ASSUME AddrType, NEW s \in Servers, NEW new \in Process,
         srv' = [srv EXCEPT ![s] = new],
         portFile' \in Nat, tokenFile' \in Nat, raced' \in BOOLEAN,
         new.phase \in {"loading", "binding", "port", "listening", "live"}
           => new.port # 0,
         new.phase \in {"binding", "port", "listening", "live"}
           => new.token # 0,
         new.phase = "port" => ~new.triedFallback
  PROVE  AddrType'
<1>1. srv' \in [Servers -> Process] /\ srv'[s] = new
  BY DEF AddrType
<1>2. \A r \in Servers \ {s} : srv'[r] = srv[r]
  BY DEF AddrType
<1>3. ASSUME NEW r \in Servers
      PROVE  /\ Early(r)' \/ Live(r)' => srv'[r].port # 0
             /\ srv'[r].phase \in {"binding", "port", "listening", "live"}
                  => srv'[r].token # 0
             /\ srv'[r].phase = "port" => ~srv'[r].triedFallback
  <2>1. CASE r = s
    BY <1>1, <2>1 DEF Early, Live
  <2>2. CASE r # s
    BY <1>2, <2>2 DEF AddrType, Early, Live
  <2> QED
    BY <2>1, <2>2
<1> QED
  BY <1>1, <1>3 DEF AddrType

\* A server only moves from one phase to the next.
LEMMA PhaseMoves ==
  ASSUME AddrType, NEW s \in Servers, NEW new \in Phases, NEW blind \in BOOLEAN,
         srv' = [srv EXCEPT ![s].phase = new, ![s].blind = blind],
         portFile' \in Nat, tokenFile' \in Nat, raced' \in BOOLEAN,
         srv[s].phase \in {"binding", "port", "listening"},
         new \in {"port", "listening", "live"},
         new = "port" => ~srv[s].triedFallback
  PROVE  AddrType'
<1>1. PICK p \in Process : p = srv[s]
  BY DEF AddrType
<1>2. [p EXCEPT !.phase = new, !.blind = blind] \in Process
  BY DEF Process
<1>3. PICK q \in Process : q = [p EXCEPT !.phase = new, !.blind = blind]
  BY <1>2
<1>4. /\ srv' = [srv EXCEPT ![s] = q]
      /\ q.phase = new /\ q.port = p.port /\ q.token = p.token
      /\ q.triedFallback = p.triedFallback
  BY <1>1, <1>3 DEF AddrType, Process
<1>5. p.port # 0 /\ p.token # 0
  BY <1>1 DEF AddrType, Early, Live
<1> QED
  BY <1>1, <1>4, <1>5, OneChanges

\* The process is loaded: it prefers the recorded port, or draws one.
LEMMA LaunchInv ==
  ASSUME IInv, NEW s \in Servers, Launch(s) PROVE IInv'
<1> USE DEF IInv, Early, Live
<1>1. PreferredPort(s) \in Nat \ {0}
      /\ (portFile # 0 => PreferredPort(s) = portFile)
  BY Drawn DEF PreferredPort, AddrType
<1>2. AddrType'
  <2> DEFINE new == [srv[s] EXCEPT !.phase = "loading",
                                   !.port = PreferredPort(s),
                                   !.blind = portFile = 0]
  <2>1. new \in Process
    BY <1>1 DEF AddrType, Process, Phases
  <2>2. srv' = [srv EXCEPT ![s] = new]
    BY DEF Launch, AddrType
  <2>3. srv' \in [Servers -> Process]
    BY <2>1, <2>2 DEF AddrType
  <2>4. \A r \in Servers \ {s} : srv'[r] = srv[r]
    BY <2>2 DEF AddrType
  <2>5. srv'[s].phase = "loading" /\ srv'[s].port # 0
    BY <1>1 DEF Launch, AddrType, Process
  <2> QED
    BY <2>3, <2>4, <2>5 DEF Launch, AddrType
<1>3. SeenIsRecorded'
  BY <1>1 DEF Launch, AddrType, Process, SeenIsRecorded
<1>4. PortRecorded' /\ AddressKept'
  BY DEF Launch, AddrType, Process, PortRecorded,
      AddressKept
<1> QED
  BY <1>2, <1>3, <1>4

\* The process takes the recorded token, or generates one.
LEMMA ReadTokenInv ==
  ASSUME IInv, NEW s \in Servers, ReadToken(s) PROVE IInv'
<1> USE DEF IInv, Early, Live
<1>1. PICK k \in Nat \ {0} : k = IF tokenFile # 0 THEN tokenFile ELSE s
  BY Drawn DEF AddrType
<1>2. AddrType'
  <2> DEFINE new == [srv[s] EXCEPT !.phase = "binding", !.token = k,
                                   !.blind = @ \/ tokenFile = 0]
  <2>1. new \in Process
    BY DEF AddrType, Process, Phases
  <2>2. srv' = [srv EXCEPT ![s] = new]
    BY <1>1 DEF ReadToken, AddrType
  <2>3. srv' \in [Servers -> Process]
    BY <2>1, <2>2 DEF AddrType
  <2>4. \A r \in Servers \ {s} : srv'[r] = srv[r]
    BY <2>2 DEF AddrType
  <2>5. srv'[s].phase = "binding" /\ srv'[s].port # 0 /\ srv'[s].token # 0
    BY <1>1 DEF ReadToken, AddrType, Process
  <2> QED
    BY <2>3, <2>4, <2>5 DEF ReadToken, AddrType
<1>3. SeenIsRecorded'
  BY Drawn DEF ReadToken, AddrType, Process, SeenIsRecorded
<1>4. PortRecorded' /\ AddressKept'
  BY DEF ReadToken, AddrType, Process, PortRecorded,
      AddressKept
<1> QED
  BY <1>2, <1>3, <1>4

\* The process has its port: only one that took no fallback will publish.
LEMMA BindInv ==
  ASSUME IInv, NEW s \in Servers, Bind(s) PROVE IInv'
<1> USE DEF IInv, Early, Live
<1>2. AddrType'
  <2>1. PICK to \in Phases :
          /\ to = IF Publishes(s) THEN "port" ELSE "listening"
          /\ to = "port" => ~srv[s].triedFallback
    BY DEF Phases, Publishes
  <2>2. PICK blind \in BOOLEAN : blind = srv[s].blind
    BY DEF AddrType, Process
  <2>3. srv' = [srv EXCEPT ![s].phase = to, ![s].blind = blind]
    BY <2>1, <2>2 DEF Bind, AddrType, Process
  <2>4. to \in {"port", "listening"} /\ srv[s].phase = "binding"
    BY <2>1 DEF Bind
  <2> QED
    BY <2>1, <2>3, <2>4, PhaseMoves DEF Bind, AddrType
<1>3. SeenIsRecorded'
  BY DEF Bind, Publishes, AddrType, Process, SeenIsRecorded
<1>4. PortRecorded' /\ AddressKept'
  BY DEF Bind, Publishes, AddrType, Process, PortRecorded,
      AddressKept
<1> QED
  BY <1>2, <1>3, <1>4

\* The port is taken: the process falls back.
LEMMA AddressInUseInv ==
  ASSUME IInv, NEW s \in Servers, AddressInUse(s) PROVE IInv'
<1> USE DEF IInv, Early, Live
<1>2. AddrType'
  <2> DEFINE token == IF srv[s].token # s THEN Fallback(s)
                      ELSE srv[s].token
             new == [srv[s] EXCEPT !.triedFallback = TRUE,
                                   !.port = Fallback(s), !.token = token]
  <2>1. token \in Nat \ {0}
    BY Drawn
  <2>2. new \in Process
    <3>1. PICK p \in Process : p = srv[s]
      BY DEF AddrType
    <3>2. PICK k \in Nat : k = token
      BY <2>1
    <3>3. PICK f \in Nat : f = Fallback(s)
      BY Drawn
    <3>4. [p EXCEPT !.triedFallback = TRUE, !.port = f, !.token = k] \in Process
      BY DEF Process
    <3> QED
      BY <3>1, <3>2, <3>3, <3>4
  <2>3. srv' = [srv EXCEPT ![s] = new]
    BY DEF AddressInUse, AddrType
  <2>4. srv' \in [Servers -> Process]
    BY <2>2, <2>3 DEF AddrType
  <2>5. \A r \in Servers \ {s} : srv'[r] = srv[r]
    BY <2>3 DEF AddrType
  <2>6. /\ srv'[s].phase = "binding"
        /\ srv'[s].port # 0 /\ srv'[s].token # 0
    BY <2>1, Drawn DEF AddressInUse, AddrType, Process
  <2> QED
    BY <2>4, <2>5, <2>6 DEF AddressInUse, AddrType
<1>3. SeenIsRecorded'
  BY DEF AddressInUse, AddrType, Process, SeenIsRecorded
<1>4. PortRecorded' /\ AddressKept'
  BY DEF AddressInUse, AddrType, Process, PortRecorded, AddressKept
<1> QED
  BY <1>2, <1>3, <1>4

\* The port goes to its file: that changes nothing, unless no port was
\* recorded, when nobody relies on one, or the publisher had not seen it.
LEMMA PublishPortInv ==
  ASSUME IInv, NEW s \in Servers, PublishPort(s) PROVE IInv'
<1> USE DEF IInv, Early, Live
<1>1. AddrType'
  <2>1. PICK blind \in BOOLEAN : blind = srv[s].blind
    BY DEF AddrType, Process
  <2>2. srv' = [srv EXCEPT ![s].phase = "listening", ![s].blind = blind]
    BY <2>1 DEF PublishPort, AddrType, Process
  <2>3. /\ portFile' \in {srv[s].port, portFile, 0} /\ tokenFile' = tokenFile
        /\ raced' \in BOOLEAN /\ srv[s].phase = "port"
    BY <2>1 DEF PublishPort, AddrType
  <2>5. srv[s].port \in Nat
    BY DEF AddrType, Process
  <2>6. portFile' \in Nat /\ tokenFile' \in Nat
    BY <2>3, <2>5 DEF AddrType
  <2>4. "listening" \in Phases
    BY DEF Phases
  <2> QED
    BY <2>2, <2>3, <2>4, <2>6, PhaseMoves
<1>2. ~raced' => portFile' = srv[s].port /\ portFile' # 0
  BY DEF PublishPort, AddrType
<1>3. ~raced' => ~raced /\ (portFile # 0 => portFile' = portFile)
  BY DEF PublishPort, AddrType, Process, SeenIsRecorded
<1>4. SeenIsRecorded'
  BY <1>3 DEF PublishPort, AddrType, Process, SeenIsRecorded
<1>5. PortRecorded'
  BY <1>2, <1>3 DEF PublishPort, AddrType, Process, PortRecorded
<1>6. AddressKept'
  BY <1>2, <1>3 DEF PublishPort, AddrType, Process, AddressKept
<1> QED
  BY <1>1, <1>4, <1>5, <1>6

\* The token goes to its file, in the same way, and the session says that the
\* server lives.
LEMMA StartedInv ==
  ASSUME IInv, NEW s \in Servers, Started(s) PROVE IInv'
<1> USE DEF IInv, Early, Live
<1>1. AddrType'
  <2>1. srv' = [srv EXCEPT ![s].phase = "live", ![s].blind = FALSE]
    BY DEF Started
  <2>2. /\ portFile' = portFile /\ tokenFile' \in {srv[s].token, tokenFile, 0}
        /\ raced' \in BOOLEAN /\ srv[s].phase = "listening"
    BY DEF Started, AddrType
  <2>4. srv[s].token \in Nat
    BY DEF AddrType, Process
  <2>5. portFile' \in Nat /\ tokenFile' \in Nat
    BY <2>2, <2>4 DEF AddrType
  <2>3. "live" \in Phases
    BY DEF Phases
  <2> QED
    BY <2>1, <2>2, <2>3, <2>5, PhaseMoves
<1>2. ~srv[s].triedFallback /\ ~raced' => tokenFile' = srv[s].token /\ tokenFile' # 0
  BY DEF Started, Publishes, AddrType
<1>3. ~raced' => ~raced /\ (tokenFile # 0 => tokenFile' = tokenFile)
  BY DEF Started, Publishes, AddrType, Process, SeenIsRecorded
<1>4. SeenIsRecorded'
  BY <1>3 DEF Started, AddrType, Process, SeenIsRecorded
<1>5. PortRecorded'
  BY <1>3 DEF Started, AddrType, Process, PortRecorded
<1>6. AddressKept'
  BY <1>2, <1>3 DEF Started, AddrType, Process, AddressKept, PortRecorded
<1> QED
  BY <1>1, <1>4, <1>5, <1>6

\* A server that goes relies on nothing any more.
LEMMA EndInv ==
  ASSUME IInv, NEW s \in Servers, Shutdown(s) \/ Stop(s) \/ Killed(s)
  PROVE  IInv'
<1> USE DEF IInv, Early, Live
<1>1. /\ srv' = [srv EXCEPT ![s] = Gone]
      /\ UNCHANGED <<portFile, tokenFile, raced>>
  BY DEF Shutdown, Stop, Killed
<1>2. AddrType'
  BY <1>1, GoneIsProcess, OneChanges DEF AddrType
<1>3. SeenIsRecorded' /\ PortRecorded' /\ AddressKept'
  BY <1>1 DEF Gone, Off, AddrType, SeenIsRecorded, PortRecorded, AddressKept
<1> QED
  BY <1>2, <1>3

\* Nothing changes that the invariant relates.
LEMMA SameAddresses ==
  ASSUME IInv, AddrType', portFile' = portFile, tokenFile' = tokenFile,
         raced' = raced,
         \A r \in Servers :
           /\ srv'[r].phase = srv[r].phase /\ srv'[r].port = srv[r].port
           /\ srv'[r].token = srv[r].token /\ srv'[r].blind = srv[r].blind
           /\ srv'[r].triedFallback = srv[r].triedFallback
  PROVE  IInv'
<1>1. SeenIsRecorded'
  BY DEF IInv, SeenIsRecorded, Early
<1>2. PortRecorded'
  BY DEF IInv, PortRecorded
<1>3. AddressKept'
  BY DEF IInv, AddressKept, Live
<1> QED
  BY <1>1, <1>2, <1>3 DEF IInv

\* Only the watched files and timers of a server change.
LEMMA WatchInv ==
  ASSUME IInv, NEW s \in Servers, NEW known \in SUBSET Nat,
         NEW timers \in SUBSET Nat,
         srv' = [srv EXCEPT ![s].known = known, ![s].timers = timers],
         UNCHANGED <<portFile, tokenFile, raced>>
  PROVE  IInv'
<1> USE DEF IInv, Early, Live
<1>1. \A r \in Servers :
        /\ srv'[r].phase = srv[r].phase /\ srv'[r].port = srv[r].port
        /\ srv'[r].token = srv[r].token /\ srv'[r].blind = srv[r].blind
        /\ srv'[r].triedFallback = srv[r].triedFallback
  BY DEF AddrType, Process
<1>2. AddrType'
  <2>1. [srv[s] EXCEPT !.known = known, !.timers = timers] \in Process
    BY DEF AddrType, Process
  <2>2. srv' \in [Servers -> Process]
    BY <2>1 DEF AddrType
  <2> QED
    BY <1>1, <2>2 DEF AddrType
<1> QED
  BY <1>1, <1>2, SameAddresses

\* A screen written, and announced.
LEMMA WriteInv ==
  ASSUME IInv, NEW s \in Servers, NEW k \in Screens,
         WriteScreen(s, k) \/ Announce(s, k)
  PROVE  IInv'
<1>1. k \in Nat
  BY CompanionAssumption DEF Screens
<1>2. /\ srv[s].known \in SUBSET Nat /\ srv[s].timers \in SUBSET Nat
      /\ srv[s].known \cup {k} \in SUBSET Nat
      /\ srv[s].timers \cup {k} \in SUBSET Nat
      /\ srv[s].timers \ {k} \in SUBSET Nat
  BY <1>1, Fields DEF IInv
<1>3. \A files \in SUBSET Nat :
        [srv EXCEPT ![s].known = srv[s].known, ![s].timers = files]
          = [srv EXCEPT ![s].timers = files]
  BY DEF IInv, AddrType, Process
<1>4. CASE WriteScreen(s, k)
  <2>1. UNCHANGED <<portFile, tokenFile, raced>>
    BY <1>4 DEF WriteScreen
  <2>2. srv' = [srv EXCEPT ![s].timers = srv[s].timers \cup {k}]
        \/ srv' = [srv EXCEPT ![s].timers = srv[s].timers]
    BY <1>4 DEF WriteScreen, Changed, IInv, AddrType, Process
  <2>3. PICK files \in SUBSET Nat :
          srv' = [srv EXCEPT ![s].known = srv[s].known, ![s].timers = files]
    BY <1>2, <1>3, <2>2
  <2> QED
    BY <1>2, <2>1, <2>3, WatchInv
<1>5. CASE Announce(s, k)
  <2>1. UNCHANGED <<portFile, tokenFile, raced>>
    BY <1>5 DEF Announce
  <2>2. srv' = [srv EXCEPT ![s].known = srv[s].known \cup {k},
                           ![s].timers = srv[s].timers \ {k}]
    BY <1>5 DEF Announce, IInv, AddrType, Process
  <2> QED
    BY <1>2, <2>1, <2>2, WatchInv
<1> QED
  BY <1>4, <1>5

\* Every step keeps the invariant.
LEMMA StepInv == IInv /\ [Next]_vars => IInv'
<1> SUFFICES ASSUME IInv, [Next]_vars PROVE IInv'
  OBVIOUS
<1>1. ASSUME UNCHANGED <<portFile, tokenFile, srv, raced>> PROVE IInv'
  BY <1>1 DEF IInv, AddrType, SeenIsRecorded, PortRecorded, AddressKept, Early,
              Live
<1>2. CASE UNCHANGED vars
  BY <1>1, <1>2 DEF vars
<1>3. ASSUME NEW s \in Servers,
             Launch(s) \/ ReadToken(s) \/ Bind(s) \/ AddressInUse(s)
             \/ PublishPort(s) \/ Started(s)
      PROVE  IInv'
  BY <1>3, LaunchInv, ReadTokenInv, BindInv, AddressInUseInv, PublishPortInv,
     StartedInv
<1>4. ASSUME NEW s \in Servers, Shutdown(s) \/ Stop(s) \/ Killed(s) PROVE IInv'
  BY <1>4, EndInv
<1>5. ASSUME NEW s \in Servers, NEW k \in Screens,
             WriteScreen(s, k) \/ Announce(s, k)
      PROVE  IInv'
  BY <1>5, WriteInv
<1>6. ASSUME NEW s \in Servers, OpenTab(s) \/ Receives(s) \/ Connect(s)
      PROVE  IInv'
  BY <1>1, <1>6 DEF OpenTab, Receives, Receive, Connect
<1>7. ASSUME Click \/ Closed \/ Reload PROVE IInv'
  BY <1>1, <1>7 DEF Click, Closed, Reload
<1> QED
  BY <1>2, <1>3, <1>4, <1>5, <1>6, <1>7
     DEF Next, ServerLoop, TabLoop, Disconnect, Breaks

\* The recorded address stays that of the server that published it and lives,
\* over any number of launches, stops, restarts and fallbacks.
THEOREM AddressKeptHolds == Spec => []AddressKept
<1>1. IInv => AddressKept
  BY DEF IInv
<1> QED
  BY <1>1, InitInv, StepInv, PTL DEF Spec

-----------------------------------------------------------------------------
(* Types, and the order of the choices.                                    *)

Addresses == Numbers \cup {0}

Procs == [phase : Phases, port : Addresses, token : Addresses,
          triedFallback : BOOLEAN, blind : BOOLEAN,
          known : SUBSET Nat, timers : SUBSET Nat]
Dirs  == [info : BOOLEAN, stopped : BOOLEAN, files : SUBSET Nat,
          newest : Nat, events : Seq(Nat)]
Tabs  == [state : {"none", "dead", "connecting", "waiting", "open"},
          port : Addresses, token : Addresses, on : Servers \cup {0},
          page : Nat, queue : Seq(Nat), tombstone : BOOLEAN,
          of : Servers \cup {0}, published : BOOLEAN]

Shape ==
  /\ portFile \in Addresses /\ tokenFile \in Addresses
  /\ srv \in [Servers -> Procs] /\ dir \in [Servers -> Dirs]
  /\ tab \in Tabs /\ wire \in Seq(Nat)
  /\ reload \in BOOLEAN /\ raced \in BOOLEAN
  /\ written \in 0..MaxWrites /\ clicks \in 0..MaxClicks

\* What a server watches is in its session, and a session is marked stopped
\* only by a server that was live in it.
Watching ==
  /\ \A s \in Servers :
       /\ srv[s].timers \subseteq dir[s].files /\ srv[s].known \subseteq dir[s].files
       /\ dir[s].files \subseteq 1..written /\ dir[s].newest <= written
       /\ srv[s].phase \notin {"live", "gone"} => ~dir[s].stopped
       /\ Live(s) => dir[s].info /\ ~dir[s].stopped
  /\ tab.page <= written
  /\ tab.state = "open" <=> tab.on # 0
  /\ wire # <<>> \/ reload => tab.state = "open"
  /\ tab.state = "open" => tab.queue = <<>>

\* Every choice in a is earlier than every choice in b.
Before(a, b) ==
  \A i \in 1..Len(a) : \A j \in 1..Len(b) : a[i] < b[j]

\* The choices in a were made one after the other, the last no later than n.
Made(a, n) ==
  /\ Increasing(a)
  /\ \A i \in 1..Len(a) : 1 <= a[i] /\ a[i] <= n

\* Choices flow from the queue through the wire into the sessions, and never
\* overtake: what any session has recorded is earlier than what is on its way,
\* and that is earlier than what waits.
Flow ==
  /\ \A s \in Servers : /\ Made(dir[s].events, clicks)
                        /\ Before(dir[s].events, wire)
                        /\ Before(dir[s].events, tab.queue)
  /\ Made(wire, clicks) /\ Made(tab.queue, clicks) /\ Before(wire, tab.queue)
  /\ \A s, r \in Servers :
       s # r => \A i \in 1..Len(dir[s].events) : \A j \in 1..Len(dir[r].events) :
                  dir[s].events[i] # dir[r].events[j]

Session == Shape /\ Watching /\ Flow

\* Choices made before others, and then those.
LEMMA MadeConcat ==
  ASSUME NEW a \in Seq(Nat), NEW b \in Seq(Nat), NEW n \in Nat,
         Made(a, n), Made(b, n), Before(a, b)
  PROVE  a \o b \in Seq(Nat) /\ Made(a \o b, n)
<1>1. /\ a \o b \in Seq(Nat) /\ Len(a \o b) = Len(a) + Len(b)
      /\ \A i \in 1..(Len(a) + Len(b)) :
           (a \o b)[i] = IF i <= Len(a) THEN a[i] ELSE b[i - Len(a)]
      /\ Len(a) \in Nat /\ Len(b) \in Nat
      /\ \A i \in 1..Len(a) : a[i] \in Nat
      /\ \A i \in 1..Len(b) : b[i] \in Nat
  BY ConcatProperties, LenProperties, ElementOfSeq
<1>2. ASSUME NEW i \in 1..Len(a \o b), NEW j \in 1..Len(a \o b), i < j
      PROVE  (a \o b)[i] < (a \o b)[j]
  <2>1. CASE j <= Len(a)
    BY <1>1, <1>2, <2>1 DEF Made, Increasing
  <2>2. CASE i <= Len(a) /\ j > Len(a)
    <3>1. i \in 1..Len(a) /\ j - Len(a) \in 1..Len(b)
      BY <1>1, <2>2
    <3> QED
      BY <1>1, <2>2, <3>1 DEF Before
  <2>3. CASE i > Len(a)
    <3>1. /\ i - Len(a) \in 1..Len(b) /\ j - Len(a) \in 1..Len(b)
          /\ i - Len(a) < j - Len(a) /\ j > Len(a)
      BY <1>1, <1>2, <2>3
    <3>2. /\ (a \o b)[i] = b[i - Len(a)]
          /\ (a \o b)[j] = b[j - Len(a)]
      BY <1>1, <2>3, <3>1
    <3> QED
      BY <3>1, <3>2 DEF Made, Increasing
  <2> QED
    BY <1>1, <2>1, <2>2, <2>3
<1>3. ASSUME NEW i \in 1..Len(a \o b)
      PROVE  1 <= (a \o b)[i] /\ (a \o b)[i] <= n
  <2>1. CASE i <= Len(a)
    BY <1>1, <2>1 DEF Made
  <2>2. CASE i > Len(a)
    <3>1. i - Len(a) \in 1..Len(b)
      BY <1>1, <2>2
    <3> QED
      BY <1>1, <2>2, <3>1 DEF Made
  <2> QED
    BY <1>1, <2>1, <2>2
<1> QED
  BY <1>1, <1>2, <1>3 DEF Made, Increasing

\* An element of two sequences in a row is of the one or of the other.
LEMMA ConcatElement ==
  ASSUME NEW x \in Seq(Nat), NEW y \in Seq(Nat), NEW i \in 1..Len(x \o y)
  PROVE  \/ i \in 1..Len(x) /\ (x \o y)[i] = x[i]
         \/ i - Len(x) \in 1..Len(y) /\ (x \o y)[i] = y[i - Len(x)]
<1>1. /\ Len(x \o y) = Len(x) + Len(y)
      /\ (x \o y)[i] = IF i <= Len(x) THEN x[i] ELSE y[i - Len(x)]
      /\ Len(x) \in Nat /\ Len(y) \in Nat
  BY ConcatProperties, LenProperties
<1> QED
  BY <1>1

\* Before or after two sequences in a row is before or after both.
LEMMA BeforeConcat ==
  ASSUME NEW a \in Seq(Nat), NEW b \in Seq(Nat), NEW c \in Seq(Nat)
  PROVE  /\ Before(a, c) /\ Before(b, c) => Before(a \o b, c)
         /\ Before(a, b) /\ Before(a, c) => Before(a, b \o c)
<1>1. ASSUME Before(a, c), Before(b, c) PROVE Before(a \o b, c)
  <2>1. ASSUME NEW i \in 1..Len(a \o b), NEW j \in 1..Len(c)
        PROVE  (a \o b)[i] < c[j]
    <3>1. \/ i \in 1..Len(a) /\ (a \o b)[i] = a[i]
          \/ i - Len(a) \in 1..Len(b) /\ (a \o b)[i] = b[i - Len(a)]
      BY ConcatElement
    <3> QED
      BY <1>1, <3>1 DEF Before
  <2> QED
    BY <2>1 DEF Before
<1>2. ASSUME Before(a, b), Before(a, c) PROVE Before(a, b \o c)
  <2>1. ASSUME NEW i \in 1..Len(a), NEW j \in 1..Len(b \o c)
        PROVE  a[i] < (b \o c)[j]
    <3>1. \/ j \in 1..Len(b) /\ (b \o c)[j] = b[j]
          \/ j - Len(b) \in 1..Len(c) /\ (b \o c)[j] = c[j - Len(b)]
      BY ConcatElement
    <3> QED
      BY <1>2, <3>1 DEF Before
  <2> QED
    BY <2>1 DEF Before
<1> QED
  BY <1>1, <1>2

\* The next choice goes after all that were made.
LEMMA MadeAppend ==
  ASSUME NEW a \in Seq(Nat), NEW n \in Nat, Made(a, n)
  PROVE  /\ Append(a, n + 1) \in Seq(Nat)
         /\ Made(Append(a, n + 1), n + 1) /\ Made(a, n + 1)
         /\ \A b \in Seq(Nat) :
              Made(b, n) /\ Before(b, a) => Before(b, Append(a, n + 1))
<1>1. /\ Append(a, n + 1) \in Seq(Nat) /\ Len(Append(a, n + 1)) = Len(a) + 1
      /\ \A i \in 1..Len(a) : Append(a, n + 1)[i] = a[i] /\ a[i] \in Nat
      /\ Append(a, n + 1)[Len(a) + 1] = n + 1
      /\ Len(a) \in Nat
  BY AppendProperties, LenProperties, ElementOfSeq
<1>2. \A i \in 1..(Len(a) + 1) : i \in 1..Len(a) \/ i = Len(a) + 1
  BY <1>1
<1>3. Made(Append(a, n + 1), n + 1)
  <2>1. ASSUME NEW i \in 1..(Len(a) + 1), NEW j \in 1..(Len(a) + 1), i < j
        PROVE  Append(a, n + 1)[i] < Append(a, n + 1)[j]
    <3>1. i \in 1..Len(a) /\ Append(a, n + 1)[i] = a[i] /\ a[i] <= n /\ a[i] \in Nat
      BY <1>1, <2>1 DEF Made
    <3>2. CASE j \in 1..Len(a)
      BY <1>1, <2>1, <3>1, <3>2 DEF Made, Increasing
    <3>3. CASE j = Len(a) + 1
      BY <1>1, <3>1, <3>3
    <3> QED
      BY <1>2, <3>2, <3>3
  <2>2. ASSUME NEW i \in 1..(Len(a) + 1)
        PROVE  1 <= Append(a, n + 1)[i] /\ Append(a, n + 1)[i] <= n + 1
    BY <1>1, <1>2 DEF Made
  <2> QED
    BY <1>1, <2>1, <2>2 DEF Made, Increasing
<1>4. Made(a, n + 1)
  BY <1>1 DEF Made
<1>5. ASSUME NEW b \in Seq(Nat), Made(b, n), Before(b, a)
      PROVE  Before(b, Append(a, n + 1))
  <2>1. ASSUME NEW i \in 1..Len(b), NEW j \in 1..(Len(a) + 1)
        PROVE  b[i] < Append(a, n + 1)[j]
    <3>1. b[i] \in Nat /\ b[i] <= n
      BY <1>5, ElementOfSeq DEF Made
    <3> QED
      BY <1>1, <1>2, <1>5, <3>1 DEF Before
  <2> QED
    BY <1>1, <2>1 DEF Before
<1> QED
  BY <1>1, <1>3, <1>4, <1>5

\* The first choice on its way is recorded, the others stay on their way.
LEMMA HeadFirst ==
  ASSUME NEW w \in Seq(Nat), w # <<>>, NEW n \in Nat, Made(w, n)
  PROVE  /\ <<Head(w)>> \in Seq(Nat) /\ Tail(w) \in Seq(Nat)
         /\ Made(<<Head(w)>>, n) /\ Made(Tail(w), n)
         /\ Before(<<Head(w)>>, Tail(w))
         /\ \A a \in Seq(Nat) :
              /\ Before(a, w) => Before(a, <<Head(w)>>) /\ Before(a, Tail(w))
              /\ Before(w, a) => Before(<<Head(w)>>, a) /\ Before(Tail(w), a)
<1>1. /\ Head(w) \in Nat /\ Head(w) = w[1]
      /\ Tail(w) \in Seq(Nat) /\ Len(Tail(w)) = Len(w) - 1
      /\ \A i \in 1..Len(Tail(w)) : Tail(w)[i] = w[i + 1]
      /\ Len(w) \in Nat /\ Len(w) > 0 /\ 1 \in 1..Len(w)
      /\ \A i \in 1..Len(w) : w[i] \in Nat
  BY HeadTailProperties, LenProperties, ElementOfSeq, EmptySeq
<1>2. /\ \A i \in 1..Len(Tail(w)) : i + 1 \in 1..Len(w) /\ i + 1 > 1
      /\ <<Head(w)>> \in Seq(Nat) /\ Len(<<Head(w)>>) = 1
      /\ \A i \in 1..1 : i = 1 /\ <<Head(w)>>[i] = w[1]
  BY <1>1
<1>3. Made(<<Head(w)>>, n)
  BY <1>1, <1>2 DEF Made, Increasing
<1>4. Made(Tail(w), n)
  <2>1. ASSUME NEW i \in 1..Len(Tail(w)), NEW j \in 1..Len(Tail(w)), i < j
        PROVE  Tail(w)[i] < Tail(w)[j]
    <3>1. i + 1 < j + 1 /\ i + 1 \in 1..Len(w) /\ j + 1 \in 1..Len(w)
      BY <1>1, <1>2, <2>1
    <3> QED
      BY <1>1, <3>1 DEF Made, Increasing
  <2>2. \A i \in 1..Len(Tail(w)) : 1 <= Tail(w)[i] /\ Tail(w)[i] <= n
    BY <1>1, <1>2 DEF Made
  <2> QED
    BY <2>1, <2>2 DEF Made, Increasing
<1>5. Before(<<Head(w)>>, Tail(w))
  BY <1>1, <1>2 DEF Before, Made, Increasing
<1>6. ASSUME NEW a \in Seq(Nat)
      PROVE  /\ Before(a, w) => Before(a, <<Head(w)>>) /\ Before(a, Tail(w))
             /\ Before(w, a) => Before(<<Head(w)>>, a) /\ Before(Tail(w), a)
  BY <1>1, <1>2 DEF Before
<1> QED
  BY <1>1, <1>2, <1>3, <1>4, <1>5, <1>6

\* Nothing is before, and after, everything.
LEMMA NothingMade ==
  ASSUME NEW n
  PROVE  /\ <<>> \in Seq(Nat) /\ Len(<<>>) = 0 /\ Made(<<>>, n)
         /\ \A a : Before(a, <<>>) /\ Before(<<>>, a)
BY DEF Made, Before, Increasing

\* The numbers of launches, ports and tokens.
LEMMA Numbering ==
  /\ Servers \subseteq Numbers /\ Servers \subseteq Nat \ {0}
  /\ \A s \in Servers : s \in Numbers /\ Fallback(s) \in Numbers
  /\ Numbers \subseteq Nat \ {0}
  /\ MaxWrites \in Nat /\ MaxClicks \in Nat
BY CompanionAssumption DEF Servers, Numbers, Fallback

\* A server and its session change, and the tab only as to what it missed.
LEMMA ServerStep ==
  ASSUME Session, NEW s \in Servers, NEW new \in Procs, NEW d \in Dirs,
         srv' = [srv EXCEPT ![s] = new], dir' = [dir EXCEPT ![s] = d],
         portFile' \in Addresses, tokenFile' \in Addresses, raced' \in BOOLEAN,
         written' \in 0..MaxWrites, written <= written',
         UNCHANGED <<wire, clicks>>, tab' \in Tabs,
         tab'.state = tab.state, tab'.on = tab.on, tab'.page = tab.page,
         tab'.queue = tab.queue,
         reload' \in BOOLEAN, reload' => reload \/ tab.state = "open",
         d.events = dir[s].events \/ d.events = <<>>,
         new.timers \subseteq d.files, new.known \subseteq d.files,
         d.files \subseteq 1..written', d.newest <= written',
         new.phase \notin {"live", "gone"} => ~d.stopped,
         new.phase = "live" => d.info /\ ~d.stopped
  PROVE  Session'
<1>1. /\ srv' \in [Servers -> Procs] /\ dir' \in [Servers -> Dirs]
      /\ srv'[s] = new /\ dir'[s] = d
      /\ \A r \in Servers \ {s} : srv'[r] = srv[r] /\ dir'[r] = dir[r]
  BY DEF Session, Shape
<1>2. Shape'
  BY <1>1 DEF Session, Shape
<1>3. /\ \A r \in Servers : dir[r] \in Dirs
      /\ written \in Nat /\ written' \in Nat /\ tab \in Tabs
  BY Numbering DEF Session, Shape
<1>4. Watching'
  <2>1. \A r \in Servers :
          /\ srv'[r].timers \subseteq dir'[r].files
          /\ srv'[r].known \subseteq dir'[r].files
          /\ srv'[r].phase \notin {"live", "gone"} => ~dir'[r].stopped
          /\ srv'[r].phase = "live" => dir'[r].info /\ ~dir'[r].stopped
    BY <1>1 DEF Session, Watching, Live
  <2>2. \A r \in Servers : /\ dir'[r].files \subseteq 1..written'
                           /\ dir'[r].newest <= written'
    <3>1. 1..written \subseteq 1..written'
      BY <1>3
    <3>2. ASSUME NEW r \in Servers, r # s
          PROVE  dir'[r].files \subseteq 1..written' /\ dir'[r].newest <= written'
      <4>1. /\ dir'[r] = dir[r] /\ dir[r].files \subseteq 1..written
            /\ dir[r].newest <= written /\ dir[r].newest \in Nat
        BY <1>1, <1>3, <3>2 DEF Session, Watching, Dirs
      <4> QED
        BY <1>3, <3>1, <4>1
    <3> QED
      BY <1>1, <3>2
  <2>3. tab.page <= written'
    BY <1>3 DEF Session, Watching, Tabs
  <2>4. wire # <<>> \/ reload' => tab.state = "open"
    BY DEF Session, Watching
  <2>5. /\ tab.state = "open" <=> tab.on # 0
        /\ tab.state = "open" => tab.queue = <<>>
    BY DEF Session, Watching
  <2> QED
    BY <2>1, <2>2, <2>3, <2>4, <2>5 DEF Watching, Live
<1>5. Flow'
  <2>1. \A r \in Servers : dir'[r].events = dir[r].events \/ dir'[r].events = <<>>
    BY <1>1
  <2>2. \A r \in Servers : /\ Made(dir'[r].events, clicks)
                           /\ Before(dir'[r].events, wire)
                           /\ Before(dir'[r].events, tab.queue)
    BY <2>1, NothingMade DEF Session, Flow
  <2>3. ASSUME NEW r \in Servers, NEW q \in Servers, r # q,
               NEW i \in 1..Len(dir'[r].events), NEW j \in 1..Len(dir'[q].events)
        PROVE  dir'[r].events[i] # dir'[q].events[j]
    <3>1. dir'[r].events # <<>> /\ dir'[q].events # <<>>
      BY <2>3, NothingMade
    <3>2. dir'[r].events = dir[r].events /\ dir'[q].events = dir[q].events
      BY <2>1, <3>1
    <3> QED
      BY <2>3, <3>2 DEF Session, Flow
  <2>4. /\ Made(wire, clicks) /\ Made(tab.queue, clicks)
        /\ Before(wire, tab.queue)
    BY DEF Session, Flow
  <2>5. Made(wire', clicks') /\ Made(tab'.queue, clicks') /\ Before(wire', tab'.queue)
    BY <2>4 DEF Made, Before, Increasing
  <2>6. \A r \in Servers : /\ Made(dir'[r].events, clicks')
                           /\ Before(dir'[r].events, wire')
                           /\ Before(dir'[r].events, tab'.queue)
    BY <2>2 DEF Made, Before, Increasing
  <2> QED
    BY <2>3, <2>5, <2>6 DEF Flow, Made, Before, Increasing
<1> QED
  BY <1>2, <1>4, <1>5 DEF Session

\* What the session has on server s and its directory.
LEMMA SessionOf ==
  ASSUME Session, NEW s \in Servers
  PROVE  /\ srv[s] \in Procs /\ dir[s] \in Dirs /\ tab \in Tabs
         /\ written \in Nat /\ written <= MaxWrites
         /\ portFile \in Addresses /\ tokenFile \in Addresses /\ raced \in BOOLEAN
         /\ reload \in BOOLEAN
         /\ srv[s].timers \subseteq dir[s].files /\ srv[s].known \subseteq dir[s].files
         /\ dir[s].files \subseteq 1..written /\ dir[s].newest <= written
         /\ srv[s].phase \notin {"live", "gone"} => ~dir[s].stopped
         /\ srv[s].phase = "live" => dir[s].info /\ ~dir[s].stopped
         /\ srv = [srv EXCEPT ![s] = srv[s]] /\ dir = [dir EXCEPT ![s] = dir[s]]
BY Numbering DEF Session, Shape, Watching, Live

\* A start of a server, step by step, and its end.
LEMMA ServerSteps ==
  ASSUME Session, NEW s \in Servers,
         \/ Launch(s) \/ ReadToken(s) \/ Bind(s) \/ AddressInUse(s)
         \/ PublishPort(s) \/ Started(s)
         \/ Shutdown(s) \/ Stop(s) \/ Killed(s)
  PROVE  Session'
<1>0. /\ srv[s] \in Procs /\ dir[s] \in Dirs /\ tab \in Tabs
      /\ written \in 0..MaxWrites /\ written <= written
      /\ portFile \in Addresses /\ tokenFile \in Addresses /\ raced \in BOOLEAN
      /\ reload \in BOOLEAN
      /\ srv[s].timers \subseteq dir[s].files /\ srv[s].known \subseteq dir[s].files
      /\ dir[s].files \subseteq 1..written /\ dir[s].newest <= written
      /\ srv[s].phase \notin {"live", "gone"} => ~dir[s].stopped
      /\ srv[s].phase = "live" => dir[s].info /\ ~dir[s].stopped
      /\ dir = [dir EXCEPT ![s] = dir[s]]
      /\ srv \in [Servers -> Procs] /\ dir \in [Servers -> Dirs]
  BY SessionOf, Numbering DEF Session, Shape
<1>1. UNCHANGED <<tab, wire, reload, written, clicks>>
  BY DEF Launch, ReadToken, Bind, AddressInUse, PublishPort, Started,
         Shutdown, Stop, Killed
<1>2. ASSUME NEW new \in Procs, srv' = [srv EXCEPT ![s] = new],
             new.timers \subseteq srv[s].timers, new.known \subseteq srv[s].known,
             NEW d \in Dirs, dir' = [dir EXCEPT ![s] = d],
             d.files = dir[s].files, d.newest = dir[s].newest,
             d.events = dir[s].events,
             new.phase \notin {"live", "gone"} => ~d.stopped,
             new.phase = "live" => d.info /\ ~d.stopped,
             portFile' \in Addresses, tokenFile' \in Addresses, raced' \in BOOLEAN
      PROVE  Session'
  BY <1>0, <1>1, <1>2, ServerStep
<1>3. Gone \in Procs /\ Gone.phase = "gone" /\ Gone.timers = {} /\ Gone.known = {}
  BY DEF Gone, Off, Procs, Phases, Addresses
<1>4. ASSUME UNCHANGED dir, NEW new \in Procs, srv' = [srv EXCEPT ![s] = new],
             new.timers = srv[s].timers, new.known = srv[s].known,
             srv[s].phase \notin {"live", "gone"}, new.phase # "live",
             portFile' \in Addresses, tokenFile' \in Addresses, raced' \in BOOLEAN
      PROVE  Session'
  BY <1>0, <1>2, <1>4
<1>5. CASE Launch(s)
  <2>1. PICK b \in BOOLEAN : b = (portFile = 0)
    OBVIOUS
  <2>2. PICK p \in Addresses : p = PreferredPort(s)
    BY <1>0, Numbering DEF PreferredPort, Addresses
  <2> DEFINE new == [srv[s] EXCEPT !.phase = "loading", !.port = p, !.blind = b]
  <2>3. /\ new \in Procs /\ new.timers = srv[s].timers /\ new.known = srv[s].known
        /\ new.phase = "loading"
    BY <1>0 DEF Procs, Phases
  <2>4. srv' = [srv EXCEPT ![s] = new]
    BY <1>0, <1>5, <2>1, <2>2 DEF Launch
  <2> HIDE DEF new
  <2> QED
    BY <1>0, <1>4, <1>5, <2>3, <2>4 DEF Launch
<1>6. CASE ReadToken(s)
  <2>1. PICK b \in BOOLEAN : b = (srv[s].blind \/ tokenFile = 0)
    OBVIOUS
  <2>2. PICK t \in Addresses : t = IF tokenFile # 0 THEN tokenFile ELSE s
    BY <1>0, Numbering DEF Addresses
  <2> DEFINE new == [srv[s] EXCEPT !.phase = "binding", !.token = t, !.blind = b]
  <2>3. /\ new \in Procs /\ new.timers = srv[s].timers /\ new.known = srv[s].known
        /\ new.phase = "binding"
    BY <1>0 DEF Procs, Phases
  <2>4. srv' = [srv EXCEPT ![s] = new]
    BY <1>0, <1>6, <2>1, <2>2 DEF ReadToken
  <2> HIDE DEF new
  <2> QED
    BY <1>0, <1>4, <1>6, <2>3, <2>4 DEF ReadToken
<1>7. CASE Bind(s)
  <2>1. PICK x \in {"port", "listening"} :
          x = IF Publishes(s) THEN "port" ELSE "listening"
    OBVIOUS
  <2> DEFINE new == [srv[s] EXCEPT !.phase = x]
  <2>2. /\ new \in Procs /\ new.timers = srv[s].timers /\ new.known = srv[s].known
        /\ new.phase \in {"port", "listening"}
    BY <1>0 DEF Procs, Phases
  <2>3. srv' = [srv EXCEPT ![s] = new]
    BY <1>0, <1>7, <2>1 DEF Bind
  <2> HIDE DEF new
  <2> QED
    BY <1>0, <1>4, <1>7, <2>2, <2>3 DEF Bind
<1>8. CASE AddressInUse(s)
  <2>1. PICK t \in Addresses :
          t = IF srv[s].token # s THEN Fallback(s) ELSE srv[s].token
    BY <1>0, Numbering DEF Addresses, Procs
  <2>2. Fallback(s) \in Addresses
    BY Numbering DEF Addresses
  <2> DEFINE new == [srv[s] EXCEPT !.triedFallback = TRUE, !.port = Fallback(s),
                                   !.token = t]
  <2>3. /\ new \in Procs /\ new.timers = srv[s].timers /\ new.known = srv[s].known
        /\ new.phase = srv[s].phase
    BY <1>0, <2>2 DEF Procs
  <2>4. srv' = [srv EXCEPT ![s] = new]
    BY <1>0, <1>8, <2>1 DEF AddressInUse
  <2> HIDE DEF new
  <2> QED
    BY <1>0, <1>4, <1>8, <2>3, <2>4 DEF AddressInUse
<1>9. CASE PublishPort(s)
  <2> DEFINE new == [srv[s] EXCEPT !.phase = "listening"]
  <2>1. /\ new \in Procs /\ new.timers = srv[s].timers /\ new.known = srv[s].known
        /\ new.phase = "listening" /\ srv[s].port \in Addresses
    BY <1>0 DEF Procs, Phases
  <2>2. srv' = [srv EXCEPT ![s] = new]
    BY <1>0, <1>9 DEF PublishPort
  <2>3. portFile' \in Addresses /\ raced' \in BOOLEAN
    BY <1>0, <1>9, <2>1 DEF PublishPort, Addresses
  <2> HIDE DEF new
  <2> QED
    BY <1>0, <1>4, <1>9, <2>1, <2>2, <2>3 DEF PublishPort
<1>10. CASE Started(s)
  <2> DEFINE new == [srv[s] EXCEPT !.phase = "live", !.blind = FALSE]
             d   == [dir[s] EXCEPT !.info = TRUE]
  <2>1. /\ new \in Procs /\ new.timers = srv[s].timers /\ new.known = srv[s].known
        /\ new.phase = "live" /\ srv[s].token \in Addresses
    BY <1>0 DEF Procs, Phases
  <2>2. /\ d \in Dirs /\ d.files = dir[s].files /\ d.newest = dir[s].newest
        /\ d.events = dir[s].events /\ d.info
        /\ d.stopped = dir[s].stopped
    BY <1>0 DEF Dirs
  <2>3. srv' = [srv EXCEPT ![s] = new] /\ dir' = [dir EXCEPT ![s] = d]
    BY <1>0, <1>10 DEF Started
  <2>4. ~dir[s].stopped
    BY <1>0, <1>10 DEF Started
  <2>5. portFile' = portFile /\ tokenFile' \in Addresses /\ raced' \in BOOLEAN
    BY <1>0, <1>10, <2>1 DEF Started, Addresses
  <2> HIDE DEF new, d
  <2> QED
    BY <1>0, <1>2, <2>1, <2>2, <2>3, <2>4, <2>5
<1>11. CASE Shutdown(s) \/ Stop(s)
  <2> DEFINE d == [dir[s] EXCEPT !.info = FALSE, !.stopped = TRUE]
  <2>1. /\ d \in Dirs /\ d.files = dir[s].files /\ d.newest = dir[s].newest
        /\ d.events = dir[s].events
    BY <1>0 DEF Dirs
  <2>2. /\ srv' = [srv EXCEPT ![s] = Gone] /\ dir' = [dir EXCEPT ![s] = d]
        /\ UNCHANGED <<portFile, tokenFile, raced>>
    BY <1>0, <1>11 DEF Shutdown, Stop
  <2> HIDE DEF d
  <2> QED
    BY <1>0, <1>2, <1>3, <2>1, <2>2
<1>12. CASE Killed(s)
  <2>1. /\ srv' = [srv EXCEPT ![s] = Gone] /\ dir' = [dir EXCEPT ![s] = dir[s]]
        /\ UNCHANGED <<portFile, tokenFile, raced>>
    BY <1>0, <1>12 DEF Killed
  <2> QED
    BY <1>0, <1>2, <1>3, <2>1
<1> QED
  BY <1>5, <1>6, <1>7, <1>8, <1>9, <1>10, <1>11, <1>12

\* A screen is written, and announced.
LEMMA ScreenSteps ==
  ASSUME Session, NEW s \in Servers, NEW k \in Screens,
         WriteScreen(s, k) \/ Announce(s, k)
  PROVE  Session'
<1>0. /\ srv[s] \in Procs /\ dir[s] \in Dirs /\ tab \in Tabs
      /\ written \in Nat /\ written <= MaxWrites /\ MaxWrites \in Nat
      /\ portFile \in Addresses /\ tokenFile \in Addresses /\ raced \in BOOLEAN
      /\ reload \in BOOLEAN
      /\ srv[s].timers \subseteq dir[s].files /\ srv[s].known \subseteq dir[s].files
      /\ dir[s].files \subseteq 1..written /\ dir[s].newest <= written
      /\ srv[s].phase \notin {"live", "gone"} => ~dir[s].stopped
      /\ srv[s].phase = "live" => dir[s].info /\ ~dir[s].stopped
      /\ srv = [srv EXCEPT ![s] = srv[s]]
      /\ srv \in [Servers -> Procs] /\ dir \in [Servers -> Dirs]
  BY SessionOf, Numbering DEF Session, Shape
<1>1. CASE WriteScreen(s, k)
  <2> DEFINE d == [dir[s] EXCEPT !.files = @ \cup {k}, !.newest = written + 1]
             watched == [srv[s] EXCEPT !.timers = @ \cup {k}]
  <2>1. /\ written' = written + 1 /\ written' \in 0..MaxWrites
        /\ k \in Nat /\ k \in dir[s].files \cup {written + 1}
        /\ UNCHANGED <<wire, clicks, tab, reload, portFile, tokenFile, raced>>
    BY <1>0, <1>1 DEF WriteScreen, Screens
  <2>2. /\ d \in Dirs /\ d.files = dir[s].files \cup {k} /\ d.newest = written + 1
        /\ d.events = dir[s].events /\ d.info = dir[s].info
        /\ d.stopped = dir[s].stopped
    <3>1. dir[s].files \cup {k} \in SUBSET Nat /\ written + 1 \in Nat
      BY <1>0, <2>1 DEF Dirs
    <3> DEFINE files == dir[s].files \cup {k}
    <3>2. d = [dir[s] EXCEPT !.files = files, !.newest = written + 1]
      OBVIOUS
    <3> HIDE DEF d, files
    <3>3. files \in SUBSET Nat
      BY <3>1 DEF files
    <3>4. /\ d \in Dirs /\ d.files = files /\ d.newest = written + 1
          /\ d.events = dir[s].events /\ d.info = dir[s].info
          /\ d.stopped = dir[s].stopped
      BY <1>0, <3>1, <3>2, <3>3 DEF Dirs
    <3> QED
      BY <3>4 DEF files
  <2>3. /\ watched \in Procs /\ watched.timers = srv[s].timers \cup {k}
        /\ watched.known = srv[s].known /\ watched.phase = srv[s].phase
    BY <1>0, <2>1 DEF Procs
  <2>4. dir' = [dir EXCEPT ![s] = d]
    BY <1>0, <1>1 DEF WriteScreen
  <2>5. \/ srv' = [srv EXCEPT ![s] = watched]
        \/ srv' = [srv EXCEPT ![s] = srv[s]]
    BY <1>0, <1>1 DEF WriteScreen, Changed
  <2>6. d.files \subseteq 1..written' /\ d.newest <= written' /\ written <= written'
    BY <1>0, <2>1, <2>2
  <2> HIDE DEF d, watched
  <2>7. PICK new \in Procs : /\ srv' = [srv EXCEPT ![s] = new]
                             /\ new.timers \subseteq d.files
                             /\ new.known \subseteq d.files
                             /\ new.phase = srv[s].phase
    <3>1. CASE srv' = [srv EXCEPT ![s] = watched]
      BY <1>0, <2>2, <2>3, <3>1
    <3>2. CASE srv' = [srv EXCEPT ![s] = srv[s]]
      BY <1>0, <2>2, <3>2
    <3> QED
      BY <2>5, <3>1, <3>2
  <2> QED
    BY <1>0, <2>1, <2>2, <2>4, <2>6, <2>7, ServerStep
<1>2. CASE Announce(s, k)
  <2>1. PICK e \in Seq(Nat) :
          /\ e = IF k \in srv[s].known THEN dir[s].events ELSE <<>>
          /\ e = dir[s].events \/ e = <<>>
    BY <1>0, NothingMade DEF Dirs
  <2>2. PICK x \in Servers \cup {0} : x = IF Connected(s) THEN tab.of ELSE 0
    BY <1>0 DEF Tabs
  <2> DEFINE d   == [dir[s] EXCEPT !.events = e]
             new == [srv[s] EXCEPT !.timers = @ \ {k}, !.known = @ \cup {k}]
  <2>3. /\ k \in srv[s].timers /\ k \in Nat
        /\ UNCHANGED <<wire, clicks, written, portFile, tokenFile, raced>>
        /\ reload' = (reload \/ (Connected(s) /\ Broadcasts(s, k)))
    BY <1>0, <1>2 DEF Announce, Screens
  <2>4. /\ d \in Dirs /\ d.files = dir[s].files /\ d.newest = dir[s].newest
        /\ d.events = e /\ d.info = dir[s].info /\ d.stopped = dir[s].stopped
    BY <1>0 DEF Dirs
  <2>5. /\ new \in Procs /\ new.timers = srv[s].timers \ {k}
        /\ new.known = srv[s].known \cup {k} /\ new.phase = srv[s].phase
    BY <1>0, <2>3 DEF Procs
  <2>6. dir' = [dir EXCEPT ![s] = d] /\ srv' = [srv EXCEPT ![s] = new]
    BY <1>0, <1>2, <2>1 DEF Announce
  <2>7. tab' = [tab EXCEPT !.of = x]
    BY <1>0, <1>2, <2>2 DEF Announce
  <2>8. /\ tab' \in Tabs /\ tab'.state = tab.state /\ tab'.on = tab.on
        /\ tab'.page = tab.page /\ tab'.queue = tab.queue
    BY <1>0, <2>7 DEF Tabs
  <2>9. reload' \in BOOLEAN /\ (reload' => reload \/ tab.state = "open")
    BY <1>0, <2>3 DEF Connected
  <2>10. written \in 0..MaxWrites /\ written <= written
    BY <1>0
  <2> HIDE DEF d, new
  <2>11. /\ new.timers \subseteq d.files /\ new.known \subseteq d.files
         /\ d.files \subseteq 1..written' /\ d.newest <= written'
         /\ d.events = dir[s].events \/ d.events = <<>>
         /\ new.phase \notin {"live", "gone"} => ~d.stopped
         /\ new.phase = "live" => d.info /\ ~d.stopped
    BY <1>0, <2>1, <2>3, <2>4, <2>5
  <2>12. /\ written' \in 0..MaxWrites /\ written <= written'
         /\ portFile' \in Addresses /\ tokenFile' \in Addresses /\ raced' \in BOOLEAN
    BY <1>0, <2>3, <2>10
  <2> QED
    BY <2>3, <2>4, <2>5, <2>6, <2>8, <2>9, <2>11, <2>12, ServerStep
<1> QED
  BY <1>1, <1>2

\* A step of the tab; sessions change at most by what they record.
LEMMA TabStep ==
  ASSUME Session, UNCHANGED <<portFile, tokenFile, srv, written, raced>>,
         dir' \in [Servers -> Dirs],
         \A s \in Servers :
           /\ dir'[s].files = dir[s].files /\ dir'[s].newest = dir[s].newest
           /\ dir'[s].info = dir[s].info /\ dir'[s].stopped = dir[s].stopped,
         tab' \in Tabs, wire' \in Seq(Nat), reload' \in BOOLEAN,
         clicks' \in 0..MaxClicks, tab'.page <= written,
         tab'.state = "open" <=> tab'.on # 0,
         wire' # <<>> \/ reload' => tab'.state = "open",
         tab'.state = "open" => tab'.queue = <<>>,
         \A s \in Servers : /\ Made(dir'[s].events, clicks')
                            /\ Before(dir'[s].events, wire')
                            /\ Before(dir'[s].events, tab'.queue),
         Made(wire', clicks'), Made(tab'.queue, clicks'), Before(wire', tab'.queue),
         \A s, r \in Servers :
           s # r => \A i \in 1..Len(dir'[s].events) : \A j \in 1..Len(dir'[r].events) :
                      dir'[s].events[i] # dir'[r].events[j]
  PROVE  Session'
<1>1. Shape'
  BY DEF Session, Shape
<1>2. Watching'
  BY DEF Session, Watching, Live
<1>3. Flow'
  BY DEF Flow, Made, Before, Increasing
<1> QED
  BY <1>1, <1>2, <1>3 DEF Session

\* What the session has on the tab and the choices.
LEMMA TabOf ==
  ASSUME Session
  PROVE  /\ tab \in Tabs /\ wire \in Seq(Nat) /\ tab.queue \in Seq(Nat)
         /\ reload \in BOOLEAN /\ clicks \in 0..MaxClicks /\ clicks \in Nat
         /\ MaxClicks \in Nat /\ tab.page <= written
         /\ dir \in [Servers -> Dirs]
         /\ \A s \in Servers : /\ dir[s] \in Dirs /\ dir[s].events \in Seq(Nat)
                               /\ dir[s].newest \in Nat /\ dir[s].newest <= written
                               /\ Made(dir[s].events, clicks)
                               /\ Before(dir[s].events, wire)
                               /\ Before(dir[s].events, tab.queue)
         /\ Made(wire, clicks) /\ Made(tab.queue, clicks) /\ Before(wire, tab.queue)
         /\ \A s, r \in Servers :
              s # r => \A i \in 1..Len(dir[s].events) : \A j \in 1..Len(dir[r].events) :
                         dir[s].events[i] # dir[r].events[j]
<1>1. /\ tab \in Tabs /\ wire \in Seq(Nat) /\ reload \in BOOLEAN
      /\ clicks \in 0..MaxClicks /\ MaxClicks \in Nat
      /\ dir \in [Servers -> Dirs]
  BY Numbering DEF Session, Shape
<1>2. tab.queue \in Seq(Nat) /\ clicks \in Nat
  BY <1>1 DEF Tabs
<1>3. \A s \in Servers : /\ dir[s] \in Dirs /\ dir[s].events \in Seq(Nat)
                         /\ dir[s].newest \in Nat
  BY <1>1 DEF Dirs
<1>4. tab.page <= written /\ \A s \in Servers : dir[s].newest <= written
  BY DEF Session, Watching
<1> QED
  BY <1>1, <1>2, <1>3, <1>4 DEF Session, Flow

\* Choices made are clicks.
LEMMA Clicks ==
  ASSUME NEW a \in Seq(Nat), NEW n \in 0..MaxClicks, Made(a, n)
  PROVE  ToSet(a) \subseteq Clicked
<1>1. /\ DOMAIN a = 1..Len(a) /\ \A i \in 1..Len(a) : a[i] \in Nat
      /\ MaxClicks \in Nat
  BY LenProperties, ElementOfSeq, Numbering
<1>2. \A i \in 1..Len(a) : a[i] \in 1..MaxClicks
  BY <1>1 DEF Made
<1> QED
  BY <1>1, <1>2 DEF ToSet, Clicked

\* The page is fetched: the helper starts anew, with nothing to send.
LEMMA Fetches ==
  ASSUME Session
  PROVE  /\ \A s \in Servers : /\ Loaded(s) \in Tabs /\ Loaded(s).queue = <<>>
                               /\ Loaded(s).on = 0 /\ Loaded(s).state = "connecting"
                               /\ Loaded(s).page <= written
         /\ Fetched \in Tabs /\ Fetched.queue = <<>> /\ Fetched.on = 0
         /\ Fetched.state # "open" /\ Fetched.page <= written
<1>1. \A s \in Servers : /\ Loaded(s) \in Tabs /\ Loaded(s).queue = <<>>
                         /\ Loaded(s).on = 0 /\ Loaded(s).state = "connecting"
                         /\ Loaded(s).page <= written
  BY TabOf, NothingMade DEF Loaded, Tabs
<1>2. written \in Nat
  BY DEF Session, Shape
<1>3. LET t == [NoTab EXCEPT !.state = "dead"]
      IN  /\ t \in Tabs /\ t.queue = <<>> /\ t.on = 0 /\ t.state # "open"
          /\ t.page <= written
  <2> DEFINE t == [NoTab EXCEPT !.state = "dead"]
  <2>1. <<>> \in Seq(Nat) /\ 0 \in Addresses
    BY NothingMade DEF Addresses
  <2>2. /\ NoTab \in Tabs /\ NoTab.queue = <<>> /\ NoTab.on = 0
        /\ NoTab.page = 0
    BY <2>1 DEF NoTab, Tabs
  <2>3. t \in Tabs /\ t.queue = <<>> /\ t.on = 0 /\ t.state = "dead" /\ t.page = 0
    BY <2>2 DEF Tabs
  <2> HIDE DEF t
  <2>4. t.page <= written
    BY <1>2, <2>3
  <2> QED
    BY <2>3, <2>4 DEF t
<1> QED
  BY <1>1, <1>3 DEF Fetched

\* What leaves the wire for session q is recorded there; what leaves it for
\* nowhere is lost.
LEMMA Records ==
  ASSUME Session, UNCHANGED <<portFile, tokenFile, srv, written, raced, clicks>>,
         NEW q \in Servers, NEW got \in Seq(Nat),
         dir' = [dir EXCEPT ![q].events = @ \o got],
         Made(got, clicks), Before(got, wire'), Before(got, tab'.queue),
         \A s \in Servers : Before(dir[s].events, got),
         tab' \in Tabs, wire' \in Seq(Nat), reload' \in BOOLEAN,
         tab'.page <= written, tab'.state = "open" <=> tab'.on # 0,
         wire' # <<>> \/ reload' => tab'.state = "open",
         tab'.state = "open" => tab'.queue = <<>>,
         \A s \in Servers : /\ Before(dir[s].events, wire')
                            /\ Before(dir[s].events, tab'.queue),
         Made(wire', clicks), Made(tab'.queue, clicks), Before(wire', tab'.queue)
  PROVE  Session'
<1>0. /\ dir[q].events \in Seq(Nat) /\ Made(dir[q].events, clicks)
      /\ dir[q] \in Dirs /\ clicks \in Nat /\ clicks \in 0..MaxClicks
      /\ dir \in [Servers -> Dirs] /\ tab'.queue \in Seq(Nat)
  BY TabOf DEF Tabs
<1> DEFINE e == dir[q].events \o got
<1>1. /\ e \in Seq(Nat) /\ Made(e, clicks)
      /\ Before(e, wire') /\ Before(e, tab'.queue)
  BY <1>0, MadeConcat, BeforeConcat
<1>2. \A i \in 1..Len(e) : \/ \E j \in 1..Len(dir[q].events) : e[i] = dir[q].events[j]
                           \/ \E j \in 1..Len(got) : e[i] = got[j]
  BY <1>0, ConcatElement
<1>3. dir' = [dir EXCEPT ![q].events = e]
  OBVIOUS
<1> HIDE DEF e
<1>4. /\ dir' \in [Servers -> Dirs] /\ dir'[q].events = e
      /\ \A s \in Servers :
           /\ dir'[s].files = dir[s].files /\ dir'[s].newest = dir[s].newest
           /\ dir'[s].info = dir[s].info /\ dir'[s].stopped = dir[s].stopped
           /\ s # q => dir'[s].events = dir[s].events
  <2> DEFINE d == [dir[q] EXCEPT !.events = e]
  <2>1. /\ d \in Dirs /\ d.events = e
        /\ d.files = dir[q].files /\ d.newest = dir[q].newest
        /\ d.info = dir[q].info /\ d.stopped = dir[q].stopped
    BY <1>0, <1>1 DEF Dirs
  <2>2. dir' = [dir EXCEPT ![q] = d]
    BY <1>0, <1>3
  <2> HIDE DEF d
  <2> QED
    BY <1>0, <2>1, <2>2
<1>5. \A s \in Servers : /\ Made(dir'[s].events, clicks)
                         /\ Before(dir'[s].events, wire')
                         /\ Before(dir'[s].events, tab'.queue)
  BY <1>1, <1>4, TabOf
<1>6. ASSUME NEW s \in Servers, s # q, NEW i \in 1..Len(e),
             NEW j \in 1..Len(dir[s].events)
      PROVE  e[i] # dir[s].events[j]
  <2>1. CASE \E k \in 1..Len(dir[q].events) : e[i] = dir[q].events[k]
    BY <1>6, <2>1, TabOf
  <2>2. CASE \E k \in 1..Len(got) : e[i] = got[k]
    <3>1. PICK k \in 1..Len(got) : e[i] = got[k]
      BY <2>2
    <3>2. dir[s].events[j] < got[k] /\ dir[s].events[j] \in Nat /\ got[k] \in Nat
      BY TabOf, ElementOfSeq DEF Before
    <3> QED
      BY <3>1, <3>2
  <2> QED
    BY <1>2, <2>1, <2>2
<1>7. ASSUME NEW s \in Servers, NEW r \in Servers, s # r,
             NEW i \in 1..Len(dir'[s].events), NEW j \in 1..Len(dir'[r].events)
      PROVE  dir'[s].events[i] # dir'[r].events[j]
  <2>1. CASE s = q
    <3>1. dir'[s].events = e /\ dir'[r].events = dir[r].events /\ r # q
      BY <1>4, <1>7, <2>1
    <3>2. i \in 1..Len(e) /\ j \in 1..Len(dir[r].events)
      BY <1>7, <3>1
    <3> QED
      BY <1>6, <3>1, <3>2
  <2>2. CASE r = q
    <3>1. dir'[r].events = e /\ dir'[s].events = dir[s].events /\ s # q
      BY <1>4, <1>7, <2>2
    <3>2. j \in 1..Len(e) /\ i \in 1..Len(dir[s].events)
      BY <1>7, <3>1
    <3> QED
      BY <1>6, <3>1, <3>2
  <2>3. CASE s # q /\ r # q
    <3>1. dir'[r].events = dir[r].events /\ dir'[s].events = dir[s].events
      BY <1>4, <2>3
    <3>2. j \in 1..Len(dir[r].events) /\ i \in 1..Len(dir[s].events)
      BY <1>7, <3>1
    <3> QED
      BY <1>7, <3>1, <3>2, TabOf
  <2> QED
    BY <2>1, <2>2, <2>3
<1>8. /\ \A s \in Servers : /\ Made(dir'[s].events, clicks')
                            /\ Before(dir'[s].events, wire')
                            /\ Before(dir'[s].events, tab'.queue)
      /\ Made(wire', clicks') /\ Made(tab'.queue, clicks')
      /\ clicks' \in 0..MaxClicks
  BY <1>0, <1>5
<1> QED
  BY <1>4, <1>7, <1>8, TabStep

\* Steps of the tab that leave the sessions alone.
LEMMA TabSteps ==
  ASSUME Session,
         \/ \E s \in Servers : OpenTab(s) \/ Connect(s)
         \/ Closed \/ Click
  PROVE  Session'
<1>0. /\ tab \in Tabs /\ wire \in Seq(Nat) /\ tab.queue \in Seq(Nat)
      /\ reload \in BOOLEAN /\ clicks \in 0..MaxClicks /\ clicks \in Nat
      /\ MaxClicks \in Nat /\ tab.page <= written
      /\ dir \in [Servers -> Dirs]
      /\ Made(wire, clicks) /\ Made(tab.queue, clicks) /\ Before(wire, tab.queue)
      /\ \A s \in Servers : dir[s].events \in Seq(Nat)
  BY TabOf
<1>1. /\ tab.state = "open" <=> tab.on # 0
      /\ wire # <<>> \/ reload => tab.state = "open"
      /\ tab.state = "open" => tab.queue = <<>>
  BY DEF Session, Watching
\* Nothing clicked: the choices that stay are where they were, or moved on.
<1>2. ASSUME UNCHANGED <<portFile, tokenFile, srv, dir, written, raced, clicks>>,
             tab' \in Tabs, tab'.page <= written,
             tab'.state = "open" <=> tab'.on # 0,
             reload' \in BOOLEAN, wire' # <<>> \/ reload' => tab'.state = "open",
             tab'.state = "open" => tab'.queue = <<>>,
             \/ wire' = <<>> /\ tab'.queue \in {tab.queue, <<>>}
             \/ wire' = tab.queue /\ tab'.queue = <<>>
      PROVE  Session'
  <2>1. /\ wire' \in Seq(Nat) /\ Made(wire', clicks) /\ Made(tab'.queue, clicks)
        /\ Before(wire', tab'.queue)
    BY <1>0, <1>2, NothingMade
  <2>2. \A s \in Servers : /\ Made(dir[s].events, clicks)
                           /\ Before(dir[s].events, wire')
                           /\ Before(dir[s].events, tab'.queue)
    BY <1>2, TabOf, NothingMade
  <2>3. /\ dir' = dir /\ clicks' = clicks /\ dir' \in [Servers -> Dirs]
    BY <1>0, <1>2
  <2>4. /\ \A s \in Servers : /\ Made(dir'[s].events, clicks')
                              /\ Before(dir'[s].events, wire')
                              /\ Before(dir'[s].events, tab'.queue)
        /\ Made(wire', clicks') /\ Made(tab'.queue, clicks')
        /\ clicks' \in 0..MaxClicks
    BY <1>0, <2>1, <2>2, <2>3
  <2>5. ASSUME NEW s \in Servers, NEW r \in Servers, s # r,
               NEW i \in 1..Len(dir'[s].events), NEW j \in 1..Len(dir'[r].events)
        PROVE  dir'[s].events[i] # dir'[r].events[j]
    <3>1. i \in 1..Len(dir[s].events) /\ j \in 1..Len(dir[r].events)
      BY <2>3, <2>5
    <3>2. dir[s].events[i] # dir[r].events[j]
      BY <2>5, <3>1, TabOf
    <3> QED
      BY <2>3, <3>2
  <2> QED
    BY <1>2, <2>1, <2>3, <2>4, <2>5, TabStep
<1>3. ASSUME NEW s \in Servers, OpenTab(s) PROVE Session'
  <2>1. srv[s].port \in Addresses /\ srv[s].token \in Addresses
    BY SessionOf DEF Procs
  <2>2. PICK b \in BOOLEAN : b = ~srv[s].triedFallback
    OBVIOUS
  <2>3. tab' = [Loaded(s) EXCEPT !.port = srv[s].port, !.token = srv[s].token,
                                 !.published = b]
    BY <1>3, <2>2 DEF OpenTab
  <2>4. /\ tab' \in Tabs /\ tab'.page <= written /\ tab'.queue = <<>>
        /\ tab'.on = 0 /\ tab'.state = "connecting"
    BY <2>1, <2>3, Fetches DEF Tabs
  <2>5. /\ tab.state \in {"none", "dead"}
        /\ UNCHANGED <<portFile, tokenFile, srv, dir, wire, reload, written,
                       clicks, raced>>
    BY <1>3 DEF OpenTab
  <2>6. wire = <<>> /\ ~reload
    BY <1>1, <2>5
  <2>7. wire' = <<>> /\ reload' = FALSE
    BY <1>0, <2>5, <2>6
  <2> QED
    BY <1>2, <2>4, <2>5, <2>7
<1>4. ASSUME NEW s \in Servers, Connect(s) PROVE Session'
  <2>1. /\ tab' = [tab EXCEPT !.state = "open", !.on = s, !.queue = <<>>,
                              !.tombstone = FALSE]
        /\ wire' = tab.queue /\ reload' = tab.tombstone
        /\ UNCHANGED <<portFile, tokenFile, srv, dir, written, clicks, raced>>
    BY <1>4 DEF Connect, AfterFlush
  <2>2. /\ tab' \in Tabs /\ tab'.page = tab.page /\ tab'.queue = <<>>
        /\ tab'.on = s /\ tab'.state = "open" /\ tab.tombstone \in BOOLEAN
    BY <1>0, <2>1, NothingMade DEF Tabs
  <2>3. s # 0
    BY Numbering
  <2> QED
    BY <1>0, <1>2, <2>1, <2>2, <2>3
<1>5. CASE Closed
  <2>1. PICK t \in BOOLEAN :
          tab' = [tab EXCEPT !.state = AfterClose(t), !.on = 0, !.tombstone = t,
                             !.of = IF tab.state = "open" /\ (reload \/ ~Live(tab.on))
                                    THEN 0 ELSE @]
    BY <1>0, <1>5 DEF Closed, Tabs
  <2>2. PICK x \in Servers \cup {0} :
          x = IF tab.state = "open" /\ (reload \/ ~Live(tab.on)) THEN 0 ELSE tab.of
    BY <1>0 DEF Tabs
  <2>3. tab' = [tab EXCEPT !.state = "waiting", !.on = 0, !.tombstone = t, !.of = x]
    BY <2>1, <2>2 DEF AfterClose
  <2>4. /\ tab' \in Tabs /\ tab'.page = tab.page /\ tab'.queue = tab.queue
        /\ tab'.on = 0 /\ tab'.state = "waiting"
    BY <1>0, <2>3 DEF Tabs
  <2>5. /\ wire' = <<>> /\ reload' = FALSE
        /\ UNCHANGED <<portFile, tokenFile, srv, dir, written, clicks, raced>>
    BY <1>5 DEF Closed
  <2> QED
    BY <1>0, <1>2, <2>4, <2>5
<1>6. CASE Click
  <2>1. /\ clicks' = clicks + 1 /\ clicks' \in 0..MaxClicks
        /\ UNCHANGED <<portFile, tokenFile, srv, dir, reload, written, raced>>
    BY <1>0, <1>6 DEF Click
  <2>2. \/ /\ tab.state = "open" /\ wire' = Append(wire, clicks + 1) /\ tab' = tab
        \/ /\ tab.state # "open" /\ wire' = wire
           /\ tab' = [tab EXCEPT !.queue = Append(@, clicks + 1)]
    BY <1>6, <2>1 DEF Click
  <2>3. \A a \in Seq(Nat) : Made(a, clicks) =>
          /\ Append(a, clicks + 1) \in Seq(Nat)
          /\ Made(Append(a, clicks + 1), clicks + 1) /\ Made(a, clicks + 1)
          /\ \A b \in Seq(Nat) :
               Made(b, clicks) /\ Before(b, a) => Before(b, Append(a, clicks + 1))
    BY <1>0, MadeAppend
  <2>4. \A s \in Servers : Made(dir[s].events, clicks + 1)
    BY <2>3, TabOf
  <2>5. PICK w \in Seq(Nat), queue \in Seq(Nat) :
          /\ wire' = w /\ tab' = [tab EXCEPT !.queue = queue]
          /\ Made(w, clicks + 1) /\ Made(queue, clicks + 1) /\ Before(w, queue)
          /\ \A s \in Servers : Before(dir[s].events, w) /\ Before(dir[s].events, queue)
          /\ w # <<>> => tab.state = "open"
          /\ tab.state = "open" => queue = <<>>
    <3>1. CASE tab.state = "open"
      <4>1. /\ wire' = Append(wire, clicks + 1)
            /\ tab' = [tab EXCEPT !.queue = <<>>]
        BY <1>0, <1>1, <2>2, <3>1 DEF Tabs
      <4>2. \A s \in Servers : Before(dir[s].events, Append(wire, clicks + 1))
        BY <1>0, <2>3, TabOf
      <4> QED
        BY <1>0, <2>3, <3>1, <4>1, <4>2, NothingMade
    <3>2. CASE tab.state # "open"
      <4>1. /\ wire' = <<>>
            /\ tab' = [tab EXCEPT !.queue = Append(tab.queue, clicks + 1)]
        BY <1>1, <2>2, <3>2
      <4>2. \A s \in Servers : Before(dir[s].events, Append(tab.queue, clicks + 1))
        BY <1>0, <2>3, TabOf
      <4> QED
        BY <1>0, <2>3, <3>2, <4>1, <4>2, NothingMade
    <3> QED
      BY <3>1, <3>2
  <2>6. /\ tab' \in Tabs /\ tab'.page = tab.page /\ tab'.queue = queue
        /\ tab'.on = tab.on /\ tab'.state = tab.state
    BY <1>0, <2>5 DEF Tabs
  <2>7. dir' = dir /\ dir' \in [Servers -> Dirs] /\ reload' = reload
    BY <1>0, <2>1
  <2>8. ASSUME NEW s \in Servers, NEW r \in Servers, s # r,
               NEW i \in 1..Len(dir'[s].events), NEW j \in 1..Len(dir'[r].events)
        PROVE  dir'[s].events[i] # dir'[r].events[j]
    <3>1. i \in 1..Len(dir[s].events) /\ j \in 1..Len(dir[r].events)
      BY <2>7, <2>8
    <3>2. dir[s].events[i] # dir[r].events[j]
      BY <2>8, <3>1, TabOf
    <3> QED
      BY <2>7, <3>2
  <2>9. /\ \A s \in Servers : /\ Made(dir'[s].events, clicks')
                              /\ Before(dir'[s].events, wire')
                              /\ Before(dir'[s].events, tab'.queue)
        /\ Made(wire', clicks') /\ Made(tab'.queue, clicks')
        /\ Before(wire', tab'.queue)
    BY <2>1, <2>4, <2>5, <2>6, <2>7
  <2>10. /\ tab'.page <= written
         /\ tab'.state = "open" <=> tab'.on # 0
         /\ wire' # <<>> \/ reload' => tab'.state = "open"
         /\ tab'.state = "open" => tab'.queue = <<>>
         /\ reload' \in BOOLEAN /\ wire' \in Seq(Nat)
    BY <1>0, <1>1, <2>5, <2>6, <2>7
  <2> QED
    BY <2>1, <2>6, <2>7, <2>8, <2>9, <2>10, TabStep
<1> QED
  BY <1>3, <1>4, <1>5, <1>6

\* The server records a choice, and the tab reloads, its choices recorded or
\* lost.
LEMMA RecordSteps ==
  ASSUME Session, Receive \/ Reload PROVE Session'
<1>0. /\ tab \in Tabs /\ wire \in Seq(Nat) /\ tab.queue \in Seq(Nat)
      /\ reload \in BOOLEAN /\ clicks \in Nat /\ tab.page <= written
      /\ dir \in [Servers -> Dirs]
      /\ Made(wire, clicks) /\ Made(tab.queue, clicks) /\ Before(wire, tab.queue)
      /\ \A s \in Servers : /\ dir[s].events \in Seq(Nat)
                            /\ Before(dir[s].events, wire)
                            /\ Before(dir[s].events, tab.queue)
  BY TabOf
<1>1. /\ tab.state = "open" <=> tab.on # 0
      /\ wire # <<>> \/ reload => tab.state = "open"
      /\ tab.state = "open" => tab.queue = <<>>
      /\ tab.on \in Servers \cup {0}
  BY <1>0 DEF Session, Watching, Tabs
<1>2. CASE Receive
  <2>1. /\ tab.state = "open" /\ tab.on \in Servers /\ wire # <<>>
        /\ dir' = [dir EXCEPT ![tab.on].events = Append(@, Head(wire))]
        /\ wire' = Tail(wire)
        /\ UNCHANGED <<portFile, tokenFile, srv, tab, reload, written, clicks,
                       raced>>
    BY <1>1, <1>2 DEF Receive
  <2>2. /\ <<Head(wire)>> \in Seq(Nat) /\ Tail(wire) \in Seq(Nat)
        /\ Made(<<Head(wire)>>, clicks) /\ Made(Tail(wire), clicks)
        /\ Before(<<Head(wire)>>, Tail(wire))
        /\ Before(<<Head(wire)>>, tab.queue) /\ Before(Tail(wire), tab.queue)
        /\ \A s \in Servers : /\ Before(dir[s].events, <<Head(wire)>>)
                              /\ Before(dir[s].events, Tail(wire))
    BY <1>0, <2>1, HeadFirst
  <2>3. Append(dir[tab.on].events, Head(wire)) = dir[tab.on].events \o <<Head(wire)>>
    <3>1. Head(wire) \in Nat
      BY <1>0, <2>1, HeadTailProperties
    <3>2. dir[tab.on].events \in Seq(Nat)
      BY <1>0, <2>1
    <3> QED BY <3>1, <3>2, AppendIsConcat
  <2>4. dir' = [dir EXCEPT ![tab.on].events = @ \o <<Head(wire)>>]
    BY <1>0, <2>1, <2>3
  <2>5. PICK got \in Seq(Nat) : got = <<Head(wire)>>
    BY <2>2
  <2>6. PICK q \in Servers : q = tab.on
    BY <2>1
  <2>7. /\ dir' = [dir EXCEPT ![q].events = @ \o got]
        /\ Made(got, clicks) /\ Before(got, wire') /\ Before(got, tab'.queue)
        /\ \A s \in Servers : Before(dir[s].events, got)
    BY <2>1, <2>2, <2>4, <2>5, <2>6
  <2>8. /\ tab' \in Tabs /\ wire' \in Seq(Nat) /\ reload' \in BOOLEAN
        /\ tab'.page <= written
        /\ tab'.state = "open" <=> tab'.on # 0
        /\ wire' # <<>> \/ reload' => tab'.state = "open"
        /\ tab'.state = "open" => tab'.queue = <<>>
        /\ \A s \in Servers : /\ Before(dir[s].events, wire')
                              /\ Before(dir[s].events, tab'.queue)
        /\ Made(wire', clicks) /\ Made(tab'.queue, clicks)
        /\ Before(wire', tab'.queue)
    BY <1>0, <1>1, <2>1, <2>2
  <2> QED
    BY <2>1, <2>7, <2>8, Records
<1>3. CASE Reload
  <2>1. PICK got \in {<<>>} \cup {wire} :
          dir' = [dir EXCEPT ![tab.on].events = @ \o got]
    BY <1>3 DEF Reload
  <2>2. /\ tab.state = "open" /\ tab.on \in Servers
        /\ tab' = Fetched /\ wire' = <<>> /\ reload' = FALSE
        /\ UNCHANGED <<portFile, tokenFile, srv, written, clicks, raced>>
    BY <1>1, <1>3 DEF Reload
  <2>3. /\ tab' \in Tabs /\ tab'.queue = <<>> /\ tab'.on = 0
        /\ tab'.state # "open" /\ tab'.page <= written
    BY <2>2, Fetches
  <2>4. PICK q \in Servers : q = tab.on
    BY <2>2
  <2>5. got \in Seq(Nat)
    BY <1>0, <2>1, NothingMade
  <2>6. /\ dir' = [dir EXCEPT ![q].events = @ \o got]
        /\ Made(got, clicks) /\ Before(got, wire') /\ Before(got, tab'.queue)
        /\ \A s \in Servers : Before(dir[s].events, got)
    BY <1>0, <2>1, <2>2, <2>3, <2>4, NothingMade
  <2>7. /\ wire' \in Seq(Nat) /\ reload' \in BOOLEAN
        /\ tab'.state = "open" <=> tab'.on # 0
        /\ wire' # <<>> \/ reload' => tab'.state = "open"
        /\ tab'.state = "open" => tab'.queue = <<>>
        /\ \A s \in Servers : /\ Before(dir[s].events, wire')
                              /\ Before(dir[s].events, tab'.queue)
        /\ Made(wire', clicks) /\ Made(tab'.queue, clicks)
        /\ Before(wire', tab'.queue)
    BY <2>2, <2>3, NothingMade
  <2> QED
    BY <2>2, <2>3, <2>5, <2>6, <2>7, Records
<1> QED
  BY <1>2, <1>3

\* No session yet, no tab, no choice.
LEMMA InitSession == Init => Session
<1> SUFFICES ASSUME Init PROVE Session
  OBVIOUS
<1>1. /\ \A s \in Servers : srv[s] = Off /\ dir[s] = EmptyDir
      /\ srv = [s \in Servers |-> Off] /\ dir = [s \in Servers |-> EmptyDir]
      /\ tab = NoTab /\ wire = <<>> /\ reload = FALSE /\ raced = FALSE
      /\ written = 0 /\ clicks = 0 /\ portFile = 0 /\ tokenFile = 0
  BY DEF Init
<1>2. 0 \in Addresses /\ <<>> \in Seq(Nat)
  BY NothingMade DEF Addresses
<1>3. /\ Off \in Procs /\ Off.timers = {} /\ Off.known = {} /\ Off.phase = "off"
      /\ EmptyDir \in Dirs /\ EmptyDir.files = {} /\ EmptyDir.newest = 0
      /\ EmptyDir.events = <<>> /\ ~EmptyDir.stopped
      /\ NoTab \in Tabs /\ NoTab.page = 0 /\ NoTab.on = 0 /\ NoTab.state = "none"
      /\ NoTab.queue = <<>>
  BY <1>2 DEF Off, Procs, Phases, EmptyDir, Dirs, NoTab, Tabs
<1>4. Shape
  <2>1. srv \in [Servers -> Procs] /\ dir \in [Servers -> Dirs]
    BY <1>1, <1>3
  <2>2. written \in 0..MaxWrites /\ clicks \in 0..MaxClicks
    BY <1>1, Numbering
  <2> QED
    BY <1>1, <1>2, <1>3, <2>1, <2>2 DEF Shape
<1>5. Watching
  BY <1>1, <1>3 DEF Watching, Live
<1>6. Flow
  <2>1. \A s \in Servers : dir[s].events = <<>>
    BY <1>1, <1>3
  <2>2. wire = <<>> /\ tab.queue = <<>>
    BY <1>1, <1>3
  <2> QED
    BY <2>1, <2>2, NothingMade DEF Flow
<1> QED
  BY <1>4, <1>5, <1>6 DEF Session

\* Every step keeps sessions, servers and tab together.
LEMMA StepSession == Session /\ [Next]_vars => Session'
<1> SUFFICES ASSUME Session, [Next]_vars PROVE Session'
  OBVIOUS
<1>1. CASE UNCHANGED vars
  <2>1. Shape'
    BY <1>1 DEF vars, Session, Shape
  <2>2. Watching'
    BY <1>1 DEF vars, Session, Watching, Live
  <2>3. Flow'
    BY <1>1 DEF vars, Session, Flow, Made, Before, Increasing
  <2> QED
    BY <2>1, <2>2, <2>3 DEF Session
<1>2. ASSUME NEW s \in Servers,
             \/ Launch(s) \/ ReadToken(s) \/ Bind(s) \/ AddressInUse(s)
             \/ PublishPort(s) \/ Started(s)
             \/ Shutdown(s) \/ Stop(s) \/ Killed(s)
      PROVE  Session'
  BY <1>2, ServerSteps
<1>3. ASSUME NEW s \in Servers, NEW k \in Screens,
             WriteScreen(s, k) \/ Announce(s, k)
      PROVE  Session'
  BY <1>3, ScreenSteps
<1>4. ASSUME \/ \E s \in Servers : OpenTab(s) \/ Connect(s)
             \/ Closed \/ Click
      PROVE  Session'
  BY <1>4, TabSteps
<1>5. ASSUME Receive \/ Reload PROVE Session'
  BY <1>5, RecordSteps
<1> QED
  BY <1>1, <1>2, <1>3, <1>4, <1>5
     DEF Next, ServerLoop, TabLoop, Receives, Disconnect, Breaks

\* Sessions, servers and tab fit together, and choices never overtake.
THEOREM SessionInductive == Spec => []Session
<1> QED
  BY InitSession, StepSession, PTL DEF Spec

\* TypeOK in every reachable state, with any number of launches, rivals,
\* screens and clicks: a server that lives has said so and nothing says it
\* stopped (stop-server.sh, shutdown).
THEOREM TypeCorrect == Spec => []TypeOK
<1>1. ASSUME IInv, Session PROVE TypeOK
  <2>1. ASSUME NEW s \in Servers
        PROVE  /\ srv[s].phase \in {"off", "loading", "binding", "port",
                                    "listening", "live", "gone"}
               /\ {srv[s].port, srv[s].token} \subseteq Numbers \cup {0}
               /\ {srv[s].triedFallback, srv[s].blind} \subseteq BOOLEAN
               /\ srv[s].timers \cup srv[s].known \subseteq dir[s].files
               /\ dir[s].files \subseteq 1..written /\ dir[s].newest \in 0..written
               /\ ToSet(dir[s].events) \subseteq Clicked
               /\ Live(s) => dir[s].info /\ ~dir[s].stopped
    <3>1. /\ srv[s] \in Procs /\ dir[s] \in Dirs /\ written \in Nat
          /\ srv[s].timers \cup srv[s].known \subseteq dir[s].files
          /\ dir[s].files \subseteq 1..written /\ dir[s].newest <= written
          /\ Live(s) => dir[s].info /\ ~dir[s].stopped
      BY <1>1, SessionOf DEF Live
    <3>2. /\ srv[s].phase \in {"off", "loading", "binding", "port",
                               "listening", "live", "gone"}
          /\ {srv[s].port, srv[s].token} \subseteq Numbers \cup {0}
          /\ {srv[s].triedFallback, srv[s].blind} \subseteq BOOLEAN
      BY <3>1 DEF Procs, Phases, Addresses
    <3>3. dir[s].newest \in 0..written
      BY <3>1 DEF Dirs
    <3>4. ToSet(dir[s].events) \subseteq Clicked
      BY <1>1, TabOf, Clicks
    <3> QED
      BY <3>1, <3>2, <3>3, <3>4
  <2>2. /\ {portFile, tokenFile} \subseteq Numbers \cup {0} /\ raced \in BOOLEAN
        /\ tab \in Tabs /\ written \in 0..MaxWrites /\ clicks \in 0..MaxClicks
    BY <1>1 DEF Session, Shape, Addresses
  <2>3. /\ tab.state \in {"none", "dead", "connecting", "waiting", "open"}
        /\ {tab.port, tab.token} \subseteq Numbers \cup {0}
        /\ tab.of \in Servers \cup {0}
    BY <2>2 DEF Tabs, Addresses
  <2>4. tab.page \in 0..written
    BY <1>1, <2>2 DEF Session, Watching, Tabs
  <2>5. /\ tab.state = "open" <=> tab.on # 0
        /\ wire # <<>> \/ reload => tab.state = "open"
    BY <1>1 DEF Session, Watching
  <2>6. ToSet(tab.queue) \cup ToSet(wire) \subseteq Clicked
    BY <1>1, TabOf, Clicks
  <2> QED
    BY <2>1, <2>2, <2>3, <2>4, <2>5, <2>6 DEF TypeOK
<1> QED
  BY <1>1, InitInv, StepInv, InitSession, StepSession, PTL DEF Spec

\* A choice is recorded at most once, and in the order it was made, over lost
\* connections, the queue, reloads and restarts, however many there are
\* (sendEvent, onopen, handleMessage).
THEOREM ChoicesKeepOrder == Spec => []ChoicesOnceInOrder
<1>1. ASSUME Session PROVE ChoicesOnceInOrder
  <2>0. /\ wire \in Seq(Nat) /\ tab.queue \in Seq(Nat) /\ clicks \in Nat
        /\ Made(wire, clicks) /\ Made(tab.queue, clicks) /\ Before(wire, tab.queue)
        /\ \A s \in Servers : /\ dir[s].events \in Seq(Nat)
                              /\ Made(dir[s].events, clicks)
                              /\ Before(dir[s].events, wire)
                              /\ Before(dir[s].events, tab.queue)
    BY <1>1, TabOf
  <2>1. ASSUME NEW s \in Servers PROVE Increasing(Path(s))
    <3>1. PICK w \in Seq(Nat) : /\ w = IF tab.on = s THEN wire ELSE <<>>
                                /\ Made(w, clicks) /\ Before(w, tab.queue)
                                /\ Before(dir[s].events, w)
      BY <2>0, NothingMade
    <3>2. /\ dir[s].events \o w \in Seq(Nat) /\ Made(dir[s].events \o w, clicks)
          /\ Before(dir[s].events \o w, tab.queue)
      BY <2>0, <3>1, MadeConcat, BeforeConcat
    <3>3. Made((dir[s].events \o w) \o tab.queue, clicks)
      BY <2>0, <3>2, MadeConcat
    <3>4. Path(s) = (dir[s].events \o w) \o tab.queue
      BY <3>1 DEF Path
    <3> QED
      BY <3>3, <3>4 DEF Made
  <2>2. ASSUME NEW s \in Servers, NEW r \in Servers, s # r
        PROVE  ToSet(dir[s].events) \cap ToSet(dir[r].events) = {}
    <3>1. /\ DOMAIN dir[s].events = 1..Len(dir[s].events)
          /\ DOMAIN dir[r].events = 1..Len(dir[r].events)
      BY <2>0, LenProperties
    <3> QED
      BY <1>1, <2>2, <3>1, TabOf DEF ToSet
  <2> QED
    BY <2>1, <2>2 DEF ChoicesOnceInOrder
<1> QED
  BY <1>1, SessionInductive, PTL
=============================================================================
