----------------------------- MODULE Companion -----------------------------
(***************************************************************************)
(* The visual companion of the brainstorming skill: the server processes   *)
(* that start-server.sh launches for one project, the port and token files *)
(* they share, their session directories, and one browser tab running      *)
(* helper.js.                                                              *)
(*                                                                         *)
(* Every launch makes a session directory of its own; what is shared is    *)
(* the pair of files .last-port and .last-token, through which a restarted *)
(* server takes the address of its predecessor so that an open tab finds   *)
(* it again.  A step is one synchronous stretch of a process; the two      *)
(* files are read and written by separate steps, since other servers of    *)
(* the project may start in between.                                       *)
(*                                                                         *)
(* Launch s draws the port and token s, and Fallback(s) when it falls back.*)
(* BRAINSTORM_PORT and BRAINSTORM_TOKEN are unset, as start-server.sh      *)
(* leaves them.                                                            *)
(***************************************************************************)
EXTENDS Naturals, Sequences, SequencesExt

CONSTANTS
  NLaunches,    \* bound: number of launches of start-server.sh
  Rivals,       \* launches by another agent, which knows nothing of ours
  MaxWrites,    \* bound: screens the agent writes, new files and changed ones
  MaxClicks     \* bound: clicks on a choice

ASSUME CompanionAssumption ==
  /\ {NLaunches, MaxWrites, MaxClicks} \subseteq Nat
  /\ Rivals \subseteq 1..NLaunches

VARIABLES
  portFile,   \* .last-port, or 0
  tokenFile,  \* .last-token, or 0
  srv,        \* each launch: its process
  dir,        \* each launch: its session directory
  tab,        \* the browser tab; .of is a ghost: the session its page is of,
              \* or 0 once the tab missed an announcement
  wire,       \* the choices sent on the tab's socket and not yet handled
  reload,     \* whether a reload message is under way to the tab
  written,    \* number of writes of a screen
  clicks,     \* number of clicks
  raced       \* ghost: a launch that saw no recorded address replaced one,
              \* or an address could not be recorded

vars == <<portFile, tokenFile, srv, dir, tab, wire, reload, written, clicks,
          raced>>

Screens == 1..MaxWrites   \* a file is the number of its first write
Clicked == 1..MaxClicks   \* a choice is the number of its click
Servers == 1..NLaunches   \* the launches, in order
Fallback(s) == NLaunches + s
Numbers == 1..(2 * NLaunches)   \* ports, and tokens

Off == [phase |-> "off", port |-> 0, token |-> 0, triedFallback |-> FALSE,
        blind |-> FALSE, known |-> {}, timers |-> {}]
Gone == [Off EXCEPT !.phase = "gone"]
EmptyDir == [info |-> FALSE, stopped |-> FALSE, files |-> {}, newest |-> 0,
             events |-> <<>>]
NoTab == [state |-> "none", port |-> 0, token |-> 0, on |-> 0, page |-> 0,
          queue |-> <<>>, tombstone |-> FALSE, of |-> 0,
          published |-> FALSE]

Live(s) == srv[s].phase = "live"

\* The server has bound its port and not yet gone.
Bound(s) == srv[s].phase \in {"port", "listening", "live"}

\* Another server of the project listens on p.
PortTaken(p) == \E s \in Servers : Bound(s) /\ srv[s].port = p

\* What the guide has the agent check before it uses a session.
SeemsAlive(s) == dir[s].info /\ ~dir[s].stopped

Init ==
  /\ portFile = 0 /\ tokenFile = 0
  /\ srv = [s \in Servers |-> Off]
  /\ dir = [s \in Servers |-> EmptyDir]
  /\ tab = NoTab /\ wire = <<>> /\ reload = FALSE
  /\ written = 0 /\ clicks = 0 /\ raced = FALSE

-----------------------------------------------------------------------------
(* Starting a server.                                                      *)

\* Our agent launches only when none of its sessions seems alive.
MayLaunch(s) ==
  /\ \A r \in 1..(s - 1) : srv[r].phase # "off"
  /\ s \in Rivals \/ \A r \in Servers \ Rivals : ~SeemsAlive(r)

PreferredPort(s) == IF portFile # 0 THEN portFile ELSE s

\* start-server.sh up to the spawn, and the load of server.cjs up to PORT.
Launch(s) ==
  /\ srv[s].phase = "off" /\ MayLaunch(s)
  /\ srv' = [srv EXCEPT ![s].phase = "loading",
               ![s].port = PreferredPort(s),
               ![s].blind = portFile = 0]
  /\ UNCHANGED <<portFile, tokenFile, dir, tab, wire, reload, written, clicks,
                 raced>>

\* initialToken.
ReadToken(s) ==
  /\ srv[s].phase = "loading"
  /\ srv' = [srv EXCEPT ![s].phase = "binding",
               ![s].token = IF tokenFile # 0 THEN tokenFile ELSE s,
               ![s].blind = @ \/ tokenFile = 0]
  /\ UNCHANGED <<portFile, tokenFile, dir, tab, wire, reload, written, clicks,
                 raced>>

\* Fault: a fallback publishes its address like any other start.
PublishAlways(s) == TRUE

\* onListen records the address only of a server that got its first port.
Publishes(s) == ~srv[s].triedFallback

Bind(s) ==
  /\ srv[s].phase = "binding" /\ ~PortTaken(srv[s].port)
  /\ srv' = [srv EXCEPT ![s].phase = IF Publishes(s) THEN "port"
                                       ELSE "listening"]
  /\ UNCHANGED <<portFile, tokenFile, dir, tab, wire, reload, written, clicks,
                 raced>>

\* EADDRINUSE, as a server of the project or any other program listens on the
\* port: a random port once, with a token of its own (s is the one it would
\* have generated, so any other came from the file).  When that one is taken
\* too, and on any other error, the process exits (Killed).
AddressInUse(s) ==
  /\ srv[s].phase = "binding" /\ ~srv[s].triedFallback
  /\ srv' = [srv EXCEPT ![s].triedFallback = TRUE, ![s].port = Fallback(s),
                        ![s].token = IF @ # s THEN Fallback(s) ELSE @]
  /\ UNCHANGED <<portFile, tokenFile, dir, tab, wire, reload, written, clicks,
                 raced>>

\* A write that fails may leave the file empty.
PublishPort(s) ==
  /\ srv[s].phase = "port"
  /\ srv' = [srv EXCEPT ![s].phase = "listening"]
  /\ \/ /\ portFile' = srv[s].port
        /\ raced' = (raced \/ (srv[s].blind /\ portFile # 0))
     \/ portFile' \in {portFile, 0} /\ raced' = TRUE
  /\ UNCHANGED <<tokenFile, dir, tab, wire, reload, written, clicks>>

\* The token file, and server-info, from which on it counts as live.
Started(s) ==
  /\ srv[s].phase = "listening"
  /\ srv' = [srv EXCEPT ![s].phase = "live", ![s].blind = FALSE]
  /\ \/ /\ tokenFile' = IF Publishes(s) THEN srv[s].token ELSE tokenFile
        /\ raced' = (raced \/ (Publishes(s) /\ srv[s].blind /\ tokenFile # 0))
     \/ Publishes(s) /\ tokenFile' \in {tokenFile, 0} /\ raced' = TRUE
  /\ dir' = [dir EXCEPT ![s].info = TRUE]
  /\ UNCHANGED <<portFile, tab, wire, reload, written, clicks>>

-----------------------------------------------------------------------------
(* The end of a server.                                                    *)

\* lifecycleCheck finds the owner dead, or no activity for IDLE_TIMEOUT_MS;
\* when that is so is left open.  Then shutdown.
Shutdown(s) ==
  /\ Live(s)
  /\ srv' = [srv EXCEPT ![s] = Gone]
  /\ dir' = [dir EXCEPT ![s].info = FALSE, ![s].stopped = TRUE]
  /\ UNCHANGED <<portFile, tokenFile, tab, wire, reload, written, clicks,
                 raced>>

\* stop-server.sh: the signal ends the process, which has no handler for it;
\* a pid that is not this session's server is only forgotten.
Stop(s) ==
  /\ srv[s].phase \in {"live", "gone"}
  /\ srv' = [srv EXCEPT ![s] = Gone]
  /\ dir' = [dir EXCEPT ![s].info = FALSE, ![s].stopped = TRUE]
  /\ UNCHANGED <<portFile, tokenFile, tab, wire, reload, written, clicks,
                 raced>>

\* The process is killed, between any two of its steps, or could not bind: its
\* files stay as they are.
Killed(s) ==
  /\ srv[s].phase \notin {"off", "gone"}
  /\ srv' = [srv EXCEPT ![s] = Gone]
  /\ UNCHANGED <<portFile, tokenFile, dir, tab, wire, reload, written, clicks,
                 raced>>

-----------------------------------------------------------------------------
(* Screens.                                                                *)

\* fs.watch, in a server that lives: the file's debounce timer starts over.
Changed(s, k) ==
  IF Live(s) THEN [srv EXCEPT ![s].timers = @ \cup {k}] ELSE srv

\* The agent writes a new file, or an earlier one again, into a session that
\* seems alive; the last write makes the newest screen (getNewestScreen).
WriteScreen(s, k) ==
  /\ written < MaxWrites /\ SeemsAlive(s)
  /\ k \in dir[s].files \cup {written + 1}
  /\ written' = written + 1
  /\ dir' = [dir EXCEPT ![s].files = @ \cup {k}, ![s].newest = written']
  /\ srv' = Changed(s, k)
  /\ UNCHANGED <<portFile, tokenFile, tab, wire, reload, clicks, raced>>

Connected(s) == tab.state = "open" /\ tab.on = s

\* helper.js runs in the tab.
Runs == tab.state \in {"connecting", "waiting", "open"}

\* Fault: a screen written again is not worth a reload.
BroadcastNewOnly(s, k) == k \notin srv[s].known

\* A new screen and a changed one both make the tabs reload.
Broadcasts(s, k) == TRUE

\* The debounce timer of screen k: the events of the last screen go, and the
\* connected tab is told to reload.  A tab without a socket is not told.
Announce(s, k) ==
  /\ Live(s) /\ k \in srv[s].timers
  /\ dir' = [dir EXCEPT ![s].events = IF k \in srv[s].known THEN @ ELSE <<>>]
  /\ srv' = [srv EXCEPT ![s].timers = @ \ {k}, ![s].known = @ \cup {k}]
  /\ reload' = (reload \/ (Connected(s) /\ Broadcasts(s, k)))
  /\ tab' = [tab EXCEPT !.of = IF Connected(s) THEN @ ELSE 0]
  /\ UNCHANGED <<portFile, tokenFile, wire, written, clicks, raced>>

-----------------------------------------------------------------------------
(* The tab.                                                                *)

\* Fault: the new page goes on with the socket of the old one.
LoadedKeepsSocket(s) ==
  [tab EXCEPT !.state = "connecting", !.page = dir[s].newest]

\* The page as it comes from server s: helper.js starts anew and connects.
Loaded(s) ==
  [tab EXCEPT !.state = "connecting", !.on = 0, !.page = dir[s].newest,
              !.queue = <<>>, !.tombstone = FALSE, !.of = s]

\* The user, or maybeOpenBrowser, opens the URL of server-info.
OpenTab(s) ==
  /\ tab.state \in {"none", "dead"} /\ Live(s)
  /\ tab' = [Loaded(s) EXCEPT !.port = srv[s].port, !.token = srv[s].token,
                              !.published = ~srv[s].triedFallback]
  /\ UNCHANGED <<portFile, tokenFile, srv, dir, wire, reload, written, clicks,
                 raced>>

\* isAuthorized, for the tab's key at the address it knows.
Admits(s) == Live(s) /\ srv[s].port = tab.port /\ srv[s].token = tab.token

\* The page is fetched again from the tab's address.  Without an authorised
\* answer the browser shows an error page, which runs no helper.
Fetched ==
  IF \E s \in Servers : Admits(s)
  THEN Loaded(CHOOSE s \in Servers : Admits(s))
  ELSE [NoTab EXCEPT !.state = "dead"]

\* Fault: the queue is flushed and not emptied.
FlushKeepsQueue == tab.queue

AfterFlush == <<>>

\* onopen: the queued choices go out; a tab that had shown the tombstone
\* loads its page again.
Connect(s) ==
  /\ tab.state \in {"connecting", "waiting"} /\ Admits(s)
  /\ tab' = [tab EXCEPT !.state = "open", !.on = s, !.queue = AfterFlush,
                        !.tombstone = FALSE]
  /\ wire' = tab.queue
  /\ reload' = tab.tombstone
  /\ UNCHANGED <<portFile, tokenFile, srv, dir, written, clicks, raced>>

\* Fault: a tab that shows the tombstone stops trying.
RetryUntilTombstone(tombstone) == IF tombstone THEN "paused" ELSE "waiting"

\* onclose always sets the timer of the next attempt.
AfterClose(tombstone) == "waiting"

\* onclose.  The tombstone comes up once the tab has been disconnected for long.
Closed ==
  /\ \E t \in IF tab.state = "open" THEN {FALSE} ELSE {tab.tombstone, TRUE} :
       tab' = [tab EXCEPT !.state = AfterClose(t), !.on = 0, !.tombstone = t,
                          !.of = IF tab.state = "open" /\ (reload \/ ~Live(tab.on))
                                 THEN 0 ELSE @]
  /\ wire' = <<>>
  /\ reload' = FALSE
  /\ UNCHANGED <<portFile, tokenFile, srv, dir, written, clicks, raced>>

\* ... of an attempt, or of the open socket whose server went.
Disconnect ==
  /\ \/ tab.state \in {"connecting", "waiting"}
        /\ ~\E s \in Servers : Admits(s)
     \/ tab.state = "open" /\ ~Live(tab.on)
  /\ Closed

\* ... of an open socket whose connection breaks.
Breaks == tab.state = "open" /\ Live(tab.on) /\ Closed

\* onmessage, or reloadAfterRecovery.  The choices still on the wire reach
\* the server, or are lost with the page.
Reload ==
  /\ reload /\ tab.state = "open"
  /\ tab' = Fetched
  /\ wire' = <<>>
  /\ \E got \in {<<>>} \cup {wire} :
       /\ got # <<>> => Live(tab.on)
       /\ dir' = [dir EXCEPT ![tab.on].events = @ \o got]
  /\ reload' = FALSE
  /\ UNCHANGED <<portFile, tokenFile, srv, written, clicks, raced>>

\* A click on a choice of the screen shown; the tombstone covers the page.
Click ==
  /\ clicks < MaxClicks /\ Runs /\ tab.page # 0 /\ ~tab.tombstone
  /\ clicks' = clicks + 1
  /\ IF tab.state = "open"
     THEN wire' = Append(wire, clicks') /\ UNCHANGED tab
     ELSE tab' = [tab EXCEPT !.queue = Append(@, clicks')] /\ UNCHANGED wire
  /\ UNCHANGED <<portFile, tokenFile, srv, dir, reload, written, raced>>

\* handleMessage.
Receive ==
  /\ tab.state = "open" /\ Live(tab.on) /\ wire # <<>>
  /\ dir' = [dir EXCEPT ![tab.on].events = Append(@, Head(wire))]
  /\ wire' = Tail(wire)
  /\ UNCHANGED <<portFile, tokenFile, srv, tab, reload, written, clicks,
                 raced>>

Receives(s) == Receive /\ tab.on = s

\* What the event loop of a server does by itself, and that of the tab.
ServerLoop(s) == Receives(s) \/ \E k \in Screens : Announce(s, k)
TabLoop == Disconnect \/ Reload \/ \E s \in Servers : Connect(s)

Next ==
  \/ \E s \in Servers :
       \/ Launch(s) \/ ReadToken(s) \/ Bind(s) \/ AddressInUse(s)
       \/ PublishPort(s) \/ Started(s)
       \/ Shutdown(s) \/ Stop(s) \/ Killed(s)
       \/ \E k \in Screens : WriteScreen(s, k)
       \/ OpenTab(s) \/ ServerLoop(s)
  \/ Click \/ Breaks \/ TabLoop

\* The event loops of a server that lives and of the tab turn.  What the
\* user, the agent and other programs do is never owed, nor is a start.
Fairness == WF_vars(TabLoop) /\ \A s \in Servers : WF_vars(ServerLoop(s))

Spec == Init /\ [][Next]_vars /\ Fairness

-----------------------------------------------------------------------------
(* Properties.                                                             *)

\* Types; and a server that lives has said so in its session and nothing has
\* said that it stopped, so that the agent's check never takes a live server
\* for a dead one.
TypeOK ==
  /\ {portFile, tokenFile} \subseteq Numbers \cup {0}
  /\ \A s \in Servers :
       /\ srv[s].phase \in {"off", "loading", "binding", "port",
                            "listening", "live", "gone"}
       /\ {srv[s].port, srv[s].token} \subseteq Numbers \cup {0}
       /\ {srv[s].triedFallback, srv[s].blind} \subseteq BOOLEAN
       /\ srv[s].timers \cup srv[s].known \subseteq dir[s].files
       /\ dir[s].files \subseteq 1..written /\ dir[s].newest \in 0..written
       /\ ToSet(dir[s].events) \subseteq Clicked
       /\ Live(s) => dir[s].info /\ ~dir[s].stopped
  /\ tab.state \in {"none", "dead", "connecting", "waiting", "open"}
  /\ tab.state = "open" <=> tab.on # 0
  /\ {tab.port, tab.token} \subseteq Numbers \cup {0}
  /\ tab.page \in 0..written /\ tab.of \in Servers \cup {0}
  /\ ToSet(tab.queue) \cup ToSet(wire) \subseteq Clicked
  /\ wire # <<>> \/ reload => tab.state = "open"
  /\ written \in 0..MaxWrites /\ clicks \in 0..MaxClicks
  /\ raced \in BOOLEAN

\* The recorded address is that of the server that published one and still
\* lives, port and token both: a restart will take it and the open tab finds
\* its server again.  A server that had to fall back never replaces it.  The
\* exceptions are a launch that found no address recorded and publishes after
\* another did (onListen, and the two files it writes one after the other), and
\* a file that could not be written.
AddressKept ==
  \A s \in Servers :
    Live(s) /\ ~srv[s].triedFallback /\ ~raced
      => portFile = srv[s].port /\ tokenFile = srv[s].token

Increasing(seq) ==
  \A i, j \in 1..Len(seq) : i < j => seq[i] < seq[j]

\* What the tab and session s hold of the choices made on that tab.
Path(s) ==
  dir[s].events \o (IF tab.on = s THEN wire ELSE <<>>) \o tab.queue

\* A choice is recorded at most once and the choices of a session are
\* recorded in the order they were made, over lost connections, the queue of
\* a disconnected tab, reloads and restarts (sendEvent, onopen and
\* handleMessage): the agent takes the last one for the user's decision.
ChoicesOnceInOrder ==
  /\ \A s \in Servers : Increasing(Path(s))
  /\ \A s, r \in Servers :
       s # r => ToSet(dir[s].events) \cap ToSet(dir[r].events) = {}

\* The tab is connected and its page is not the newest screen.
Behind == tab.state = "open" /\ tab.page # dir[tab.on].newest

\* A connected tab comes to show the screen written last, new file or changed
\* one, as long as its page is of the session it is connected to and no
\* announcement passed it by: none fell into the time between the fetch of
\* the page and its socket, or into an outage (fs.watch, broadcast).
ShowsNewest == (Behind /\ tab.of = tab.on) ~> ~(Behind /\ tab.of = tab.on)

\* A tab opened on a published address is without a server while a server of
\* the project lives that got that address (the two files, read by Launch).
Stranded ==
  /\ tab.state \notin {"none", "dead", "open"} /\ tab.published /\ ~raced
  /\ \E s \in Servers : Live(s) /\ ~srv[s].triedFallback

\* Such a tab reconnects by itself, the tombstone shown or not.  Only a tab
\* that fetched its page while no server was there has no script left to.
Recovers == Stranded ~> ~Stranded
=============================================================================
