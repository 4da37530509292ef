------------------------ MODULE ServerAccessProofs -------------------------
(***************************************************************************)
(* Proofs about ServerAccess for any number of server processes,           *)
(* connections, generations, crashes and inodes.                           *)
(***************************************************************************)
EXTENDS ServerAccess, TLAPS

-----------------------------------------------------------------------------
(* The inductive invariant *)

\* The records of the state.
Process ==
    [step : {"off", "opened", "locked", "loaded", "listening", "up", "stopping",
             "closing", "relay_closed", "closed", "unlocked"},
     fd : Inode \cup {NoFile}, gen : Generation \cup {0}, inbox : Seq(Generation),
     rotations : SUBSET [gen : Generation, closing : SUBSET Conn],
     refusing : BOOLEAN, stop : BOOLEAN]

Connection ==
    [server : Server \cup {Nobody}, listed : BOOLEAN, challenge : Generation \cup {0},
     authenticated : BOOLEAN]

Command ==
    [command : {"none", "rotate", "status", "backup"},
     step : {"none", "asking", "waiting", "unavailable", "offline", "opened",
             "saved", "loaded", "answered", "copied"},
     old : Generation \cup {0}, new : Generation \cup {0}]

Backup ==
    [state : Generation \cup {0}, db : Generation \cup {0},
     records : SUBSET Generation]

Types ==
    /\ server \in [Server -> Process]
    /\ conn \in [Conn -> Connection]
    /\ pidFile \in Inode \cup {NoFile} /\ socket \in Server \cup {Nobody}
    /\ disk \in Generation /\ db \in Generation /\ promised \in Generation
    /\ records \subseteq Generation
    /\ admin \in Command /\ backup \in Backup
    /\ created \in 1..MaxGeneration /\ crashes \in 0..MaxCrashes
    /\ raced \in BOOLEAN /\ overlapped \in BOOLEAN

\* A process that does not serve has no request and no rotation, and one that
\* serves holds a generation.
OnlyServersWork ==
    \A s \in Server :
        /\ server[s].inbox # <<>> \/ server[s].rotations # {} => Rotates(s)
        /\ server[s].step = "loaded" \/ Serving(s) => server[s].gen # 0

\* A connection is open at a process that serves, and authenticates with a challenge
\* only; a rotation waits for connections of its own process.
ConnectionsServed ==
    /\ \A c \in Conn :
          conn[c] # NoConn => conn[c].server \in Server /\ Serving(conn[c].server)
    /\ \A c \in Conn : conn[c].authenticated => conn[c].challenge # 0
    /\ \A s \in Server : \A r \in server[s].rotations : r.closing \subseteq ConnectionsOf(s)

\* No two processes hold a lock on one inode, and as long as nothing raced, the
\* inode a process has open is the one at the path.
LocksExclude ==
    /\ \A s \in Server :
          server[s].fd = NoFile <=> server[s].step \in {"off", "unlocked"}
    /\ \A s, t \in Server :
          Holds(s) /\ Holds(t) /\ server[s].fd = server[t].fd => s = t
    /\ ~raced => \A s \in Server : server[s].fd # NoFile => server[s].fd = pidFile

\* As long as no two rotations overlapped, a challenge is for the generation its
\* server has now, because a rotation ends only when the connections it found are
\* gone, and accepts none meanwhile.
ChallengesAreCurrent ==
    /\ \A c \in Conn :
          conn[c].challenge # 0 => conn[c].challenge = server[conn[c].server].gen
    /\ \A c \in Conn : conn[c] # NoConn => conn[c].listed
    /\ \A s \in Server : \A r \in server[s].rotations :
          /\ server[s].rotations = {r} /\ r.closing = ConnectionsOf(s)
          /\ server[s].refusing

\* What a command has done by the step it is at, and which generations it names.
CommandsProceed ==
    /\ admin.step \in {"waiting", "opened", "saved", "answered"} => admin.command = "rotate"
    /\ admin.step = "copied" => admin.command = "backup"
    /\ admin.step = "loaded" => admin.command = "status"
    /\ admin.step = "asking" => admin.command \in {"rotate", "status"}
    /\ admin.command = "rotate" => admin.new = created
    /\ admin.command = "rotate" \/ admin.step = "loaded" => admin.old # 0
    /\ admin.step = "copied" \/ backup.state # 0 => backup.db # 0

\* Requests are in the order of their generations, and the command that is about
\* to ask has a newer one than all of them.
RequestsInOrder ==
    /\ \A s \in Server : \A i, j \in 1..Len(server[s].inbox) :
          i < j => server[s].inbox[i] < server[s].inbox[j]
    /\ admin.command = "rotate" /\ admin.step = "asking" =>
          /\ disk < admin.new
          /\ \A s \in Server : \A i \in 1..Len(server[s].inbox) :
                server[s].inbox[i] < admin.new

\* What a process s knows of the generation on disk: it has loaded it, the database
\* it serves is bound to its own, no rotation is newer, and what it is asked to
\* rotate to is.  As long as no two rotations overlapped, the generation on disk is
\* that of the rotation under way, or else its own unless a rotation failed.
FollowsDisk(s) ==
    /\ server[s].step = "loaded" => server[s].gen = disk
    /\ Serving(s) =>
          /\ db = server[s].gen
          /\ \A r \in server[s].rotations : r.gen <= disk
          /\ ~overlapped =>
                /\ \A r \in server[s].rotations : r.gen = disk
                /\ server[s].rotations = {} => disk = server[s].gen \/ server[s].stop
    /\ \A i \in 1..Len(server[s].inbox) : disk < server[s].inbox[i]

ServersFollowDisk == \A s \in Server : FollowsDisk(s)

\* The state on disk is never behind: not behind the database, not behind what a
\* command read or wrote, and not behind the database in a backup.  Records are of
\* the generation of their database as long as no two rotations overlapped.
StoreIsConsistent ==
    /\ db <= disk /\ promised <= disk
    /\ admin.command \in {"rotate", "status"} => admin.old <= disk
    /\ admin.step = "saved" => disk = admin.new
    /\ admin.step = "answered" => admin.new <= disk
    /\ admin.step = "copied" => backup.db <= disk
    /\ backup.state # 0 => backup.db <= backup.state
    /\ ~overlapped => records \subseteq {db} /\ backup.records \subseteq {backup.db}

AccessInv ==
    /\ Types
    /\ OnlyServersWork
    /\ ConnectionsServed
    /\ LocksExclude
    /\ CommandsProceed
    /\ RequestsInOrder
    /\ ~overlapped => ChallengesAreCurrent
    /\ ~raced => ServersFollowDisk /\ StoreIsConsistent

-----------------------------------------------------------------------------
(* The constants and the records of processes *)

\* The constants of the model, as the proofs use them.
LEMMA Fresh ==
    /\ NoFile \notin Inode /\ Nobody \notin Server
    /\ MaxGeneration \in Nat /\ 1 <= MaxGeneration /\ MaxCrashes \in Nat
BY AccessAssumption

\* Every record a step makes of a process is one of Process: a change of its step ...
LEMMA ProcessTo ==
    ASSUME NEW p \in Process, NEW step \in {"off", "opened", "locked", "loaded", "listening", "up", "stopping",
             "closing", "relay_closed", "closed", "unlocked"}
    PROVE  [p EXCEPT !.step = step] \in Process
BY DEF Process

\* ... the PID file it opens or gives up ...
LEMMA ProcessFile ==
    ASSUME NEW p \in Process, NEW i \in Inode \cup {NoFile}, NEW step \in {"opened", "unlocked"}
    PROVE  [p EXCEPT !.step = step, !.fd = i] \in Process
BY DEF Process

\* ... its end ...
LEMMA OffType == Off \in Process
BY DEF Process, Off

\* ... no requests ...
LEMMA EmptyInbox == <<>> \in Seq(Generation)
OBVIOUS

\* ... sequences over fewer generations ...
LEMMA SeqGrows ==
    ASSUME NEW S, NEW T, S \subseteq T, NEW q \in Seq(S)
    PROVE  q \in Seq(T)
<1>1. q = [i \in 1..Len(q) |-> q[i]] /\ Len(q) \in Nat
  OBVIOUS
<1>2. \A i \in 1..Len(q) : q[i] \in T
  OBVIOUS
<1> QED  BY <1>1, <1>2

\* ... the stop of its relay ...
LEMMA ProcessStopped ==
    ASSUME NEW p \in Process
    PROVE  RelayClosed(p) \in Process
BY EmptyInbox DEF Process, RelayClosed

\* ... the start of a rotation ...
LEMMA ProcessRotating ==
    ASSUME NEW p \in Process, p.inbox # <<>>, NEW C \in SUBSET Conn
    PROVE  [p EXCEPT !.inbox = Tail(@), !.refusing = TRUE,
                     !.rotations = @ \cup {[gen |-> Head(p.inbox), closing |-> C]}] \in Process
<1>1. Tail(p.inbox) \in Seq(Generation) /\ Head(p.inbox) \in Generation
  <2>1. p.inbox \in Seq(Generation)
    BY DEF Process
  <2> QED  BY <2>1
<1>2. \A q \in Seq(Generation), R \in SUBSET [gen : Generation, closing : SUBSET Conn] :
          [p EXCEPT !.inbox = q, !.refusing = TRUE, !.rotations = R] \in Process
  BY DEF Process
<1>3. p.rotations \cup {[gen |-> Head(p.inbox), closing |-> C]}
        \in SUBSET [gen : Generation, closing : SUBSET Conn]
  <2>1. [gen |-> Head(p.inbox), closing |-> C] \in [gen : Generation, closing : SUBSET Conn]
    BY <1>1
  <2>2. p.rotations \in SUBSET [gen : Generation, closing : SUBSET Conn]
    BY DEF Process
  <2> QED  BY <2>1, <2>2
<1> QED  BY <1>1, <1>2, <1>3

\* ... its end ...
LEMMA ProcessRotated ==
    ASSUME NEW p \in Process, NEW g \in Generation \cup {0}, NEW r, NEW stop \in BOOLEAN
    PROVE  [p EXCEPT !.rotations = @ \ {r}, !.refusing = FALSE, !.gen = g, !.stop = stop]
             \in Process
<1>1. p.rotations \ {r} \in SUBSET [gen : Generation, closing : SUBSET Conn]
  BY DEF Process
<1>2. \A R \in SUBSET [gen : Generation, closing : SUBSET Conn] :
          [p EXCEPT !.rotations = R, !.refusing = FALSE, !.gen = g, !.stop = stop] \in Process
  BY DEF Process
<1> QED  BY <1>1, <1>2

\* ... a connection less to wait for ...
LEMMA ProcessClosing ==
    ASSUME NEW p \in Process, NEW c
    PROVE  [p EXCEPT !.rotations = {[r EXCEPT !.closing = @ \ {c}] : r \in @}] \in Process
<1>1. \A r \in [gen : Generation, closing : SUBSET Conn] :
          [r EXCEPT !.closing = @ \ {c}] \in [gen : Generation, closing : SUBSET Conn]
  OBVIOUS
<1>2. {[r EXCEPT !.closing = @ \ {c}] : r \in p.rotations}
        \in SUBSET [gen : Generation, closing : SUBSET Conn]
  <2>1. p.rotations \in SUBSET [gen : Generation, closing : SUBSET Conn]
    BY DEF Process
  <2>2. \A r \in p.rotations :
            [r EXCEPT !.closing = @ \ {c}] \in [gen : Generation, closing : SUBSET Conn]
    BY <1>1, <2>1
  <2>3. {[r EXCEPT !.closing = @ \ {c}] : r \in p.rotations}
           \subseteq [gen : Generation, closing : SUBSET Conn]
    BY <2>2
  <2> QED  BY <2>3
<1>3. \A R \in SUBSET [gen : Generation, closing : SUBSET Conn] :
          [p EXCEPT !.rotations = R] \in Process
  BY DEF Process
<1> QED  BY <1>2, <1>3

\* What a rotation in progress is.
LEMMA RotationTyped ==
    ASSUME NEW p \in Process, NEW r \in p.rotations
    PROVE  /\ r \in [gen : Generation, closing : SUBSET Conn]
           /\ r.gen \in Generation /\ r.closing \subseteq Conn
<1>1. r \in [gen : Generation, closing : SUBSET Conn]
  <2>1. p.rotations \in SUBSET [gen : Generation, closing : SUBSET Conn]
    BY DEF Process
  <2> QED  BY <2>1
<1> QED  BY <1>1

\* ... and one more request.
LEMMA ProcessAsked ==
    ASSUME NEW p \in Process, NEW g \in Generation
    PROVE  [p EXCEPT !.inbox = Append(@, g)] \in Process
<1>1. Append(p.inbox, g) \in Seq(Generation)
  <2>1. p.inbox \in Seq(Generation)
    BY DEF Process
  <2> QED  BY <2>1
<1>2. \A q \in Seq(Generation) : [p EXCEPT !.inbox = q] \in Process
  BY DEF Process
<1> QED  BY <1>1, <1>2

-----------------------------------------------------------------------------
(* The initial states *)

\* The invariant holds when initialise_server has returned and nothing runs.
LEMMA InitAccess == Init => AccessInv
<1> SUFFICES ASSUME Init PROVE AccessInv
  OBVIOUS
<1> USE Fresh DEF Init, NoConn, NoCommand, NoBackup, Generation
<1>1. Types
  <2>1. server \in [Server -> Process]
    BY OffType
  <2>2. conn \in [Conn -> Connection] /\ admin \in Command /\ backup \in Backup
    BY DEF Connection, Command, Backup
  <2>3. /\ pidFile \in Inode \cup {NoFile} /\ socket \in Server \cup {Nobody}
        /\ disk \in Generation /\ db \in Generation /\ promised \in Generation
        /\ records \subseteq Generation
    OBVIOUS
  <2>4. created \in 1..MaxGeneration /\ crashes \in 0..MaxCrashes
    OBVIOUS
  <2>5. raced \in BOOLEAN /\ overlapped \in BOOLEAN
    OBVIOUS
  <2> QED  BY <2>1, <2>2, <2>3, <2>4, <2>5 DEF Types
<1>2. OnlyServersWork
  BY DEF OnlyServersWork, Off, Serving, Listens
<1>2a. ConnectionsServed
  BY DEF ConnectionsServed, Off
<1>3. LocksExclude
  BY DEF LocksExclude, Holds, Off
<1>4. ChallengesAreCurrent
  BY DEF ChallengesAreCurrent, Off
<1>5. CommandsProceed
  BY DEF CommandsProceed
<1>6. RequestsInOrder
  BY DEF RequestsInOrder, Off
<1>7. ServersFollowDisk
  BY DEF ServersFollowDisk, FollowsDisk, Serving, Listens, Off
<1>8. StoreIsConsistent
  BY DEF StoreIsConsistent
<1> QED  BY <1>1, <1>2, <1>2a, <1>3, <1>4, <1>5, <1>6, <1>7, <1>8 DEF AccessInv

-----------------------------------------------------------------------------
(* Types *)

\* Every step leaves processes that are records of Process.
LEMMA ServersTyped ==
    ASSUME Types, CommandsProceed, Next
    PROVE  server' \in [Server -> Process]
<1> USE Fresh DEF Types
<1>1. ASSUME NEW s \in Server, ServerStep(s) PROVE server' \in [Server -> Process]
  <2>1. CASE OpenPidFile(s)
    <3>1. \A i \in Inode : [server[s] EXCEPT !.step = "opened", !.fd = i] \in Process
      <4>1. server[s] \in Process
        OBVIOUS
      <4> QED  BY <4>1, ProcessFile
    <3>2. PICK i \in Inode : server' = [server EXCEPT ![s].step = "opened", ![s].fd = i]
      BY <2>1 DEF OpenPidFile
    <3>3. server' = [server EXCEPT ![s] = [server[s] EXCEPT !.step = "opened", !.fd = i]]
      BY <3>2
    <3> QED  BY <3>1, <3>3
  <2>2. CASE LockPidFile(s)
    <3>1. \/ server' = [server EXCEPT ![s].step = "locked"]
          \/ server' = [server EXCEPT ![s] = Off]
      BY <2>2 DEF LockPidFile, To
    <3>2. [server[s] EXCEPT !.step = "locked"] \in Process
      BY ProcessTo
    <3> QED  BY <3>1, <3>2, OffType
  <2>3. CASE LoadAccessState(s)
    <3>1. [server[s] EXCEPT !.step = "loaded", !.gen = disk] \in Process
      <4>1. server[s] \in Process
        OBVIOUS
      <4> QED  BY <4>1 DEF Process
    <3> QED  BY <2>3, <3>1 DEF LoadAccessState
  <2>4. CASE StartRelay(s)  BY <2>4, ProcessTo DEF StartRelay, To
  <2>5. CASE StartAdminSocket(s)  BY <2>5, ProcessTo DEF StartAdminSocket, To
  <2>6. CASE CloseRelay(s)  BY <2>6, ProcessStopped DEF CloseRelay
  <2>7. CASE UnlinkSocket(s)  BY <2>7, ProcessTo DEF UnlinkSocket, To
  <2>8. CASE UnlockPidFile(s)
    <3>1. [server[s] EXCEPT !.step = "unlocked", !.fd = NoFile] \in Process
      <4>1. server[s] \in Process
        OBVIOUS
      <4> QED  BY <4>1, ProcessFile
    <3> QED  BY <2>8, <3>1 DEF UnlockPidFile
  <2>9. CASE UnlinkPidFile(s)  BY <2>9, OffType DEF UnlinkPidFile
  <2>10. CASE Crash(s)  BY <2>10, OffType DEF Crash
  <2>11. CASE StopServer(s)  BY <2>11, ProcessTo DEF StopServer, To
  <2>12. CASE CloseListener(s)  BY <2>12, ProcessTo DEF CloseListener, To
  <2> QED  BY <1>1, <2>1, <2>2, <2>3, <2>4, <2>5, <2>6, <2>7, <2>8, <2>9, <2>10, <2>11, <2>12
           DEF ServerStep
<1>2. ASSUME NEW s \in Server, RotationStep(s) PROVE server' \in [Server -> Process]
  <2>1. CASE HandleRotate(s)
    <3> DEFINE C == {c \in ConnectionsOf(s) : conn[c].listed}
    <3>1. C \in SUBSET Conn
      BY DEF ConnectionsOf
    <3>2. /\ server[s] \in Process /\ server[s].inbox # <<>>
          /\ server' = [server EXCEPT ![s] =
                [server[s] EXCEPT !.inbox = Tail(@), !.refusing = TRUE,
                   !.rotations = @ \cup {[gen |-> Head(server[s].inbox), closing |-> C]}]]
      BY <2>1 DEF HandleRotate, Begin
    <3> HIDE DEF C
    <3> QED  BY <3>1, <3>2, ProcessRotating
  <2>2. ASSUME NEW r, NEW g \in Generation \cup {0}, NEW stop \in BOOLEAN, End(s, r, g, stop)
        PROVE  server' \in [Server -> Process]
    <3>1. server' = [server EXCEPT ![s] =
              [server[s] EXCEPT !.rotations = @ \ {r}, !.refusing = FALSE, !.gen = g,
                                !.stop = stop]]
      BY <2>2 DEF End
    <3> QED  BY <3>1, ProcessRotated
  <2>3. CASE FinishRotation(s)
    <3>1. PICK r \in server[s].rotations : End(s, r, r.gen, server[s].stop)
      BY <2>3 DEF FinishRotation
    <3>2. r.gen \in Generation /\ server[s].stop \in BOOLEAN
      <4>1. server[s] \in Process
        OBVIOUS
      <4> QED  BY <4>1 DEF Process
    <3> QED  BY <2>2, <3>1, <3>2
  <2>4. CASE FailRotation(s)
    <3>1. PICK r \in server[s].rotations : End(s, r, server[s].gen, TRUE)
      BY <2>4 DEF FailRotation
    <3>2. server[s].gen \in Generation \cup {0}
      BY DEF Process
    <3> QED  BY <2>2, <3>1, <3>2
  <2> QED  BY <1>2, <2>1, <2>3, <2>4 DEF RotationStep
<1>3. ASSUME NEW c \in Conn, ConnStep(c) PROVE server' \in [Server -> Process]
  <2>1. CASE UNCHANGED server  BY <2>1
  <2>2. CASE Forget(c)
    <3>1. CASE conn[c].server \in Server
      <4> DEFINE s == conn[c].server
      <4>1. server' = [server EXCEPT ![s] =
                [server[s] EXCEPT !.rotations = {[r EXCEPT !.closing = @ \ {c}] : r \in @}]]
        BY <2>2 DEF Forget
      <4>2. server[s] \in Process
        BY <3>1
      <4> HIDE DEF s
      <4> QED  BY <4>1, <4>2, ProcessClosing
    <3>2. CASE conn[c].server \notin Server
      BY <2>2, <3>2 DEF Forget
    <3> QED  BY <3>1, <3>2
  <2> QED  BY <1>3, <2>1, <2>2 DEF ConnStep, Accept, Hello, AccessProof, Post, Disconnect
<1>4. ASSUME AdminStep PROVE server' \in [Server -> Process]
  <2>1. CASE UNCHANGED server  BY <2>1
  <2>2. CASE AdminRequest /\ ~UNCHANGED server
    <3>1. /\ server' = [server EXCEPT ![socket].inbox = Append(@, admin.new)]
          /\ socket \in Server
      BY <2>2 DEF AdminRequest
    <3>2. admin.new \in Generation
      BY <2>2 DEF AdminRequest, CommandsProceed, Generation
    <3> QED  BY <3>1, <3>2, ProcessAsked
  <2> QED  BY <1>4, <2>1, <2>2 DEF AdminStep, RotateAccess, Status, AdminAnswered, AdminTimesOut,
        CheckLock, OfflineOpen, OfflineSave, OfflineBind, OfflineStatus, OfflineCounts,
        AdminStops, BackUpDatabase, BackUpState, Restore
<1> QED  BY <1>1, <1>2, <1>3, <1>4 DEF Next

\* Every step leaves connections that are records of Connection.
LEMMA ConnsTyped ==
    ASSUME Types, ConnectionsServed, Next
    PROVE  conn' \in [Conn -> Connection]
<1> USE Fresh DEF Types
<1>0. /\ NoConn \in Connection
      /\ \A s \in Server : Disconnected(s) \in [Conn -> Connection]
      /\ \A s \in Server : Unlisted(s) \in [Conn -> Connection]
  <2>1. \A c \in Conn : [conn[c] EXCEPT !.listed = FALSE] \in Connection
    BY DEF Connection
  <2> QED  BY <2>1 DEF Disconnected, Unlisted, NoConn, Connection
<1>1. ASSUME NEW s \in Server, ServerStep(s) PROVE conn' \in [Conn -> Connection]
  <2>1. conn' = conn \/ conn' = Disconnected(s)
    BY <1>1 DEF ServerStep, OpenPidFile, LockPidFile, LoadAccessState, StartRelay,
       StartAdminSocket, StopServer, CloseListener, CloseRelay, UnlinkSocket, UnlockPidFile,
       UnlinkPidFile, Crash
  <2> QED  BY <1>0, <2>1
<1>2. ASSUME NEW s \in Server, RotationStep(s) PROVE conn' \in [Conn -> Connection]
  <2>1. conn' = conn \/ conn' = Unlisted(s)
    <3>1. CASE HandleRotate(s)  BY <3>1 DEF HandleRotate
    <3>2. CASE FinishRotation(s)  BY <3>2 DEF FinishRotation, End
    <3>3. CASE FailRotation(s)  BY <3>3 DEF FailRotation, End
    <3> QED  BY <1>2, <3>1, <3>2, <3>3 DEF RotationStep
  <2> QED  BY <1>0, <2>1
<1>3. ASSUME NEW c \in Conn, ConnStep(c) PROVE conn' \in [Conn -> Connection]
  <2>1. CASE Accept(c)
    <3>1. \A s \in Server : [conn[c] EXCEPT !.server = s, !.listed = TRUE] \in Connection
      BY DEF Connection
    <3>2. PICK s \in Server : conn' = [conn EXCEPT ![c].server = s, ![c].listed = TRUE]
      BY <2>1 DEF Accept
    <3>3. conn' = [conn EXCEPT ![c] = [conn[c] EXCEPT !.server = s, !.listed = TRUE]]
      BY <3>2
    <3> QED  BY <3>1, <3>3
  <2>2. CASE Hello(c)
    <3>1. server[conn[c].server].gen \in Generation \cup {0}
      BY <2>2 DEF Hello, ConnectionsServed, Process
    <3>2. \A g \in Generation \cup {0} : [conn[c] EXCEPT !.challenge = g] \in Connection
      BY DEF Connection
    <3> QED  BY <2>2, <3>1, <3>2 DEF Hello
  <2>3. CASE AccessProof(c)
    <3>1. [conn[c] EXCEPT !.authenticated = TRUE] \in Connection
      BY DEF Connection
    <3> QED  BY <1>0, <2>3, <3>1 DEF AccessProof
  <2>4. CASE Post(c) \/ Disconnect(c)  BY <1>0, <2>4 DEF Post, Disconnect
  <2> QED  BY <1>3, <2>1, <2>2, <2>3, <2>4 DEF ConnStep
<1>4. ASSUME AdminStep PROVE conn' \in [Conn -> Connection]
  BY <1>4 DEF AdminStep, RotateAccess, Status, AdminRequest, AdminAnswered, AdminTimesOut,
     CheckLock, OfflineOpen, OfflineSave, OfflineBind, OfflineStatus, OfflineCounts,
     AdminStops, BackUpDatabase, BackUpState, Restore
<1> QED  BY <1>1, <1>2, <1>3, <1>4 DEF Next

\* No step takes a generation back.
LEMMA GenerationsGrow ==
    ASSUME Types, Next
    PROVE  created' >= created /\ created' \in 1..MaxGeneration
<1>1. ASSUME NEW s \in Server, ServerStep(s) \/ RotationStep(s) PROVE created' = created
  BY <1>1 DEF ServerStep, OpenPidFile, LockPidFile, LoadAccessState, StartRelay,
   StartAdminSocket, StopServer, CloseListener, CloseRelay, UnlinkSocket, UnlockPidFile, UnlinkPidFile, Crash,
   RotationStep, HandleRotate, Begin, FinishRotation, FailRotation, End, history
<1>2. ASSUME NEW c \in Conn, ConnStep(c) PROVE created' = created
  BY <1>2 DEF ConnStep, Accept, Hello, AccessProof, Post, Disconnect, history
<1>3. ASSUME AdminStep
      PROVE  created' = created \/ (created' = created + 1 /\ created < MaxGeneration)
  BY <1>3 DEF AdminStep, RotateAccess, Status, AdminRequest, AdminAnswered, AdminTimesOut,
   CheckLock, OfflineOpen, OfflineSave, OfflineBind, OfflineStatus, OfflineCounts,
   AdminStops, BackUpDatabase, BackUpState, Restore, history
<1> QED  BY <1>1, <1>2, <1>3, Fresh DEF Next, Types

\* The generations on disk and in the database, and those of records.
GenerationsTyped ==
    /\ disk \in Generation /\ db \in Generation /\ promised \in Generation
    /\ records \subseteq Generation

\* No step makes a generation that was not created.
LEMMA GenerationsStep ==
    ASSUME Types, CommandsProceed, OnlyServersWork, ConnectionsServed, Next
    PROVE  GenerationsTyped'
<1>1. Generation \subseteq Generation'
  BY GenerationsGrow DEF Generation, Types
<1> DEFINE P == /\ disk' \in Generation /\ db' \in Generation
                /\ records' \subseteq Generation /\ promised' \in Generation
<1> USE DEF Types, store, history
<1>2. ASSUME NEW s \in Server, ServerStep(s) PROVE P
  <2>1. server[s].gen \in Generation \cup {0}
    BY DEF Process
  <2>2. CASE StartRelay(s)
    BY <2>1, <2>2 DEF StartRelay, Bound, OnlyServersWork
  <2>3. CASE ~StartRelay(s)
    BY <1>2, <2>3 DEF ServerStep, OpenPidFile, LockPidFile, LoadAccessState,
     StartAdminSocket, StopServer, CloseListener, CloseRelay, UnlinkSocket, UnlockPidFile, UnlinkPidFile, Crash
  <2> QED  BY <2>2, <2>3
<1>3. ASSUME NEW s \in Server, RotationStep(s) PROVE P
  <2>1. /\ \A r \in server[s].rotations : r.gen \in Generation
        /\ server[s].inbox \in Seq(Generation)
    <3>1. server[s] \in Process
      OBVIOUS
    <3> QED  BY <3>1 DEF Process
  <2>2. server[s].inbox # <<>> => Head(server[s].inbox) \in Generation
    BY <2>1
  <2> QED  BY <1>3, <2>1, <2>2 DEF RotationStep, HandleRotate, Begin, FinishRotation, FailRotation, End, Bound
<1>4. ASSUME NEW c \in Conn, ConnStep(c) PROVE P
  <2>1. conn[c].authenticated => conn[c].challenge \in Generation
    BY DEF ConnectionsServed, Connection
  <2> QED  BY <1>4, <2>1 DEF ConnStep, Accept, Hello, AccessProof, Post, Disconnect
<1>5. ASSUME AdminStep PROVE P
  <2>1. /\ admin.command = "rotate" => admin.new \in Generation /\ admin.old \in Generation
        /\ admin.step = "loaded" => admin.old \in Generation
        /\ backup.state # 0 => backup.state \in Generation /\ backup.db \in Generation
        /\ backup.records \subseteq Generation
    BY DEF CommandsProceed, Command, Backup, Generation
  <2>2. CASE UNCHANGED <<store, promised>>
    BY <2>2
  <2>3. CASE AdminAnswered \/ OfflineOpen \/ OfflineSave \/ OfflineBind \/ OfflineCounts \/ Restore
    BY <2>1, <2>3 DEF AdminAnswered, OfflineOpen, OfflineSave, OfflineBind, OfflineCounts, Restore,
       OnDisk, Bound, CommandsProceed
  <2> QED  BY <1>5, <2>2, <2>3 DEF AdminStep, RotateAccess, Status, AdminRequest, AdminTimesOut,
     CheckLock, OfflineStatus, AdminStops, BackUpDatabase, BackUpState
<1>6. P
  BY <1>2, <1>3, <1>4, <1>5 DEF Next
<1> QED  BY <1>1, <1>6 DEF GenerationsTyped

\* The owner's command and the backup proceed as their types and their order say.
LEMMA CommandStep ==
    ASSUME Types, CommandsProceed, Next
    PROVE  admin' \in Command' /\ backup' \in Backup' /\ CommandsProceed'
<1> DEFINE P == admin' \in Command' /\ backup' \in Backup' /\ CommandsProceed'
<1>1. CASE UNCHANGED <<admin, backup, created>>
  BY <1>1 DEF Types, Command, Backup, Generation, CommandsProceed
<1>2. ASSUME NEW s \in Server, FinishRotation(s) PROVE P
  <2>1. UNCHANGED <<backup, created>>
    BY <1>2 DEF FinishRotation, history
  <2>2. admin' \in Command
    <3>1. [admin EXCEPT !.step = "answered"] \in Command
      BY DEF Types, Command
    <3> QED  BY <1>2, <3>1 DEF FinishRotation, Types
  <2>3. CommandsProceed'
    BY <1>2, <2>1 DEF FinishRotation, CommandsProceed, Types, Command
  <2> QED  BY <2>1, <2>2, <2>3 DEF Types, Command, Backup, Generation
<1>3. ASSUME AdminStep PROVE P
  <2> USE DEF history, store, NoCommand, NoBackup
  <2>1. CASE RotateAccess
    <3>1. admin' \in Command'
      BY <2>1, Fresh DEF RotateAccess, Types, Command, Generation
    <3>2. backup' \in Backup'
      BY <2>1, Fresh DEF RotateAccess, Types, Backup, Generation
    <3>3. CommandsProceed'
      BY <2>1 DEF RotateAccess, CommandsProceed, Types, Generation
    <3> QED  BY <3>1, <3>2, <3>3
  <2>2. ASSUME ~RotateAccess PROVE P
    <3>1. UNCHANGED created
      BY <1>3, <2>2 DEF AdminStep, Status, AdminRequest, AdminAnswered, AdminTimesOut,
         CheckLock, OfflineOpen, OfflineSave, OfflineBind, OfflineStatus, OfflineCounts,
         AdminStops, BackUpDatabase, BackUpState, Restore
    <3>2. admin' \in Command
      <4>1. /\ NoCommand \in Command
            /\ \A step \in {"waiting", "unavailable", "offline", "opened", "saved",
                           "answered"} : [admin EXCEPT !.step = step] \in Command
        BY DEF Types, Command
      <4>2. /\ [NoCommand EXCEPT !.command = "status", !.step = "asking"] \in Command
            /\ [NoCommand EXCEPT !.command = "backup", !.step = "copied"] \in Command
            /\ [admin EXCEPT !.step = "loaded", !.old = disk] \in Command
        BY DEF Types, Command
      <4> HIDE DEF NoCommand
      <4> QED  BY <1>3, <2>2, <4>1, <4>2
          DEF AdminStep, Status, AdminRequest, AdminAnswered, AdminTimesOut,
         CheckLock, OfflineOpen, OfflineSave, OfflineBind, OfflineStatus, OfflineCounts,
         AdminStops, BackUpDatabase, BackUpState, Restore, AdminTo, Types
    <3>3. backup' \in Backup
      <4>1. /\ NoBackup \in Backup /\ [backup EXCEPT !.state = disk] \in Backup
            /\ [state |-> 0, db |-> db, records |-> records] \in Backup
        BY DEF Types, Backup
      <4> HIDE DEF NoBackup
      <4> QED  BY <1>3, <2>2, <4>1
          DEF AdminStep, Status, AdminRequest, AdminAnswered, AdminTimesOut,
         CheckLock, OfflineOpen, OfflineSave, OfflineBind, OfflineStatus, OfflineCounts,
         AdminStops, BackUpDatabase, BackUpState, Restore, AdminTo, Types
    <3>4. CommandsProceed'
      <4>0. /\ admin \in Command /\ backup \in Backup
            /\ created \in Nat \ {0} /\ disk \in 1..created /\ db \in 1..created
        BY DEF Types, Generation
      <4> HIDE DEF Types
      <4> USE <3>1, <4>0 DEF CommandsProceed, Command, Backup, AdminTo
      <4>1. CASE Status  BY <4>1 DEF Status, OnDisk
      <4>2. CASE AdminRequest  BY <4>2 DEF AdminRequest, OnDisk
      <4>3. CASE AdminAnswered  BY <4>3 DEF AdminAnswered, OnDisk
      <4>4. CASE AdminTimesOut  BY <4>4 DEF AdminTimesOut, OnDisk
      <4>5. CASE CheckLock  BY <4>5 DEF CheckLock, OnDisk
      <4>6. CASE OfflineOpen  BY <4>6 DEF OfflineOpen, OnDisk
      <4>7. CASE OfflineSave  BY <4>7 DEF OfflineSave, OnDisk
      <4>8. CASE OfflineBind  BY <4>8 DEF OfflineBind, OnDisk
      <4>9. CASE OfflineStatus  BY <4>9 DEF OfflineStatus, OnDisk
      <4>10. CASE OfflineCounts  BY <4>10 DEF OfflineCounts, OnDisk
      <4>11. CASE AdminStops  BY <4>11 DEF AdminStops, OnDisk
      <4>12. CASE BackUpDatabase  BY <4>12 DEF BackUpDatabase, OnDisk
      <4>13. CASE BackUpState  BY <4>13 DEF BackUpState, OnDisk
      <4>14. CASE Restore  BY <4>14 DEF Restore, OnDisk
      <4> QED  BY <1>3, <2>2, <4>1, <4>2, <4>3, <4>4, <4>5, <4>6, <4>7, <4>8, <4>9, <4>10,
                  <4>11, <4>12, <4>13, <4>14 DEF AdminStep
    <3> QED  BY <3>1, <3>2, <3>3, <3>4 DEF Command, Backup, Generation
  <2> QED  BY <2>1, <2>2
<1>4. ASSUME NEW s \in Server, ServerStep(s) \/ HandleRotate(s) \/ FailRotation(s) PROVE P
  <2>1. UNCHANGED <<admin, backup, created>>
    BY <1>4 DEF ServerStep, OpenPidFile, LockPidFile, LoadAccessState, StartRelay,
     StartAdminSocket, StopServer, CloseListener, CloseRelay, UnlinkSocket, UnlockPidFile, UnlinkPidFile, Crash,
     HandleRotate, FailRotation, history
  <2> QED  BY <1>1, <2>1
<1>5. ASSUME NEW c \in Conn, ConnStep(c) PROVE P
  <2>1. UNCHANGED <<admin, backup, created>>
    BY <1>5 DEF ConnStep, Accept, Hello, AccessProof, Post, Disconnect, history
  <2> QED  BY <1>1, <2>1
<1> QED  BY <1>2, <1>3, <1>4, <1>5 DEF Next, RotationStep

\* The files, the bounds and the flag keep their types.
LEMMA FilesTyped ==
    ASSUME Types, Next
    PROVE  /\ pidFile' \in Inode \cup {NoFile} /\ socket' \in Server \cup {Nobody}
           /\ created' \in 1..MaxGeneration /\ crashes' \in 0..MaxCrashes /\ raced' \in BOOLEAN
<1> USE DEF files, history
<1>1. pidFile' \in Inode \cup {NoFile} /\ socket' \in Server \cup {Nobody}
  <2>1. ASSUME NEW s \in Server, ServerStep(s) \/ RotationStep(s)
        PROVE  pidFile' \in Inode \cup {NoFile} /\ socket' \in Server \cup {Nobody}
    BY <2>1 DEF Types, ServerStep, OpenPidFile, LockPidFile, LoadAccessState, StartRelay,
       StartAdminSocket, StopServer, CloseListener, CloseRelay, UnlinkSocket, UnlockPidFile, UnlinkPidFile, Crash,
       RotationStep, HandleRotate, Begin, FinishRotation, FailRotation, End
  <2>2. ASSUME \/ \E c \in Conn : ConnStep(c)
               \/ AdminStep
        PROVE  UNCHANGED <<pidFile, socket>>
    BY <2>2 DEF ConnStep, Accept, Hello, AccessProof, Post, Disconnect,
       AdminStep, RotateAccess, Status, AdminRequest, AdminAnswered, AdminTimesOut,
       CheckLock, OfflineOpen, OfflineSave, OfflineBind, OfflineStatus, OfflineCounts,
       AdminStops, BackUpDatabase, BackUpState, Restore
  <2> QED  BY <2>1, <2>2 DEF Next, Types
<1>2. crashes' = crashes \/ (crashes < MaxCrashes /\ crashes' = crashes + 1)
  <2>1. ASSUME NEW s \in Server, ServerStep(s) \/ RotationStep(s)
        PROVE  crashes' = crashes \/ (crashes < MaxCrashes /\ crashes' = crashes + 1)
    BY <2>1 DEF ServerStep, OpenPidFile, LockPidFile, LoadAccessState, StartRelay,
       StartAdminSocket, StopServer, CloseListener, CloseRelay, UnlinkSocket, UnlockPidFile, UnlinkPidFile, Crash,
       RotationStep, HandleRotate, Begin, FinishRotation, FailRotation, End
  <2>2. ASSUME NEW c \in Conn, ConnStep(c) PROVE crashes' = crashes
    BY <2>2 DEF ConnStep, Accept, Hello, AccessProof, Post, Disconnect
  <2>3. ASSUME AdminStep PROVE crashes' = crashes
    BY <2>3 DEF AdminStep, RotateAccess, Status, AdminRequest, AdminAnswered, AdminTimesOut,
       CheckLock, OfflineOpen, OfflineSave, OfflineBind, OfflineStatus, OfflineCounts,
       AdminStops, BackUpDatabase, BackUpState, Restore
  <2> QED  BY <2>1, <2>2, <2>3 DEF Next
<1>3. raced' \in BOOLEAN
  <2>1. ASSUME NEW s \in Server, ServerStep(s) \/ RotationStep(s) PROVE raced' \in BOOLEAN
    BY <2>1 DEF Types, ServerStep, OpenPidFile, LockPidFile, LoadAccessState, StartRelay,
       StartAdminSocket, StopServer, CloseListener, CloseRelay, UnlinkSocket, UnlockPidFile, UnlinkPidFile, Crash,
       RotationStep, HandleRotate, Begin, FinishRotation, FailRotation, End
  <2>2. ASSUME NEW c \in Conn, ConnStep(c) PROVE raced' \in BOOLEAN
    BY <2>2 DEF Types, ConnStep, Accept, Hello, AccessProof, Post, Disconnect
  <2>3. ASSUME AdminStep PROVE raced' \in BOOLEAN
    BY <2>3 DEF Types, AdminStep, RotateAccess, Status, AdminRequest, AdminAnswered,
       AdminTimesOut, CheckLock, OnDisk, OfflineOpen, OfflineSave, OfflineBind, OfflineStatus,
       OfflineCounts, AdminStops, BackUpDatabase, BackUpState, Restore
  <2> QED  BY <2>1, <2>2, <2>3 DEF Next
<1>4. crashes' \in 0..MaxCrashes
  BY <1>2, Fresh DEF Types
<1> QED  BY <1>1, <1>3, <1>4, GenerationsGrow

\* An overlap is not forgotten.
LEMMA OverlapTyped ==
    ASSUME Types, Next
    PROVE  overlapped' \in BOOLEAN /\ (overlapped => overlapped')
<1> USE DEF history, Types
<1>1. ASSUME NEW s \in Server, ServerStep(s) PROVE overlapped' = overlapped
  BY <1>1 DEF ServerStep, OpenPidFile, LockPidFile, LoadAccessState, StartRelay,
     StartAdminSocket, StopServer, CloseListener, CloseRelay, UnlinkSocket, UnlockPidFile,
     UnlinkPidFile, Crash
<1>2. ASSUME NEW s \in Server, RotationStep(s)
      PROVE  overlapped' = overlapped \/ overlapped' = (overlapped \/ server[s].rotations # {})
  BY <1>2 DEF RotationStep, HandleRotate, Begin, FinishRotation, FailRotation
<1>3. ASSUME NEW k \in Conn, ConnStep(k) PROVE overlapped' = overlapped
  BY <1>3 DEF ConnStep, Accept, Hello, AccessProof, Post, Disconnect
<1>4. ASSUME AdminStep PROVE overlapped' = overlapped
  BY <1>4 DEF AdminStep, RotateAccess, Status, AdminRequest, AdminAnswered, AdminTimesOut,
     CheckLock, OnDisk, OfflineOpen, OfflineSave, OfflineBind, OfflineStatus, OfflineCounts,
     AdminStops, BackUpDatabase, BackUpState, Restore
<1> QED  BY <1>1, <1>2, <1>3, <1>4 DEF Next

\* The types of all variables, with the generations created by the step.
LEMMA TypesStep == AccessInv /\ Next => Types'
<1> SUFFICES ASSUME AccessInv, Next PROVE Types'
  OBVIOUS
<1>1. server' \in [Server -> Process] /\ conn' \in [Conn -> Connection]
  BY ServersTyped, ConnsTyped DEF AccessInv
<1>2. Generation \subseteq Generation'
  BY GenerationsGrow DEF AccessInv, Types, Generation
<1>3. Process \subseteq Process'
  <2>1. \A q \in Seq(Generation) : q \in Seq(Generation')
    BY <1>2, SeqGrows
  <2> QED  BY <1>2, <2>1 DEF Process
<1>4. Connection \subseteq Connection'
  BY <1>2 DEF Connection
<1>5. server' \in [Server -> Process'] /\ conn' \in [Conn -> Connection']
  BY <1>1, <1>3, <1>4
<1>6. GenerationsTyped' /\ admin' \in Command' /\ backup' \in Backup'
  BY GenerationsStep, CommandStep DEF AccessInv
<1>7. /\ pidFile' \in Inode \cup {NoFile} /\ socket' \in Server \cup {Nobody}
      /\ created' \in 1..MaxGeneration /\ crashes' \in 0..MaxCrashes /\ raced' \in BOOLEAN
      /\ overlapped' \in BOOLEAN
  BY FilesTyped, OverlapTyped DEF AccessInv
<1> QED  BY <1>5, <1>6, <1>7 DEF Types, GenerationsTyped

-----------------------------------------------------------------------------
(* What the steps do to the processes *)

\* Of all processes, p alone may change, and these are its fields after the step.
Now(p, step, fd, gen, inbox, rotations, refusing, stop) ==
    /\ server'[p].step = step /\ server'[p].fd = fd /\ server'[p].gen = gen
    /\ server'[p].inbox = inbox /\ server'[p].rotations = rotations
    /\ server'[p].refusing = refusing /\ server'[p].stop = stop
    /\ \A t \in Server \ {p} : server'[t] = server[t]

\* A process that moves from one step of its life to the next.
Moves(p, step) ==
    Now(p, step, server[p].fd, server[p].gen, server[p].inbox, server[p].rotations,
        server[p].refusing, server[p].stop)

\* A process whose relay stops.
Stops(p) ==
    Now(p, "relay_closed", server[p].fd, server[p].gen, <<>>, {}, server[p].refusing,
        server[p].stop)

\* A process that ends.
Ends(p) == Now(p, "off", NoFile, 0, <<>>, {}, FALSE, FALSE)

\* What each step of a process leaves in its fields: a change of its step ...
LEMMA Moving ==
    ASSUME server \in [Server -> Process], NEW p \in Server, NEW step,
           server' = [server EXCEPT ![p].step = step]
    PROVE  Moves(p, step)
<1> DEFINE r == [server[p] EXCEPT !.step = step]
<1>1. /\ r.step = step /\ r.fd = server[p].fd /\ r.gen = server[p].gen
      /\ r.inbox = server[p].inbox /\ r.rotations = server[p].rotations
      /\ r.refusing = server[p].refusing /\ r.stop = server[p].stop
  BY DEF Process
<1>2. server'[p] = r /\ \A t \in Server \ {p} : server'[t] = server[t]
  OBVIOUS
<1> HIDE DEF r
<1> QED  BY <1>1, <1>2 DEF Moves, Now

\* ... the stop of the relay, after which it has no request and no rotation ...
LEMMA Stopping ==
    ASSUME server \in [Server -> Process], NEW p \in Server,
           server' = [server EXCEPT ![p] = RelayClosed(@)]
    PROVE  Stops(p)
<1> DEFINE r == RelayClosed(server[p])
<1>1. /\ r.step = "relay_closed" /\ r.fd = server[p].fd /\ r.gen = server[p].gen
      /\ r.inbox = <<>> /\ r.rotations = {}
      /\ r.refusing = server[p].refusing /\ r.stop = server[p].stop
  BY DEF Process, RelayClosed
<1>2. server'[p] = r /\ \A t \in Server \ {p} : server'[t] = server[t]
  OBVIOUS
<1> HIDE DEF r
<1> QED  BY <1>1, <1>2 DEF Stops, Now

\* ... the steps before it ...
LEMMA ClosingDown ==
    ASSUME server \in [Server -> Process], NEW p \in Server, StopServer(p) \/ CloseListener(p)
    PROVE  /\ \/ server[p].step = "up" /\ Moves(p, "stopping")
              \/ server[p].step \in {"listening", "stopping"} /\ Moves(p, "closing")
           /\ conn' = conn /\ raced' = raced /\ pidFile' = pidFile
           /\ UNCHANGED <<disk, db, records, promised, admin, backup, overlapped>>
BY Moving DEF StopServer, CloseListener, To, files, store, history

\* ... the end of the process ...
LEMMA Ending ==
    ASSUME server \in [Server -> Process], NEW p \in Server,
           server' = [server EXCEPT ![p] = Off]
    PROVE  Ends(p)
<1>1. server'[p] = Off /\ \A t \in Server \ {p} : server'[t] = server[t]
  OBVIOUS
<1> QED  BY <1>1 DEF Ends, Now, Off

\* ... the PID file, which the process opens or creates ...
LEMMA Opening ==
    ASSUME server \in [Server -> Process], NEW p \in Server, OpenPidFile(p)
    PROVE  \E i \in Inode :
              /\ Now(p, "opened", i, server[p].gen, server[p].inbox, server[p].rotations,
                     server[p].refusing, server[p].stop)
              /\ IF pidFile = NoFile THEN \A t \in Server : server[t].fd # i
                                     ELSE i = pidFile
              /\ pidFile' = i
<1>1. PICK i \in Inode :
          /\ IF pidFile = NoFile THEN \A t \in Server : server[t].fd # i ELSE i = pidFile
          /\ server' = [server EXCEPT ![p].step = "opened", ![p].fd = i]
          /\ pidFile' = i
  BY DEF OpenPidFile
<1> DEFINE r == [server[p] EXCEPT !.step = "opened", !.fd = i]
<1>2. /\ r.step = "opened" /\ r.fd = i /\ r.gen = server[p].gen
      /\ r.inbox = server[p].inbox /\ r.rotations = server[p].rotations
      /\ r.refusing = server[p].refusing /\ r.stop = server[p].stop
  BY DEF Process
<1>3. server'[p] = r /\ \A t \in Server \ {p} : server'[t] = server[t]
  BY <1>1
<1> HIDE DEF r
<1> QED  BY <1>1, <1>2, <1>3 DEF Now

\* ... the generation it loads ...
LEMMA Loading ==
    ASSUME server \in [Server -> Process], NEW p \in Server, LoadAccessState(p)
    PROVE  Now(p, "loaded", server[p].fd, disk, server[p].inbox, server[p].rotations,
               server[p].refusing, server[p].stop)
<1> DEFINE r == [server[p] EXCEPT !.step = "loaded", !.gen = disk]
<1>1. /\ r.step = "loaded" /\ r.fd = server[p].fd /\ r.gen = disk
      /\ r.inbox = server[p].inbox /\ r.rotations = server[p].rotations
      /\ r.refusing = server[p].refusing /\ r.stop = server[p].stop
  BY DEF Process
<1>2. server'[p] = r /\ \A t \in Server \ {p} : server'[t] = server[t]
  BY DEF LoadAccessState
<1> HIDE DEF r
<1> QED  BY <1>1, <1>2 DEF Now

\* ... the lock it gives up ...
LEMMA Unlocking ==
    ASSUME server \in [Server -> Process], NEW p \in Server, UnlockPidFile(p)
    PROVE  Now(p, "unlocked", NoFile, server[p].gen, server[p].inbox, server[p].rotations,
               server[p].refusing, server[p].stop)
<1> DEFINE r == [server[p] EXCEPT !.step = "unlocked", !.fd = NoFile]
<1>1. /\ r.step = "unlocked" /\ r.fd = NoFile /\ r.gen = server[p].gen
      /\ r.inbox = server[p].inbox /\ r.rotations = server[p].rotations
      /\ r.refusing = server[p].refusing /\ r.stop = server[p].stop
  BY DEF Process
<1>2. server'[p] = r /\ \A t \in Server \ {p} : server'[t] = server[t]
  BY DEF UnlockPidFile
<1> HIDE DEF r
<1> QED  BY <1>1, <1>2 DEF Now

\* ... the request it takes up ...
Begun(p) ==
    server[p].rotations \cup
        {[gen |-> Head(server[p].inbox), closing |-> {c \in ConnectionsOf(p) : conn[c].listed}]}

LEMMA Rotating ==
    ASSUME server \in [Server -> Process], NEW p \in Server, HandleRotate(p)
    PROVE  Now(p, server[p].step, server[p].fd, server[p].gen, Tail(server[p].inbox),
               Begun(p), TRUE, server[p].stop)
<1> DEFINE r == [server[p] EXCEPT !.inbox = Tail(@), !.refusing = TRUE, !.rotations = Begun(p)]
<1>1. /\ r.step = server[p].step /\ r.fd = server[p].fd /\ r.gen = server[p].gen
      /\ r.inbox = Tail(server[p].inbox) /\ r.rotations = Begun(p)
      /\ r.refusing = TRUE /\ r.stop = server[p].stop
  BY DEF Process
<1>2. server'[p] = r /\ \A t \in Server \ {p} : server'[t] = server[t]
  BY DEF HandleRotate, Begin, Begun
<1> HIDE DEF r
<1> QED  BY <1>1, <1>2 DEF Now

\* ... the end of a rotation ...
LEMMA RotationEnds ==
    ASSUME server \in [Server -> Process], NEW p \in Server, NEW q, NEW gen, NEW stop,
           End(p, q, gen, stop)
    PROVE  Now(p, server[p].step, server[p].fd, gen, server[p].inbox,
               server[p].rotations \ {q}, FALSE, stop)
<1> DEFINE r == [server[p] EXCEPT !.rotations = @ \ {q}, !.refusing = FALSE, !.gen = gen,
                                  !.stop = stop]
<1>1. /\ r.step = server[p].step /\ r.fd = server[p].fd /\ r.gen = gen
      /\ r.inbox = server[p].inbox /\ r.rotations = server[p].rotations \ {q}
      /\ r.refusing = FALSE /\ r.stop = stop
  BY DEF Process
<1>2. server'[p] = r /\ \A t \in Server \ {p} : server'[t] = server[t]
  BY DEF End
<1> HIDE DEF r
<1> QED  BY <1>1, <1>2 DEF Now

\* ... which has the generation of the rotation or keeps that of before ...
LEMMA Finishing ==
    ASSUME server \in [Server -> Process], NEW p \in Server,
           FinishRotation(p) \/ FailRotation(p)
    PROVE  \E q \in server[p].rotations : \E g, stop :
              /\ Rotates(p) /\ q.closing = {} /\ conn' = Unlisted(p)
              /\ Now(p, server[p].step, server[p].fd, g, server[p].inbox,
                     server[p].rotations \ {q}, FALSE, stop)
              /\ \/ FinishRotation(p) /\ Bound(g) /\ g = q.gen /\ stop = server[p].stop
                 \/ FailRotation(p) /\ g = server[p].gen /\ stop = TRUE
<1>1. CASE FinishRotation(p)
  <2>1. PICK q \in server[p].rotations :
            /\ Rotates(p) /\ q.closing = {} /\ Bound(q.gen)
            /\ End(p, q, q.gen, server[p].stop)
    BY <1>1 DEF FinishRotation
  <2>2. Now(p, server[p].step, server[p].fd, q.gen, server[p].inbox,
            server[p].rotations \ {q}, FALSE, server[p].stop)
    BY <2>1, RotationEnds
  <2>3. conn' = Unlisted(p)
    BY <2>1 DEF End
  <2> QED  BY <1>1, <2>1, <2>2, <2>3
<1>2. CASE FailRotation(p)
  <2>1. PICK q \in server[p].rotations :
            /\ Rotates(p) /\ q.closing = {} /\ End(p, q, server[p].gen, TRUE)
    BY <1>2 DEF FailRotation
  <2>2. Now(p, server[p].step, server[p].fd, server[p].gen, server[p].inbox,
            server[p].rotations \ {q}, FALSE, TRUE)
    BY <2>1, RotationEnds
  <2>3. conn' = Unlisted(p)
    BY <2>1 DEF End
  <2> QED  BY <1>2, <2>1, <2>2, <2>3
<1> QED  BY <1>1, <1>2

\* ... and a request of the owner, if the process at the socket takes one.
LEMMA Asking ==
    ASSUME server \in [Server -> Process], socket \in Server \cup {Nobody}, AdminRequest
    PROVE  \/ UNCHANGED server
           \/ /\ socket \in Server /\ server[socket].step = "up"
              /\ admin.step = "asking" /\ admin.command # "status"
              /\ Now(socket, server[socket].step, server[socket].fd, server[socket].gen,
                     Append(server[socket].inbox, admin.new), server[socket].rotations,
                     server[socket].refusing, server[socket].stop)
<1> DEFINE r == [server[socket] EXCEPT !.inbox = Append(@, admin.new)]
<1>1. CASE ~UNCHANGED server
  <2>1. /\ socket \in Server /\ server[socket].step = "up"
        /\ admin.step = "asking" /\ admin.command # "status"
        /\ server' = [server EXCEPT ![socket].inbox = Append(@, admin.new)]
    BY <1>1 DEF AdminRequest
  <2>2. /\ r.step = server[socket].step /\ r.fd = server[socket].fd
        /\ r.gen = server[socket].gen /\ r.inbox = Append(server[socket].inbox, admin.new)
        /\ r.rotations = server[socket].rotations
        /\ r.refusing = server[socket].refusing /\ r.stop = server[socket].stop
    BY <2>1 DEF Process
  <2>3. server'[socket] = r /\ \A t \in Server \ {socket} : server'[t] = server[t]
    BY <2>1
  <2> HIDE DEF r
  <2> QED  BY <2>1, <2>2, <2>3 DEF Now
<1> QED  BY <1>1

\* Nothing but the connections to wait for changes in the processes.
SameProcesses ==
    \A t \in Server :
        /\ server'[t].step = server[t].step /\ server'[t].fd = server[t].fd
        /\ server'[t].gen = server[t].gen /\ server'[t].inbox = server[t].inbox
        /\ server'[t].refusing = server[t].refusing /\ server'[t].stop = server[t].stop
        /\ server'[t].rotations = {} <=> server[t].rotations = {}
        /\ \A r \in server'[t].rotations : \E q \in server[t].rotations : r.gen = q.gen

\* A connection k that ends is not waited for any more.
Leaves(k) ==
    /\ conn' = [conn EXCEPT ![k] = NoConn]
    /\ SameProcesses
    /\ \A t \in Server :
          server'[t].rotations = IF t = conn[k].server
                                 THEN {[r EXCEPT !.closing = @ \ {k}] : r \in server[t].rotations}
                                 ELSE server[t].rotations

\* The end of a connection is a step that Leaves describes.
LEMMA Leaving ==
    ASSUME server \in [Server -> Process], NEW k \in Conn, conn[k].server \in Server,
           conn' = [conn EXCEPT ![k] = NoConn], Forget(k)
    PROVE  Leaves(k)
<1> DEFINE s == conn[k].server
           R == {[r EXCEPT !.closing = @ \ {k}] : r \in server[s].rotations}
           p == [server[s] EXCEPT !.rotations = R]
<1>1. /\ p.step = server[s].step /\ p.fd = server[s].fd /\ p.gen = server[s].gen
      /\ p.inbox = server[s].inbox /\ p.rotations = R
      /\ p.refusing = server[s].refusing /\ p.stop = server[s].stop
  <2>1. server[s] \in Process
    OBVIOUS
  <2> HIDE DEF R
  <2> QED  BY <2>1 DEF Process
<1>2. server'[s] = p /\ \A t \in Server \ {s} : server'[t] = server[t]
  BY DEF Forget
<1>3. /\ R = {} <=> server[s].rotations = {}
      /\ \A r \in R : \E q \in server[s].rotations : r.gen = q.gen
  <2>1. server[s].rotations \subseteq [gen : Generation, closing : SUBSET Conn]
    BY DEF Process
  <2>2. \A q \in server[s].rotations : [q EXCEPT !.closing = @ \ {k}].gen = q.gen
    BY <2>1
  <2>3. R = {} <=> server[s].rotations = {}
    OBVIOUS
  <2>4. ASSUME NEW r \in R PROVE \E q \in server[s].rotations : r.gen = q.gen
    <3>1. PICK q \in server[s].rotations : r = [q EXCEPT !.closing = @ \ {k}]
      BY <2>4
    <3> QED  BY <2>2, <3>1
  <2> HIDE DEF R
  <2> QED  BY <2>3, <2>4
<1> HIDE DEF p, R
<1>4. SameProcesses
  BY <1>1, <1>2, <1>3 DEF SameProcesses
<1>5. \A t \in Server : server'[t].rotations = IF t = s THEN R ELSE server[t].rotations
  BY <1>1, <1>2
<1> QED  BY <1>4, <1>5 DEF Leaves, R

\* A proof ends the connection or authenticates it.
LEMMA Proving ==
    ASSUME server \in [Server -> Process], conn \in [Conn -> Connection], NEW k \in Conn,
           conn[k].server \in Server, AccessProof(k)
    PROVE  \/ Leaves(k)
           \/ conn' = [conn EXCEPT ![k].authenticated = TRUE] /\ UNCHANGED server
<1>1. CASE conn' = [conn EXCEPT ![k] = NoConn] /\ Forget(k)
  BY <1>1, Leaving
<1> QED  BY <1>1 DEF AccessProof

\* No step of a connection changes what the processes do.
LEMMA ConnStepKeepsProcesses ==
    ASSUME Types, ConnectionsServed, NEW k \in Conn, ConnStep(k)
    PROVE  SameProcesses
<1>1. server \in [Server -> Process] /\ conn \in [Conn -> Connection]
  BY DEF Types
<1>2. conn[k] # NoConn => conn[k].server \in Server
  BY DEF ConnectionsServed
<1>3. CASE UNCHANGED server
  BY <1>3 DEF SameProcesses
<1>4. CASE AccessProof(k)
  <2>1. conn[k] # NoConn
    BY <1>4 DEF AccessProof, NoConn
  <2> QED  BY <1>1, <1>2, <1>3, <1>4, <2>1, Proving DEF Leaves
<1>5. CASE Disconnect(k)
  <2>1. conn[k] # NoConn /\ conn' = [conn EXCEPT ![k] = NoConn] /\ Forget(k)
    BY <1>5 DEF Disconnect
  <2> QED  BY <1>1, <1>2, <2>1, Leaving DEF Leaves
<1> QED  BY <1>3, <1>4, <1>5 DEF ConnStep, Accept, Hello, Post

\* No step of a command changes a process, but for a request that it sends.
LEMMA AdminStepKeepsProcesses ==
    ASSUME Types, AdminStep
    PROVE  \/ UNCHANGED server
           \/ /\ AdminRequest
              /\ socket \in Server /\ server[socket].step = "up"
              /\ admin.step = "asking" /\ admin.command # "status"
              /\ Now(socket, server[socket].step, server[socket].fd, server[socket].gen,
                     Append(server[socket].inbox, admin.new), server[socket].rotations,
                     server[socket].refusing, server[socket].stop)
<1>1. CASE AdminRequest
  BY <1>1, Asking DEF Types
<1> QED
  BY <1>1 DEF AdminStep, RotateAccess, Status, AdminAnswered, AdminTimesOut,
     CheckLock, OfflineOpen, OfflineSave, OfflineBind, OfflineStatus, OfflineCounts,
     AdminStops, BackUpDatabase, BackUpState, Restore

-----------------------------------------------------------------------------
(* The locks *)

\* The locks stay as they are when every process keeps its inode, and none locks it.
LEMMA LocksKept ==
    ASSUME LocksExclude, pidFile' = pidFile, raced => raced', raced \in BOOLEAN, raced' \in BOOLEAN,
           \A t \in Server :
              /\ server'[t].fd = server[t].fd
              /\ Holds(t)' => Holds(t)
              /\ server'[t].step \in {"off", "unlocked"} <=> server[t].step \in {"off", "unlocked"}
    PROVE  LocksExclude'
<1>1. \A t \in Server :
          server'[t].fd = NoFile <=> server'[t].step \in {"off", "unlocked"}
  BY DEF LocksExclude
<1>2. \A t, u \in Server :
          Holds(t)' /\ Holds(u)' /\ server'[t].fd = server'[u].fd => t = u
  BY DEF LocksExclude
<1>3. ~raced' => \A t \in Server : server'[t].fd # NoFile => server'[t].fd = pidFile'
  BY DEF LocksExclude
<1> QED  BY <1>1, <1>2, <1>3 DEF LocksExclude

\* Every step keeps the locks exclusive: the kernel refuses a second lock on an inode,
\* and a file that another process has open is removed only in a race.
LEMMA LocksStep ==
   ASSUME AccessInv, Next
   PROVE  LocksExclude'
<1>0. server \in [Server -> Process] /\ pidFile \in Inode \cup {NoFile} /\ raced \in BOOLEAN
  BY DEF AccessInv, Types
<1>01. raced' \in BOOLEAN
  BY FilesTyped DEF AccessInv
<1>00. LocksExclude
  BY DEF AccessInv

<1> USE DEF files
<1>1. ASSUME NEW p \in Server, ServerStep(p) PROVE LocksExclude'
  <2>1. CASE OpenPidFile(p)
    <3>1. PICK i \in Inode :
              /\ Now(p, "opened", i, server[p].gen, server[p].inbox, server[p].rotations,
                     server[p].refusing, server[p].stop)
              /\ IF pidFile = NoFile THEN \A t \in Server : server[t].fd # i
                                     ELSE i = pidFile
              /\ pidFile' = i
      BY <1>0, <2>1, Opening
    <3>2. server[p].step = "off" /\ raced' = raced
      BY <2>1 DEF OpenPidFile
    <3> QED  BY <1>0, <1>00, <3>1, <3>2, Fresh DEF LocksExclude, Holds, Now
  <2>2. CASE LockPidFile(p)
    <3>1. server[p].step = "opened" /\ raced' = raced /\ pidFile' = pidFile
      BY <2>2 DEF LockPidFile
    <3>2. CASE Ends(p)
      BY <1>00, <3>1, <3>2 DEF LocksExclude, Holds, Ends, Now
    <3>3. CASE Moves(p, "locked") /\ ~Locked(server[p].fd)
      <4>1. \A t \in Server : Holds(t) => server[t].fd # server[p].fd
        BY <3>3 DEF Locked
      <4> QED  BY <1>00, <3>1, <3>3, <4>1 DEF LocksExclude, Holds, Moves, Now
    <3>4. Ends(p) \/ (Moves(p, "locked") /\ ~Locked(server[p].fd))
      BY <1>0, <2>2, Ending, Moving DEF LockPidFile, To
    <3> QED  BY <3>2, <3>3, <3>4
  <2>3. CASE LoadAccessState(p)
    <3>1. Now(p, "loaded", server[p].fd, disk, server[p].inbox, server[p].rotations,
              server[p].refusing, server[p].stop)
      BY <1>0, <2>3, Loading
    <3>2. server[p].step = "locked" /\ raced' = raced /\ pidFile' = pidFile
      BY <2>3 DEF LoadAccessState
    <3> QED  BY <1>00, <3>1, <3>2 DEF LocksExclude, Holds, Now
  <2>4. CASE StartRelay(p)
    <3>1. Moves(p, "relay_closed") \/ Moves(p, "listening")
      BY <1>0, <2>4, Moving DEF StartRelay, To
    <3>2. server[p].step = "loaded" /\ raced' = raced /\ pidFile' = pidFile
      BY <2>4 DEF StartRelay
    <3>3. \A t \in Server :
              /\ server'[t].fd = server[t].fd
              /\ Holds(t)' => Holds(t)
              /\ server'[t].step \in {"off", "unlocked"} <=> server[t].step \in {"off", "unlocked"}
      BY <3>1, <3>2 DEF Holds, Moves, Now
    <3> QED  BY <1>0, <1>00, <1>01, <3>2, <3>3, LocksKept
  <2>5. CASE StartAdminSocket(p)
    <3>1. Moves(p, "up")
      BY <1>0, <2>5, Moving DEF StartAdminSocket, To
    <3>2. server[p].step = "listening" /\ raced' = raced /\ pidFile' = pidFile
      BY <2>5 DEF StartAdminSocket
    <3>3. \A t \in Server :
              /\ server'[t].fd = server[t].fd
              /\ Holds(t)' => Holds(t)
              /\ server'[t].step \in {"off", "unlocked"} <=> server[t].step \in {"off", "unlocked"}
      BY <3>1, <3>2 DEF Holds, Moves, Now
    <3> QED  BY <1>0, <1>00, <1>01, <3>2, <3>3, LocksKept
  <2>6. CASE CloseRelay(p)
    <3>1. Stops(p)
      BY <1>0, <2>6, Stopping DEF CloseRelay
    <3>2. Holds(p) /\ raced' = raced /\ pidFile' = pidFile
      BY <2>6 DEF CloseRelay, Serving, Listens, Holds
    <3>3. \A t \in Server :
              /\ server'[t].fd = server[t].fd
              /\ Holds(t)' => Holds(t)
              /\ server'[t].step \in {"off", "unlocked"} <=> server[t].step \in {"off", "unlocked"}
      BY <3>1, <3>2 DEF Holds, Stops, Now
    <3> QED  BY <1>0, <1>00, <1>01, <3>2, <3>3, LocksKept
  <2>7. CASE UnlinkSocket(p)
    <3>1. Moves(p, "closed")
      BY <1>0, <2>7, Moving DEF UnlinkSocket, To
    <3>2. server[p].step = "relay_closed" /\ raced' = raced /\ pidFile' = pidFile
      BY <2>7 DEF UnlinkSocket
    <3>3. \A t \in Server :
              /\ server'[t].fd = server[t].fd
              /\ Holds(t)' => Holds(t)
              /\ server'[t].step \in {"off", "unlocked"} <=> server[t].step \in {"off", "unlocked"}
      BY <3>1, <3>2 DEF Holds, Moves, Now
    <3> QED  BY <1>0, <1>00, <1>01, <3>2, <3>3, LocksKept
  <2>8. CASE UnlockPidFile(p)
    <3>1. Now(p, "unlocked", NoFile, server[p].gen, server[p].inbox, server[p].rotations,
              server[p].refusing, server[p].stop)
      BY <1>0, <2>8, Unlocking
    <3>2. raced' = raced /\ pidFile' = pidFile
      BY <2>8 DEF UnlockPidFile
    <3> QED  BY <1>00, <3>1, <3>2 DEF LocksExclude, Holds, Now
  <2>9. CASE UnlinkPidFile(p)
    <3>1. Ends(p)
      BY <1>0, <2>9, Ending DEF UnlinkPidFile
    <3>2. /\ server[p].step = "unlocked"
          /\ ~raced' => ~raced /\ \A t \in Server : server[t].fd = NoFile
                                                    \/ server[t].fd # pidFile
      BY <2>9 DEF UnlinkPidFile
    <3>3. ~raced' => \A t \in Server : server[t].fd = NoFile
      BY <1>00, <3>2 DEF LocksExclude
    <3> QED  BY <1>00, <3>1, <3>2, <3>3 DEF LocksExclude, Holds, Ends, Now
  <2>10. CASE Crash(p)
    <3>1. Ends(p)
      BY <1>0, <2>10, Ending DEF Crash
    <3>2. raced' = raced /\ pidFile' = pidFile
      BY <2>10 DEF Crash
    <3> QED  BY <1>00, <3>1, <3>2 DEF LocksExclude, Holds, Ends, Now
  <2>11. CASE StopServer(p) \/ CloseListener(p)
    <3>1. /\ \/ server[p].step = "up" /\ Moves(p, "stopping")
             \/ server[p].step \in {"listening", "stopping"} /\ Moves(p, "closing")
          /\ conn' = conn /\ raced' = raced /\ pidFile' = pidFile
      BY <1>0, <2>11, ClosingDown
    <3>2. \A t \in Server :
              /\ server'[t].fd = server[t].fd
              /\ Holds(t)' => Holds(t)
              /\ server'[t].step \in {"off", "unlocked"} <=> server[t].step \in {"off", "unlocked"}
      BY <3>1 DEF Holds, Moves, Now
    <3> QED  BY <1>0, <1>00, <1>01, <3>1, <3>2, LocksKept
  <2> QED  BY <1>1, <2>1, <2>2, <2>3, <2>4, <2>5, <2>6, <2>7, <2>8, <2>9, <2>10, <2>11
           DEF ServerStep
<1>2. ASSUME NEW p \in Server, RotationStep(p) PROVE LocksExclude'
  <2>0. raced' = raced /\ pidFile' = pidFile
    BY <1>2 DEF RotationStep, HandleRotate, Begin, FinishRotation, FailRotation, End
  <2>1. CASE HandleRotate(p)
    <3>1. Now(p, server[p].step, server[p].fd, server[p].gen, Tail(server[p].inbox),
              Begun(p), TRUE, server[p].stop)
      BY <1>0, <2>1, Rotating
    <3> QED  BY <1>00, <2>0, <3>1 DEF LocksExclude, Holds, Now
  <2>2. CASE FinishRotation(p) \/ FailRotation(p)
    <3>1. \E g, R, stop : Now(p, server[p].step, server[p].fd, g, server[p].inbox, R, FALSE, stop)
      BY <1>0, <2>2, Finishing
    <3> QED  BY <1>00, <2>0, <3>1 DEF LocksExclude, Holds, Now
  <2> QED  BY <1>2, <2>1, <2>2 DEF RotationStep
<1>3. ASSUME NEW k \in Conn, ConnStep(k) PROVE LocksExclude'
  <2>1. raced' = raced /\ pidFile' = pidFile
    BY <1>3 DEF ConnStep, Accept, Hello, AccessProof, Post, Disconnect
  <2>2. SameProcesses
    BY <1>3, ConnStepKeepsProcesses DEF AccessInv
  <2> QED  BY <1>00, <2>1, <2>2 DEF LocksExclude, Holds, SameProcesses
<1>4. ASSUME AdminStep PROVE LocksExclude'
  <2>1. raced => raced'
    BY <1>4 DEF AdminStep, RotateAccess, Status, AdminRequest, AdminAnswered, AdminTimesOut,
       CheckLock, OnDisk, OfflineOpen, OfflineSave, OfflineBind, OfflineStatus, OfflineCounts,
       AdminStops, BackUpDatabase, BackUpState, Restore
  <2>2. pidFile' = pidFile
    BY <1>4 DEF AdminStep, RotateAccess, Status, AdminRequest, AdminAnswered, AdminTimesOut,
       CheckLock, OfflineOpen, OfflineSave, OfflineBind, OfflineStatus, OfflineCounts,
       AdminStops, BackUpDatabase, BackUpState, Restore
  <2>3. \A t \in Server : server'[t].step = server[t].step /\ server'[t].fd = server[t].fd
    BY <1>4, AdminStepKeepsProcesses DEF AccessInv, Now
  <2> QED  BY <1>0, <1>00, <1>01, <2>1, <2>2, <2>3, LocksKept DEF Holds
<1> QED  BY <1>1, <1>2, <1>3, <1>4 DEF Next

-----------------------------------------------------------------------------
(* Requests, rotations and connections are those of processes that serve *)

\* Every step leaves requests and rotations only with processes that are up.
LEMMA WorkStep ==
    ASSUME AccessInv, Next
    PROVE  OnlyServersWork'
<1>0. server \in [Server -> Process] /\ disk # 0
  BY Fresh DEF AccessInv, Types, Generation
<1>00. OnlyServersWork
  BY DEF AccessInv
<1>1. ASSUME NEW p \in Server, ServerStep(p) PROVE OnlyServersWork'
  <2>1. CASE OpenPidFile(p)
    <3>1. PICK i : Now(p, "opened", i, server[p].gen, server[p].inbox,
                       server[p].rotations,
                       server[p].refusing, server[p].stop)
      BY <1>0, <2>1, Opening
    <3>2. server[p].step = "off"
      BY <2>1 DEF OpenPidFile
    <3> QED  BY <1>00, <3>1, <3>2 DEF OnlyServersWork, Serving, Listens, Rotates, Now
  <2>2. CASE LockPidFile(p)
    <3>1. Ends(p) \/ Moves(p, "locked")
      BY <1>0, <2>2, Ending, Moving DEF LockPidFile, To
    <3>2. server[p].step = "opened"
      BY <2>2 DEF LockPidFile
    <3> QED  BY <1>00, <3>1, <3>2 DEF OnlyServersWork, Serving, Listens, Rotates, Ends, Moves, Now
  <2>3. CASE LoadAccessState(p)
    <3>1. Now(p, "loaded", server[p].fd, disk, server[p].inbox, server[p].rotations,
              server[p].refusing, server[p].stop)
      BY <1>0, <2>3, Loading
    <3>2. server[p].step = "locked"
      BY <2>3 DEF LoadAccessState
    <3> QED  BY <1>0, <1>00, <3>1, <3>2 DEF OnlyServersWork, Serving, Listens, Rotates, Now
  <2>4. CASE StartRelay(p)
    <3>1. Moves(p, "relay_closed") \/ Moves(p, "listening")
      BY <1>0, <2>4, Moving DEF StartRelay, To
    <3>2. server[p].step = "loaded"
      BY <2>4 DEF StartRelay
    <3> QED  BY <1>00, <3>1, <3>2 DEF OnlyServersWork, Serving, Listens, Rotates, Moves, Now
  <2>5. CASE StartAdminSocket(p)
    <3>1. Moves(p, "up")
      BY <1>0, <2>5, Moving DEF StartAdminSocket, To
    <3>2. server[p].step = "listening"
      BY <2>5 DEF StartAdminSocket
    <3> QED  BY <1>00, <3>1, <3>2 DEF OnlyServersWork, Serving, Listens, Rotates, Moves, Now
  <2>6. CASE CloseRelay(p)
    <3>1. Stops(p)
      BY <1>0, <2>6, Stopping DEF CloseRelay
    <3> QED  BY <1>00, <3>1 DEF OnlyServersWork, Serving, Listens, Rotates, Stops, Now
  <2>7. CASE UnlinkSocket(p)
    <3>1. Moves(p, "closed")
      BY <1>0, <2>7, Moving DEF UnlinkSocket, To
    <3>2. server[p].step = "relay_closed"
      BY <2>7 DEF UnlinkSocket
    <3> QED  BY <1>00, <3>1, <3>2 DEF OnlyServersWork, Serving, Listens, Rotates, Moves, Now
  <2>8. CASE UnlockPidFile(p)
    <3>1. Now(p, "unlocked", NoFile, server[p].gen, server[p].inbox, server[p].rotations,
              server[p].refusing, server[p].stop)
      BY <1>0, <2>8, Unlocking
    <3>2. server[p].step = "closed"
      BY <2>8 DEF UnlockPidFile
    <3> QED  BY <1>00, <3>1, <3>2 DEF OnlyServersWork, Serving, Listens, Rotates, Now
  <2>9. CASE UnlinkPidFile(p)
    <3>1. Ends(p)
      BY <1>0, <2>9, Ending DEF UnlinkPidFile
    <3>2. server[p].step = "unlocked"
      BY <2>9 DEF UnlinkPidFile
    <3> QED  BY <1>00, <3>1, <3>2 DEF OnlyServersWork, Serving, Listens, Rotates, Ends, Now
  <2>10. CASE Crash(p)
    <3>1. Ends(p)
      BY <1>0, <2>10, Ending DEF Crash
    <3> QED  BY <1>00, <3>1 DEF OnlyServersWork, Serving, Listens, Rotates, Ends, Now
  <2>11. CASE StopServer(p) \/ CloseListener(p)
    <3>1. /\ \/ server[p].step = "up" /\ Moves(p, "stopping")
             \/ server[p].step \in {"listening", "stopping"} /\ Moves(p, "closing")
          /\ conn' = conn /\ raced' = raced /\ pidFile' = pidFile
      BY <1>0, <2>11, ClosingDown
    <3> QED  BY <1>00, <3>1 DEF OnlyServersWork, Serving, Listens, Rotates, Moves, Now
  <2> QED  BY <1>1, <2>1, <2>2, <2>3, <2>4, <2>5, <2>6, <2>7, <2>8, <2>9, <2>10, <2>11
           DEF ServerStep
<1>2. ASSUME NEW p \in Server, RotationStep(p) PROVE OnlyServersWork'
  <2>1. CASE HandleRotate(p)
    <3>1. Now(p, server[p].step, server[p].fd, server[p].gen, Tail(server[p].inbox),
              Begun(p), TRUE, server[p].stop)
      BY <1>0, <2>1, Rotating
    <3>2. Rotates(p)
      BY <2>1 DEF HandleRotate
    <3> QED  BY <1>00, <3>1, <3>2 DEF OnlyServersWork, Serving, Listens, Rotates, Now
  <2>2. CASE FinishRotation(p) \/ FailRotation(p)
    <3>0. PICK q \in server[p].rotations : \E g, stop :
              /\ Now(p, server[p].step, server[p].fd, g, server[p].inbox,
                     server[p].rotations \ {q}, FALSE, stop)
              /\ Rotates(p) /\ (g = q.gen \/ g = server[p].gen)
      BY <1>0, <2>2, Finishing
    <3>1. PICK g, stop :
              /\ Now(p, server[p].step, server[p].fd, g, server[p].inbox,
                     server[p].rotations \ {q}, FALSE, stop)
              /\ Rotates(p) /\ (g = q.gen \/ g = server[p].gen)
      BY <3>0
    <3>2. q.gen # 0 /\ server[p].gen # 0
      <4>1. server[p] \in Process
        BY <1>0
      <4>2. server[p].gen # 0
        BY <1>00, <3>1 DEF OnlyServersWork, Rotates, Serving, Listens
      <4>3. q.gen \in Generation
        BY <4>1, RotationTyped
      <4> QED  BY <4>2, <4>3 DEF Generation
    <3> QED  BY <1>00, <3>1, <3>2 DEF OnlyServersWork, Serving, Listens, Rotates, Now
  <2> QED  BY <1>2, <2>1, <2>2 DEF RotationStep
<1>3. ASSUME NEW k \in Conn, ConnStep(k) PROVE OnlyServersWork'
  <2>1. SameProcesses
    BY <1>3, ConnStepKeepsProcesses DEF AccessInv
  <2> QED  BY <1>00, <2>1 DEF OnlyServersWork, Serving, Listens, Rotates, SameProcesses
<1>4. ASSUME AdminStep PROVE OnlyServersWork'
  <2>1. CASE UNCHANGED server
    BY <1>00, <2>1 DEF OnlyServersWork, Serving, Listens, Rotates
  <2>2. CASE ~UNCHANGED server
    <3>1. /\ server[socket].step = "up"
          /\ Now(socket, server[socket].step, server[socket].fd, server[socket].gen,
                 Append(server[socket].inbox, admin.new), server[socket].rotations,
                 server[socket].refusing, server[socket].stop)
      BY <1>4, <2>2, AdminStepKeepsProcesses DEF AccessInv
    <3> QED  BY <1>00, <3>1 DEF OnlyServersWork, Serving, Listens, Rotates, Now
  <2> QED  BY <2>1, <2>2
<1> QED  BY <1>1, <1>2, <1>3, <1>4 DEF Next

-----------------------------------------------------------------------------
(* Connections and their challenges *)

\* Nobody is connected to a process that does not serve.
LEMMA NotServing ==
    ASSUME ConnectionsServed, Types, NEW p \in Server, ~Serving(p)
    PROVE  ConnectionsOf(p) = {}
<1>1. \A c \in Conn : conn[c] = NoConn => conn[c].server # p
  BY Fresh DEF NoConn
<1> QED  BY <1>1 DEF ConnectionsServed, ConnectionsOf

\* What a step of a process p has to keep for the connections: p goes on serving
\* them, and as long as no rotations overlapped, at their generation, or ends them
\* all.
SameConnections ==
    \A c \in Conn :
        /\ conn'[c].server = conn[c].server /\ conn'[c].challenge = conn[c].challenge
        /\ conn'[c].authenticated = conn[c].authenticated
        /\ conn'[c] # NoConn => conn[c] # NoConn

Keeps(p) ==
    /\ SameConnections
    /\ Serving(p) => Serving(p)'
    /\ \A r \in server'[p].rotations : r.closing \subseteq ConnectionsOf(p)
    /\ ~overlapped' =>
          /\ conn' = conn
          /\ server'[p].gen = server[p].gen \/ ConnectionsOf(p) = {}
          /\ \A r \in server'[p].rotations :
                /\ server'[p].rotations = {r} /\ r.closing = ConnectionsOf(p)
                /\ server'[p].refusing

Drops(p) == conn' = Disconnected(p) /\ server'[p].rotations = {}

\* Either is safe for the connections and their challenges.
LEMMA KeepsOrDrops ==
    ASSUME AccessInv, overlapped => overlapped', NEW p \in Server, Keeps(p) \/ Drops(p),
           \A t \in Server \ {p} : server'[t] = server[t]
    PROVE  ConnectionsServed' /\ (~overlapped' => ChallengesAreCurrent')
<1>0. /\ ConnectionsServed /\ conn \in [Conn -> Connection]
      /\ ~overlapped' => ChallengesAreCurrent
  BY DEF AccessInv, Types
<1>1. CASE Keeps(p)
  <2>1. \A s \in Server : ConnectionsOf(s)' = ConnectionsOf(s)
    BY <1>1 DEF ConnectionsOf, Keeps, SameConnections
  <2>2. ConnectionsServed'
    <3>1. ASSUME NEW c \in Conn, conn'[c] # NoConn
          PROVE  (conn[c].server \in Server /\ Serving(conn[c].server))'
      <4>1. conn[c] # NoConn /\ conn'[c].server = conn[c].server
        BY <1>1, <3>1 DEF Keeps, SameConnections
      <4>2. conn[c].server \in Server /\ Serving(conn[c].server)
        BY <1>0, <4>1 DEF ConnectionsServed
      <4>3. Serving(conn[c].server)' 
        BY <1>1, <4>1, <4>2 DEF Keeps, Serving, Listens
      <4> QED  BY <4>1, <4>2, <4>3
    <3>2. \A c \in Conn : conn'[c].authenticated => conn'[c].challenge # 0
      BY <1>0, <1>1 DEF Keeps, SameConnections, ConnectionsServed
    <3>3. \A s \in Server : \A r \in server'[s].rotations : r.closing \subseteq ConnectionsOf(s)'
      BY <1>0, <1>1, <2>1 DEF Keeps, ConnectionsServed
    <3> QED  BY <3>1, <3>2, <3>3 DEF ConnectionsServed
  <2>3. ASSUME ~overlapped' PROVE ChallengesAreCurrent'
    <3>0. ChallengesAreCurrent /\ conn' = conn
      BY <1>0, <1>1, <2>3 DEF Keeps
    <3>1. \A c \in Conn : conn[c].challenge # 0 => conn[c].server \in Server
      BY <1>0 DEF ConnectionsServed, NoConn
    <3>2. \A c \in Conn : conn[c].server = p => ConnectionsOf(p) # {}
      BY DEF ConnectionsOf
    <3>3. \A c \in Conn : conn[c].challenge # 0 =>
              server'[conn[c].server].gen = server[conn[c].server].gen
      BY <1>1, <2>3, <3>1, <3>2 DEF Keeps
    <3>4. \A s \in Server : \A r \in server'[s].rotations :
              /\ server'[s].rotations = {r} /\ r.closing = ConnectionsOf(s)
              /\ server'[s].refusing
      BY <1>1, <2>3, <3>0 DEF Keeps, ChallengesAreCurrent
    <3> QED  BY <2>1, <3>0, <3>3, <3>4 DEF ChallengesAreCurrent
  <2> QED  BY <2>2, <2>3
<1>2. CASE Drops(p)
  <2>1. \A c \in Conn :
            conn'[c] = NoConn \/ (conn'[c] = conn[c] /\ conn[c].server # p)
    <3>1. conn' = [c \in Conn |-> IF conn[c].server = p THEN NoConn ELSE conn[c]]
      BY <1>2 DEF Drops, Disconnected
    <3> QED  BY <3>1
  <2>2. NoConn.server \notin Server /\ NoConn.challenge = 0 /\ ~NoConn.authenticated
    BY Fresh DEF NoConn
  <2>3. \A s \in Server \ {p} : ConnectionsOf(s)' = ConnectionsOf(s)
    BY <1>2, Fresh DEF Drops, ConnectionsOf, Disconnected, NoConn
  <2>4. server'[p].rotations = {}
    BY <1>2 DEF Drops
  <2>5. ConnectionsServed'
    BY <1>0, <2>1, <2>2, <2>3, <2>4 DEF ConnectionsServed, Serving, Listens
  <2>6. \A c \in Conn : conn'[c] # NoConn => conn[c].server \in Server
    BY <1>0, <2>1 DEF ConnectionsServed
  <2>7. ASSUME ~overlapped' PROVE ChallengesAreCurrent'
    BY <1>0, <2>1, <2>2, <2>3, <2>4, <2>5, <2>6, <2>7 DEF ChallengesAreCurrent
  <2> QED  BY <2>5, <2>7
<1> QED  BY <1>1, <1>2

\* Every step of a process is one of the two.
LEMMA ServersKeepOrDrop ==
    ASSUME AccessInv, NEW p \in Server, ServerStep(p) \/ RotationStep(p)
    PROVE  /\ Keeps(p) \/ Drops(p)
           /\ \A t \in Server \ {p} : server'[t] = server[t]
<1> DEFINE P == /\ Keeps(p) \/ Drops(p)
                /\ \A t \in Server \ {p} : server'[t] = server[t]
<1>0. /\ server \in [Server -> Process] /\ Types
      /\ OnlyServersWork /\ ConnectionsServed
      /\ ~overlapped' => ~overlapped /\ ChallengesAreCurrent
  <2>1. Next
    BY DEF Next
  <2> QED  BY <2>1, OverlapTyped DEF AccessInv, Types
<1>1. ASSUME ServerStep(p) PROVE P
  <2>1. CASE OpenPidFile(p)
    <3>1. \E i : Now(p, "opened", i, server[p].gen, server[p].inbox,
                   server[p].rotations,
                     server[p].refusing, server[p].stop)
      BY <1>0, <2>1, Opening
    <3>2. server[p].step = "off" /\ conn' = conn
      BY <2>1 DEF OpenPidFile
    <3>3. ~Serving(p) /\ server[p].rotations = {}
      BY <1>0, <3>2 DEF Serving, Listens, Rotates, OnlyServersWork
    <3>4. ConnectionsOf(p) = {}
      BY <1>0, <3>3, NotServing
    <3> QED  BY <3>1, <3>2, <3>3, <3>4 DEF Keeps, SameConnections, Now
  <2>2. CASE LockPidFile(p)
    <3>1. Ends(p) \/ Moves(p, "locked")
      BY <1>0, <2>2, Ending, Moving DEF LockPidFile, To
    <3>2. server[p].step = "opened" /\ conn' = conn
      BY <2>2 DEF LockPidFile
    <3>3. ~Serving(p) /\ server[p].rotations = {}
      BY <1>0, <3>2 DEF Serving, Listens, Rotates, OnlyServersWork
    <3>4. ConnectionsOf(p) = {}
      BY <1>0, <3>3, NotServing
    <3> QED  BY <3>1, <3>2, <3>3, <3>4 DEF Keeps, SameConnections, Ends, Moves, Now
  <2>3. CASE LoadAccessState(p)
    <3>1. Now(p, "loaded", server[p].fd, disk, server[p].inbox,
               server[p].rotations,
              server[p].refusing, server[p].stop)
      BY <1>0, <2>3, Loading
    <3>2. server[p].step = "locked" /\ conn' = conn
      BY <2>3 DEF LoadAccessState
    <3>3. ~Serving(p) /\ server[p].rotations = {}
      BY <1>0, <3>2 DEF Serving, Listens, Rotates, OnlyServersWork
    <3>4. ConnectionsOf(p) = {}
      BY <1>0, <3>3, NotServing
    <3> QED  BY <3>1, <3>2, <3>3, <3>4 DEF Keeps, SameConnections, Now
  <2>4. CASE StartRelay(p)
    <3>1. Moves(p, "relay_closed") \/ Moves(p, "listening")
      BY <1>0, <2>4, Moving DEF StartRelay, To
    <3>2. server[p].step = "loaded" /\ conn' = conn
      BY <2>4 DEF StartRelay
    <3>3. ~Serving(p) /\ server[p].rotations = {}
      BY <1>0, <3>2 DEF Serving, Listens, Rotates, OnlyServersWork
    <3>4. ConnectionsOf(p) = {}
      BY <1>0, <3>3, NotServing
    <3> QED  BY <3>1, <3>2, <3>3, <3>4 DEF Keeps, SameConnections, Moves, Now
  <2>5. CASE StartAdminSocket(p)
    <3>1. Moves(p, "up")
      BY <1>0, <2>5, Moving DEF StartAdminSocket, To
    <3>2. conn' = conn
      BY <2>5 DEF StartAdminSocket
    <3>3. Serving(p)'
      BY <3>1 DEF Serving, Listens, Moves, Now
    <3> QED  BY <1>0, <3>1, <3>2, <3>3
             DEF Keeps, SameConnections, Moves, Now, ConnectionsServed, ChallengesAreCurrent
  <2>6. CASE CloseRelay(p)
    <3>1. Stops(p)
      BY <1>0, <2>6, Stopping DEF CloseRelay
    <3>2. conn' = Disconnected(p)
      BY <2>6 DEF CloseRelay
    <3> QED  BY <3>1, <3>2 DEF Drops, Stops, Now
  <2>7. CASE UnlinkSocket(p)
    <3>1. Moves(p, "closed")
      BY <1>0, <2>7, Moving DEF UnlinkSocket, To
    <3>2. server[p].step = "relay_closed" /\ conn' = conn
      BY <2>7 DEF UnlinkSocket
    <3>3. ~Serving(p) /\ server[p].rotations = {}
      BY <1>0, <3>2 DEF Serving, Listens, Rotates, OnlyServersWork
    <3>4. ConnectionsOf(p) = {}
      BY <1>0, <3>3, NotServing
    <3> QED  BY <3>1, <3>2, <3>3, <3>4 DEF Keeps, SameConnections, Moves, Now
  <2>8. CASE UnlockPidFile(p)
    <3>1. Now(p, "unlocked", NoFile, server[p].gen, server[p].inbox,
               server[p].rotations,
              server[p].refusing, server[p].stop)
      BY <1>0, <2>8, Unlocking
    <3>2. server[p].step = "closed" /\ conn' = conn
      BY <2>8 DEF UnlockPidFile
    <3>3. ~Serving(p) /\ server[p].rotations = {}
      BY <1>0, <3>2 DEF Serving, Listens, Rotates, OnlyServersWork
    <3>4. ConnectionsOf(p) = {}
      BY <1>0, <3>3, NotServing
    <3> QED  BY <3>1, <3>2, <3>3, <3>4 DEF Keeps, SameConnections, Now
  <2>9. CASE UnlinkPidFile(p)
    <3>1. Ends(p)
      BY <1>0, <2>9, Ending DEF UnlinkPidFile
    <3>2. server[p].step = "unlocked" /\ conn' = conn
      BY <2>9 DEF UnlinkPidFile
    <3>3. ~Serving(p) /\ server[p].rotations = {}
      BY <1>0, <3>2 DEF Serving, Listens, Rotates, OnlyServersWork
    <3>4. ConnectionsOf(p) = {}
      BY <1>0, <3>3, NotServing
    <3> QED  BY <3>1, <3>2, <3>3, <3>4 DEF Keeps, SameConnections, Ends, Now
  <2>10. CASE Crash(p)
    <3>1. Ends(p)
      BY <1>0, <2>10, Ending DEF Crash
    <3>2. conn' = Disconnected(p)
      BY <2>10 DEF Crash
    <3> QED  BY <3>1, <3>2 DEF Drops, Ends, Now
  <2>11. CASE StopServer(p) \/ CloseListener(p)
    <3>1. /\ \/ server[p].step = "up" /\ Moves(p, "stopping")
             \/ server[p].step \in {"listening", "stopping"} /\ Moves(p, "closing")
          /\ conn' = conn /\ raced' = raced /\ pidFile' = pidFile
      BY <1>0, <2>11, ClosingDown
    <3>2. Serving(p)'
      BY <3>1 DEF Serving, Listens, Moves, Now
    <3> QED  BY <1>0, <3>1, <3>2 DEF Keeps, SameConnections, Moves, Now, ConnectionsServed, ChallengesAreCurrent
  <2> QED  BY <1>1, <2>1, <2>2, <2>3, <2>4, <2>5, <2>6, <2>7, <2>8, <2>9, <2>10, <2>11
           DEF ServerStep
<1>2. ASSUME RotationStep(p) PROVE P
  <2>1. CASE HandleRotate(p)
    <3>1. Now(p, server[p].step, server[p].fd, server[p].gen, Tail(server[p].inbox),
              Begun(p), TRUE, server[p].stop)
      BY <1>0, <2>1, Rotating
    <3>2. /\ conn' = conn /\ Rotates(p)
          /\ ~overlapped' => server[p].rotations = {}
      BY <2>1 DEF HandleRotate, Begin
    <3>3. {c \in ConnectionsOf(p) : conn[c].listed} \subseteq ConnectionsOf(p)
      OBVIOUS
    <3>4. \A r \in server'[p].rotations : r.closing \subseteq ConnectionsOf(p)
      BY <1>0, <3>1, <3>3 DEF Now, Begun, ConnectionsServed
    <3>5. Serving(p)'
      BY <3>1, <3>2 DEF Now, Serving, Listens, Rotates
    <3>6. ASSUME ~overlapped'
          PROVE  \A r \in server'[p].rotations :
                    /\ server'[p].rotations = {r} /\ r.closing = ConnectionsOf(p)
                    /\ server'[p].refusing
      <4>1. \A c \in ConnectionsOf(p) : conn[c].listed
        BY <1>0, <3>6, Fresh DEF ChallengesAreCurrent, ConnectionsOf, NoConn
      <4>2. {c \in ConnectionsOf(p) : conn[c].listed} = ConnectionsOf(p)
        BY <4>1
      <4>3. server'[p].rotations
              = {[gen |-> Head(server[p].inbox), closing |-> ConnectionsOf(p)]}
        BY <3>1, <3>2, <3>6, <4>2 DEF Now, Begun
      <4> QED  BY <3>1, <4>3 DEF Now
    <3>7. server'[p].gen = server[p].gen /\ \A t \in Server \ {p} : server'[t] = server[t]
      BY <3>1 DEF Now
    <3> QED  BY <3>2, <3>4, <3>5, <3>6, <3>7 DEF Keeps, SameConnections
  <2>2. CASE FinishRotation(p) \/ FailRotation(p)
    <3>0. PICK q \in server[p].rotations : \E g, stop :
              /\ Rotates(p) /\ q.closing = {} /\ conn' = Unlisted(p)
              /\ Now(p, server[p].step, server[p].fd, g, server[p].inbox,
                     server[p].rotations \ {q}, FALSE, stop)
      BY <1>0, <2>2, Finishing
    <3>1. PICK g, stop :
              /\ Rotates(p) /\ q.closing = {} /\ conn' = Unlisted(p)
              /\ Now(p, server[p].step, server[p].fd, g, server[p].inbox,
                     server[p].rotations \ {q}, FALSE, stop)
      BY <3>0
    <3>2. SameConnections
      <4>1. ASSUME NEW c \in Conn
            PROVE  /\ conn'[c].server = conn[c].server /\ conn'[c].challenge = conn[c].challenge
                   /\ conn'[c].authenticated = conn[c].authenticated
                   /\ conn'[c] # NoConn => conn[c] # NoConn
        <5>1. CASE conn[c].server = p
          <6>1. conn'[c] = [conn[c] EXCEPT !.listed = FALSE] /\ conn[c] \in Connection
            BY <1>0, <3>1, <5>1 DEF Unlisted, Types
          <6>2. conn[c] # NoConn
            BY <5>1, Fresh DEF NoConn
          <6> QED  BY <6>1, <6>2 DEF Connection
        <5>2. CASE conn[c].server # p
          BY <3>1, <5>2 DEF Unlisted
        <5> QED  BY <5>1, <5>2
      <4> QED  BY <4>1 DEF SameConnections
    <3>3. ASSUME ~overlapped'
          PROVE  conn' = conn /\ ConnectionsOf(p) = {} /\ server'[p].rotations = {}
      <4>1. server[p].rotations = {q} /\ ConnectionsOf(p) = {}
        BY <1>0, <3>1, <3>3 DEF ChallengesAreCurrent
      <4>2. \A c \in Conn : conn[c].server # p
        BY <4>1 DEF ConnectionsOf
      <4>3. conn' = [c \in Conn |-> conn[c]]
        BY <3>1, <4>2 DEF Unlisted
      <4> QED  BY <1>0, <3>1, <4>1, <4>3 DEF Now, Types
    <3>4. Serving(p)'
      BY <3>1 DEF Now, Serving, Listens, Rotates
    <3>5. \A r \in server'[p].rotations : r.closing \subseteq ConnectionsOf(p)
      BY <1>0, <3>1 DEF Now, ConnectionsServed
    <3> QED  BY <3>1, <3>2, <3>3, <3>4, <3>5 DEF Keeps, Now
  <2> QED  BY <1>2, <2>1, <2>2 DEF RotationStep
<1> QED  BY <1>1, <1>2

\* What a step of a connection k does to the connections; it leaves the processes
\* as they are but for the connections they wait for.
ConnNow(k, process, listed, challenge, authenticated) ==
    /\ conn'[k].server = process /\ conn'[k].challenge = challenge
    /\ conn'[k].listed = listed /\ conn'[k].authenticated = authenticated
    /\ \A c \in Conn \ {k} : conn'[c] = conn[c]

\* An accepted connection is one of a process that serves and does not rotate.
LEMMA Accepting ==
    ASSUME conn \in [Conn -> Connection], NEW k \in Conn, Accept(k)
    PROVE  \E s \in Server :
              /\ Listens(s) /\ ~server[s].refusing /\ UNCHANGED server
              /\ conn[k] = NoConn /\ ConnNow(k, s, TRUE, 0, FALSE)
<1>1. PICK s \in Server :
          /\ Listens(s) /\ ~server[s].refusing
          /\ conn' = [conn EXCEPT ![k].server = s, ![k].listed = TRUE]
  BY DEF Accept
<1>2. UNCHANGED server /\ conn[k] = NoConn
  BY DEF Accept
<1>3. /\ conn'[k] = [NoConn EXCEPT !.server = s, !.listed = TRUE]
      /\ \A c \in Conn \ {k} : conn'[c] = conn[c]
  BY <1>1, <1>2
<1>4. ConnNow(k, s, TRUE, 0, FALSE)
  BY <1>3 DEF ConnNow, NoConn
<1> QED  BY <1>1, <1>2, <1>4

\* A hello sets the challenge to the generation of the process.
LEMMA Greeting ==
    ASSUME conn \in [Conn -> Connection], NEW k \in Conn, Hello(k)
    PROVE  /\ conn[k] # NoConn /\ UNCHANGED server
           /\ ConnNow(k, conn[k].server, conn[k].listed, server[conn[k].server].gen,
                   conn[k].authenticated)
<1> DEFINE g == server[conn[k].server].gen
           r == [conn[k] EXCEPT !.challenge = g]
<1>1. /\ r.server = conn[k].server /\ r.listed = conn[k].listed /\ r.challenge = g
      /\ r.authenticated = conn[k].authenticated
  BY DEF Connection
<1>2. conn'[k] = r /\ \A c \in Conn \ {k} : conn'[c] = conn[c]
  BY DEF Hello
<1>3. conn[k] # NoConn /\ UNCHANGED server
  BY DEF Hello
<1> HIDE DEF r, g
<1>4. ConnNow(k, conn[k].server, conn[k].listed, g, conn[k].authenticated)
  BY <1>1, <1>2 DEF ConnNow
<1> QED  BY <1>3, <1>4 DEF g

\* A proof authenticates the connection and changes nothing else.
LEMMA Authenticating ==
    ASSUME conn \in [Conn -> Connection], NEW k \in Conn,
           conn' = [conn EXCEPT ![k].authenticated = TRUE]
    PROVE  ConnNow(k, conn[k].server, conn[k].listed, conn[k].challenge, TRUE)
<1> DEFINE r == [conn[k] EXCEPT !.authenticated = TRUE]
<1>1. /\ r.server = conn[k].server /\ r.listed = conn[k].listed
      /\ r.challenge = conn[k].challenge /\ r.authenticated = TRUE
  BY DEF Connection
<1>2. conn'[k] = r /\ \A c \in Conn \ {k} : conn'[c] = conn[c]
  OBVIOUS
<1> HIDE DEF r
<1> QED  BY <1>1, <1>2 DEF ConnNow

\* The end of a connection takes it out of those a rotation waits for.
LEMMA LeavingIsSafe ==
    ASSUME AccessInv, NEW k \in Conn, Leaves(k), overlapped' = overlapped
    PROVE  ConnectionsServed' /\ (~overlapped' => ChallengesAreCurrent')
<1>0. /\ ConnectionsServed /\ conn \in [Conn -> Connection]
      /\ server \in [Server -> Process]
      /\ ~overlapped => ChallengesAreCurrent
  BY DEF AccessInv, Types
<1>1. conn'[k] = NoConn /\ \A c \in Conn \ {k} : conn'[c] = conn[c]
  BY <1>0 DEF Leaves
<1>2. NoConn.server \notin Server /\ NoConn.challenge = 0 /\ ~NoConn.authenticated
  BY Fresh DEF NoConn
<1>3. \A s \in Server : ConnectionsOf(s)' = ConnectionsOf(s) \ {k}
  BY <1>1, <1>2 DEF ConnectionsOf
<1>4. \A s \in Server : s # conn[k].server => k \notin ConnectionsOf(s)
  BY DEF ConnectionsOf
<1>5. \A s \in Server : \A r \in server[s].rotations :
          /\ r.closing \subseteq ConnectionsOf(s)
          /\ [r EXCEPT !.closing = @ \ {k}].closing = r.closing \ {k}
  <2>1. \A s \in Server : \A r \in server[s].rotations :
            r \in [gen : Generation, closing : SUBSET Conn]
    BY <1>0, RotationTyped
  <2> QED  BY <1>0, <2>1 DEF ConnectionsServed
<1>6. \A s \in Server : \A r \in server'[s].rotations :
          \E q \in server[s].rotations :
              /\ r.closing = q.closing \ {k}
              /\ server[s].rotations = {q} => server'[s].rotations = {r}
  <2>1. ASSUME NEW s \in Server, s = conn[k].server, NEW r \in server'[s].rotations
        PROVE  \E q \in server[s].rotations :
                  /\ r.closing = q.closing \ {k}
                  /\ server[s].rotations = {q} => server'[s].rotations = {r}
    <3>1. server'[s].rotations = {[q EXCEPT !.closing = @ \ {k}] : q \in server[s].rotations}
      BY <2>1 DEF Leaves
    <3>2. PICK q \in server[s].rotations : r = [q EXCEPT !.closing = @ \ {k}]
      BY <2>1, <3>1
    <3> QED  BY <1>5, <3>1, <3>2
  <2>2. ASSUME NEW s \in Server, s # conn[k].server, NEW r \in server'[s].rotations
        PROVE  /\ r \in server[s].rotations /\ r.closing = r.closing \ {k}
               /\ server'[s].rotations = server[s].rotations
    <3>1. server'[s].rotations = server[s].rotations
      BY <2>2 DEF Leaves
    <3> QED  BY <1>4, <1>5, <2>2, <3>1
  <2> QED  BY <2>1, <2>2
<1>7. \A s \in Server : server'[s].gen = server[s].gen /\ server'[s].refusing = server[s].refusing
  BY DEF Leaves, SameProcesses
<1>8. \A s \in Server : Serving(s)' = Serving(s)
  BY DEF Leaves, SameProcesses, Serving, Listens
<1>9. ConnectionsServed'
  <2>1. ASSUME NEW c \in Conn, conn'[c] # NoConn
        PROVE  (conn[c].server \in Server /\ Serving(conn[c].server))'
    BY <1>0, <1>1, <1>8, <2>1 DEF ConnectionsServed
  <2>2. \A s \in Server : \A r \in server'[s].rotations : r.closing \subseteq ConnectionsOf(s)'
    BY <1>3, <1>5, <1>6
  <2>3. \A c \in Conn : conn'[c].authenticated => conn'[c].challenge # 0
    BY <1>0, <1>1, <1>2 DEF ConnectionsServed
  <2> QED  BY <2>1, <2>2, <2>3 DEF ConnectionsServed
<1>10. ASSUME ~overlapped' PROVE ChallengesAreCurrent'
  <2>0. ChallengesAreCurrent
    BY <1>0, <1>10
  <2>1. \A c \in Conn : conn[c].challenge # 0 => conn[c].server \in Server
    BY <1>0, <1>2 DEF ConnectionsServed
  <2>2. \A c \in Conn : conn'[c].challenge # 0 => conn'[c].challenge = server'[conn'[c].server].gen
    BY <1>1, <1>2, <1>7, <2>0, <2>1 DEF ChallengesAreCurrent
  <2>3. ASSUME NEW s \in Server, NEW r \in server'[s].rotations
        PROVE  /\ server'[s].rotations = {r} /\ r.closing = ConnectionsOf(s)'
               /\ server'[s].refusing
    <3>1. PICK q \in server[s].rotations :
              /\ r.closing = q.closing \ {k}
              /\ server[s].rotations = {q} => server'[s].rotations = {r}
      BY <1>6
    <3>2. server[s].rotations = {q} /\ q.closing = ConnectionsOf(s) /\ server[s].refusing
      BY <2>0 DEF ChallengesAreCurrent
    <3> QED  BY <1>3, <1>7, <3>1, <3>2
  <2>4. \A c \in Conn : conn'[c] # NoConn => conn'[c].listed
    BY <1>1, <2>0 DEF ChallengesAreCurrent
  <2> QED  BY <2>2, <2>3, <2>4 DEF ChallengesAreCurrent
<1> QED  BY <1>9, <1>10

\* Every step keeps connections served and their challenges current.
LEMMA ConnectionsStep ==
    ASSUME AccessInv, Next
    PROVE  ConnectionsServed' /\ (~overlapped' => ChallengesAreCurrent')
<1>0. /\ server \in [Server -> Process] /\ conn \in [Conn -> Connection] /\ Types
      /\ OnlyServersWork /\ ConnectionsServed
      /\ overlapped => overlapped'
      /\ ~overlapped => ChallengesAreCurrent
  BY OverlapTyped DEF AccessInv, Types
<1>1. ASSUME NEW p \in Server, ServerStep(p) \/ RotationStep(p)
      PROVE  ConnectionsServed' /\ (~overlapped' => ChallengesAreCurrent')
  BY <1>0, <1>1, ServersKeepOrDrop, KeepsOrDrops
<1>2. ASSUME UNCHANGED <<server, conn>>
      PROVE  ConnectionsServed' /\ (~overlapped' => ChallengesAreCurrent')
  BY <1>0, <1>2 DEF ConnectionsServed, ChallengesAreCurrent, ConnectionsOf, Serving, Listens
<1>3. ASSUME NEW k \in Conn, ConnStep(k)
      PROVE  ConnectionsServed' /\ (~overlapped' => ChallengesAreCurrent')
  <2>0. NoConn.server \notin Server /\ NoConn.challenge = 0 /\ ~NoConn.authenticated
    BY Fresh DEF NoConn
  <2>00. overlapped' = overlapped
    BY <1>3 DEF ConnStep, Accept, Hello, AccessProof, Post, Disconnect, history
  <2>1. CASE Accept(k)
    <3>1. PICK s \in Server :
              /\ Listens(s) /\ ~server[s].refusing /\ UNCHANGED server
              /\ conn[k] = NoConn /\ ConnNow(k, s, TRUE, 0, FALSE)
      BY <1>0, <2>1, Accepting
    <3>2. ConnectionsOf(s)' = ConnectionsOf(s) \cup {k}
      BY <2>0, <3>1 DEF ConnectionsOf, ConnNow
    <3>3. \A t \in Server \ {s} : ConnectionsOf(t)' = ConnectionsOf(t)
      BY <2>0, <3>1 DEF ConnectionsOf, ConnNow
    <3>4. ConnectionsServed'
      BY <1>0, <3>1, <3>2, <3>3 DEF ConnectionsServed, ConnNow, Serving, Listens
    <3>5. ASSUME ~overlapped PROVE ChallengesAreCurrent'
      BY <3>5, <1>0, <3>1, <3>3 DEF ChallengesAreCurrent, ConnNow
    <3> QED  BY <2>00, <3>4, <3>5
  <2>2. CASE Hello(k)
    <3>1. /\ conn[k] # NoConn /\ UNCHANGED server
          /\ ConnNow(k, conn[k].server, conn[k].listed, server[conn[k].server].gen,
                   conn[k].authenticated)
      BY <1>0, <2>2, Greeting
    <3>2. conn[k].server \in Server /\ server[conn[k].server].gen # 0
      BY <1>0, <3>1 DEF ConnectionsServed, OnlyServersWork
    <3>3. \A t \in Server : ConnectionsOf(t)' = ConnectionsOf(t)
      BY <3>1 DEF ConnectionsOf, ConnNow
    <3>4. ConnectionsServed'
      BY <1>0, <3>1, <3>2, <3>3 DEF ConnectionsServed, ConnNow, Serving, Listens
    <3>5. ASSUME ~overlapped PROVE ChallengesAreCurrent'
      BY <3>5, <1>0, <3>1, <3>2, <3>3 DEF ChallengesAreCurrent, ConnNow
    <3> QED  BY <2>00, <3>4, <3>5
  <2>3. CASE AccessProof(k)
    <3>1. conn[k].challenge # 0 /\ conn[k] # NoConn
      BY <2>0, <2>3 DEF AccessProof
    <3>2. conn[k].server \in Server
      BY <1>0, <3>1 DEF ConnectionsServed
    <3>3. CASE Leaves(k)  BY <2>00, <3>3, LeavingIsSafe
    <3>4. CASE conn' = [conn EXCEPT ![k].authenticated = TRUE] /\ UNCHANGED server
      <4>1. ConnNow(k, conn[k].server, conn[k].listed, conn[k].challenge, TRUE)
        BY <1>0, <3>4, Authenticating
      <4>2. \A t \in Server : ConnectionsOf(t)' = ConnectionsOf(t)
        BY <4>1 DEF ConnectionsOf, ConnNow
      <4>3. ConnectionsServed'
        BY <1>0, <3>1, <3>4, <4>1, <4>2 DEF ConnectionsServed, ConnNow, Serving, Listens
      <4>4. ASSUME ~overlapped PROVE ChallengesAreCurrent'
        BY <4>4, <1>0, <3>1, <3>4, <4>1, <4>2 DEF ChallengesAreCurrent, ConnNow
      <4> QED  BY <2>00, <4>3, <4>4
    <3> QED  BY <1>0, <2>3, <3>2, <3>3, <3>4, Proving
  <2>4. CASE Post(k)  BY <1>2, <2>00, <2>4 DEF Post
  <2>5. CASE Disconnect(k)
    <3>1. conn[k] # NoConn /\ conn' = [conn EXCEPT ![k] = NoConn] /\ Forget(k)
      BY <2>5 DEF Disconnect
    <3>2. conn[k].server \in Server
      BY <1>0, <3>1 DEF ConnectionsServed
    <3> QED  BY <1>0, <2>00, <3>1, <3>2, Leaving, LeavingIsSafe
  <2> QED  BY <1>3, <2>1, <2>2, <2>3, <2>4, <2>5 DEF ConnStep
<1>4. ASSUME AdminStep PROVE ConnectionsServed' /\ (~overlapped' => ChallengesAreCurrent')
  <2>1. UNCHANGED conn
    BY <1>4 DEF AdminStep, RotateAccess, Status, AdminRequest, AdminAnswered, AdminTimesOut,
       CheckLock, OfflineOpen, OfflineSave, OfflineBind, OfflineStatus, OfflineCounts,
       AdminStops, BackUpDatabase, BackUpState, Restore
  <2>2. CASE UNCHANGED server  BY <1>2, <2>1, <2>2
  <2>3. CASE ~UNCHANGED server
    <3>1. PICK p \in Server :
              Now(p, server[p].step, server[p].fd, server[p].gen,
                  Append(server[p].inbox, admin.new), server[p].rotations,
                  server[p].refusing, server[p].stop)
      BY <1>0, <1>4, <2>3, AdminStepKeepsProcesses
    <3>2. Serving(p) => Serving(p)'
      BY <3>1 DEF Now, Serving, Listens
    <3>3. Keeps(p)
      BY <1>0, <2>1, <3>1, <3>2 DEF Keeps, SameConnections, Now, ConnectionsServed, ChallengesAreCurrent
    <3> QED  BY <1>0, <3>1, <3>3, KeepsOrDrops DEF Now
  <2> QED  BY <2>2, <2>3
<1> QED  BY <1>1, <1>3, <1>4 DEF Next

-----------------------------------------------------------------------------
(* The requests of the owner *)

\* The elements of the tail of a sequence, and those of a longer one (Appended).
LEMMA HeadAndTail ==
    ASSUME NEW q \in Seq(Generation), q # <<>>
    PROVE  /\ 1 \in 1..Len(q) /\ Head(q) = q[1] /\ Len(q) \in Nat
           /\ Len(Tail(q)) = Len(q) - 1
           /\ \A i \in 1..Len(Tail(q)) : i + 1 \in 1..Len(q) /\ Tail(q)[i] = q[i + 1]
OBVIOUS

LEMMA Appended ==
    ASSUME NEW q \in Seq(Generation), NEW g \in Generation
    PROVE  /\ Len(q) \in Nat /\ Len(Append(q, g)) = Len(q) + 1
           /\ \A i \in 1..Len(q) : Append(q, g)[i] = q[i]
           /\ Append(q, g)[Len(q) + 1] = g
OBVIOUS

\* What a step may do to the requests of a process s.
Inbox(s) ==
    \/ server'[s].inbox = server[s].inbox
    \/ server'[s].inbox = <<>>
    \/ server[s].inbox # <<>> /\ server'[s].inbox = Tail(server[s].inbox)
    \/ /\ AdminRequest /\ admin.step = "asking" /\ admin.command = "rotate"
       /\ server'[s].inbox = Append(server[s].inbox, admin.new)

\* Every step takes requests out, or adds that of the owner's command at the end.
LEMMA InboxesStep ==
    ASSUME AccessInv, Next
    PROVE  \A s \in Server : Inbox(s)
<1>0. server \in [Server -> Process] /\ Types /\ ConnectionsServed /\ CommandsProceed
  BY DEF AccessInv, Types
<1>1. ASSUME NEW p \in Server, ServerStep(p) PROVE \A s \in Server : Inbox(s)
  <2>1. CASE OpenPidFile(p)
    <3>1. \E i : Now(p, "opened", i, server[p].gen, server[p].inbox,
                   server[p].rotations,
                     server[p].refusing, server[p].stop)
      BY <1>0, <2>1, Opening
    <3> QED  BY <3>1 DEF Now, Inbox
  <2>2. CASE LockPidFile(p)
    <3>1. Ends(p) \/ Moves(p, "locked")
      BY <1>0, <2>2, Ending, Moving DEF LockPidFile, To
    <3> QED  BY <3>1 DEF Ends, Moves, Now, Inbox
  <2>3. CASE LoadAccessState(p)
    <3>1. Now(p, "loaded", server[p].fd, disk, server[p].inbox,
               server[p].rotations,
              server[p].refusing, server[p].stop)
      BY <1>0, <2>3, Loading
    <3> QED  BY <3>1 DEF Now, Inbox
  <2>4. CASE StartRelay(p)
    <3>1. Moves(p, "relay_closed") \/ Moves(p, "listening")
      BY <1>0, <2>4, Moving DEF StartRelay, To
    <3> QED  BY <3>1 DEF Moves, Now, Inbox
  <2>5. CASE StartAdminSocket(p)
    <3>1. Moves(p, "up")
      BY <1>0, <2>5, Moving DEF StartAdminSocket, To
    <3> QED  BY <3>1 DEF Moves, Now, Inbox
  <2>6. CASE CloseRelay(p)
    <3>1. Stops(p)
      BY <1>0, <2>6, Stopping DEF CloseRelay
    <3> QED  BY <3>1 DEF Stops, Now, Inbox
  <2>7. CASE UnlinkSocket(p)
    <3>1. Moves(p, "closed")
      BY <1>0, <2>7, Moving DEF UnlinkSocket, To
    <3> QED  BY <3>1 DEF Moves, Now, Inbox
  <2>8. CASE UnlockPidFile(p)
    <3>1. Now(p, "unlocked", NoFile, server[p].gen, server[p].inbox,
               server[p].rotations,
              server[p].refusing, server[p].stop)
      BY <1>0, <2>8, Unlocking
    <3> QED  BY <3>1 DEF Now, Inbox
  <2>9. CASE UnlinkPidFile(p)
    <3>1. Ends(p)
      BY <1>0, <2>9, Ending DEF UnlinkPidFile
    <3> QED  BY <3>1 DEF Ends, Now, Inbox
  <2>10. CASE Crash(p)
    <3>1. Ends(p)
      BY <1>0, <2>10, Ending DEF Crash
    <3> QED  BY <3>1 DEF Ends, Now, Inbox
  <2>11. CASE StopServer(p) \/ CloseListener(p)
    <3>1. /\ \/ server[p].step = "up" /\ Moves(p, "stopping")
             \/ server[p].step \in {"listening", "stopping"} /\ Moves(p, "closing")
          /\ conn' = conn /\ raced' = raced /\ pidFile' = pidFile
      BY <1>0, <2>11, ClosingDown
    <3> QED  BY <3>1 DEF Moves, Now, Inbox
  <2> QED  BY <1>1, <2>1, <2>2, <2>3, <2>4, <2>5, <2>6, <2>7, <2>8, <2>9, <2>10, <2>11
           DEF ServerStep
<1>2. ASSUME NEW p \in Server, RotationStep(p) PROVE \A s \in Server : Inbox(s)
  <2>1. CASE HandleRotate(p)
    <3>1. Now(p, server[p].step, server[p].fd, server[p].gen, Tail(server[p].inbox),
              Begun(p), TRUE, server[p].stop)
      BY <1>0, <2>1, Rotating
    <3>2. server[p].inbox # <<>>
      BY <2>1 DEF HandleRotate
    <3> QED  BY <3>1, <3>2 DEF Now, Inbox
  <2>2. CASE FinishRotation(p) \/ FailRotation(p)
    <3>1. \E g, R, stop : Now(p, server[p].step, server[p].fd, g, server[p].inbox, R, FALSE, stop)
      BY <1>0, <2>2, Finishing
    <3> QED  BY <3>1 DEF Now, Inbox
  <2> QED  BY <1>2, <2>1, <2>2 DEF RotationStep
<1>3. ASSUME NEW k \in Conn, ConnStep(k) PROVE \A s \in Server : Inbox(s)
  <2>1. SameProcesses
    BY <1>0, <1>3, ConnStepKeepsProcesses
  <2> QED  BY <2>1 DEF SameProcesses, Inbox
<1>4. ASSUME AdminStep PROVE \A s \in Server : Inbox(s)
  <2>1. CASE UNCHANGED server  BY <2>1 DEF Inbox
  <2>2. CASE ~UNCHANGED server
    <3>1. PICK p \in Server :
              /\ AdminRequest /\ admin.step = "asking" /\ admin.command # "status"
              /\ Now(p, server[p].step, server[p].fd, server[p].gen,
                  Append(server[p].inbox, admin.new), server[p].rotations,
                     server[p].refusing, server[p].stop)
      BY <1>0, <1>4, <2>2, AdminStepKeepsProcesses
    <3>2. admin.command = "rotate"
      BY <1>0, <3>1 DEF CommandsProceed
    <3> QED  BY <3>1, <3>2 DEF Now, Inbox
  <2> QED  BY <2>1, <2>2
<1> QED  BY <1>1, <1>2, <1>3, <1>4 DEF Next

\* A command that goes on to another step keeps what it is about.
LEMMA CommandMoves ==
    ASSUME admin \in Command, NEW step, admin' = [admin EXCEPT !.step = step]
    PROVE  /\ admin'.step = step /\ admin'.command = admin.command
           /\ admin'.old = admin.old /\ admin'.new = admin.new
BY DEF Command

\* A command asks after it was given, and no other step than that of its start
\* makes it ask.
LEMMA AskingStep ==
    ASSUME AccessInv, Next, admin'.step = "asking"
    PROVE  \/ RotateAccess
           \/ Status
           \/ /\ UNCHANGED admin
              /\ disk' = disk \/ \E p \in Server : HandleRotate(p)
<1>0. admin \in Command
  BY DEF AccessInv, Types
<1> USE DEF store
<1>1. ASSUME NEW p \in Server, ServerStep(p) PROVE UNCHANGED <<admin, disk>>
  BY <1>1 DEF ServerStep, OpenPidFile, LockPidFile, LoadAccessState, StartRelay,
     StartAdminSocket, StopServer, CloseListener, CloseRelay, UnlinkSocket, UnlockPidFile, UnlinkPidFile, Crash
<1>2. ASSUME NEW p \in Server, RotationStep(p)
      PROVE  UNCHANGED admin /\ (disk' = disk \/ HandleRotate(p))
  <2>1. CASE HandleRotate(p)  BY <2>1 DEF HandleRotate
  <2>2. CASE FinishRotation(p)
    <3>1. admin' = admin \/ admin' = [admin EXCEPT !.step = "answered"]
      BY <2>2 DEF FinishRotation
    <3>2. admin' # [admin EXCEPT !.step = "answered"]
      BY <1>0, CommandMoves
    <3> QED  BY <2>2, <3>1, <3>2 DEF FinishRotation
  <2>3. CASE FailRotation(p)  BY <2>3 DEF FailRotation
  <2> QED  BY <1>2, <2>1, <2>2, <2>3 DEF RotationStep
<1>3. ASSUME NEW k \in Conn, ConnStep(k) PROVE UNCHANGED <<admin, disk>>
  BY <1>3 DEF ConnStep, Accept, Hello, AccessProof, Post, Disconnect
<1>4. ASSUME AdminStep, ~RotateAccess, ~Status PROVE FALSE
  <2>1. /\ NoCommand.step # "asking"
        /\ [NoCommand EXCEPT !.command = "backup", !.step = "copied"].step # "asking"
    BY DEF NoCommand
  <2>2. \A step \in {"waiting", "unavailable", "offline", "opened", "saved", "answered"} :
            admin' # [admin EXCEPT !.step = step]
    BY <1>0, CommandMoves
  <2>3. [admin EXCEPT !.step = "loaded", !.old = disk].step # "asking"
    BY <1>0 DEF Command
  <2>4. CASE AdminRequest  BY <2>1, <2>2, <2>4 DEF AdminRequest, AdminTo
  <2>5. CASE AdminAnswered \/ AdminTimesOut \/ CheckLock
    BY <2>1, <2>2, <2>5 DEF AdminAnswered, AdminTimesOut, CheckLock, AdminTo
  <2>6. CASE OfflineOpen \/ OfflineSave \/ OfflineBind
    BY <2>1, <2>2, <2>6 DEF OfflineOpen, OfflineSave, OfflineBind, AdminTo
  <2>7. CASE OfflineStatus  BY <2>3, <2>7 DEF OfflineStatus
  <2>8. CASE OfflineCounts \/ AdminStops \/ BackUpDatabase \/ BackUpState
    BY <2>1, <2>8 DEF OfflineCounts, AdminStops, BackUpDatabase, BackUpState
  <2>9. CASE Restore  BY <2>1, <2>9 DEF Restore
  <2> QED  BY <1>4, <2>4, <2>5, <2>6, <2>7, <2>8, <2>9 DEF AdminStep
<1> QED  BY <1>1, <1>2, <1>3, <1>4 DEF Next

\* Requests are for generations that were created.
LEMMA InboxTyped ==
    ASSUME Types, NEW s \in Server
    PROVE  /\ server[s].inbox \in Seq(Generation)
           /\ \A i \in 1..Len(server[s].inbox) :
                  server[s].inbox[i] \in Nat /\ server[s].inbox[i] <= created
<1>1. server[s].inbox \in Seq(Generation)
  BY DEF Types, Process
<1>2. \A i \in 1..Len(server[s].inbox) : server[s].inbox[i] \in Generation
  BY <1>1
<1>3. \A g \in Generation : g \in Nat /\ g <= created
  BY DEF Types, Generation
<1> QED  BY <1>1, <1>2, <1>3

\* The requests of one process are for growing generations, and still are when the
\* first is taken out or a newer one is added.
Grows(q) == \A i, j \in 1..Len(q) : i < j => q[i] < q[j]

LEMMA GrowingTail ==
    ASSUME NEW q \in Seq(Generation), q # <<>>, Grows(q)
    PROVE  Grows(Tail(q))
<1>1. /\ Len(q) \in Nat /\ Len(Tail(q)) = Len(q) - 1
      /\ \A i \in 1..Len(Tail(q)) : i + 1 \in 1..Len(q) /\ Tail(q)[i] = q[i + 1]
  BY HeadAndTail
<1>2. ASSUME NEW i \in 1..Len(Tail(q)), NEW j \in 1..Len(Tail(q)), i < j
      PROVE  Tail(q)[i] < Tail(q)[j]
  <2>1. i + 1 \in 1..Len(q) /\ j + 1 \in 1..Len(q) /\ i + 1 < j + 1
    BY <1>1, <1>2
  <2>2. q[i + 1] < q[j + 1]
    BY <2>1 DEF Grows
  <2> QED  BY <1>1, <2>2
<1> QED  BY <1>2 DEF Grows

LEMMA GrowingAppend ==
    ASSUME NEW q \in Seq(Generation), NEW g \in Generation, Grows(q),
           \A i \in 1..Len(q) : q[i] < g
    PROVE  Grows(Append(q, g))
<1>1. /\ Len(q) \in Nat /\ Len(Append(q, g)) = Len(q) + 1
      /\ \A i \in 1..Len(q) : Append(q, g)[i] = q[i]
      /\ Append(q, g)[Len(q) + 1] = g
  BY Appended
<1>2. ASSUME NEW i \in 1..Len(Append(q, g)), NEW j \in 1..Len(Append(q, g)), i < j
      PROVE  Append(q, g)[i] < Append(q, g)[j]
  <2>1. i \in 1..Len(q) /\ (j \in 1..Len(q) \/ j = Len(q) + 1)
    BY <1>1, <1>2
  <2> QED  BY <1>1, <1>2, <2>1 DEF Grows
<1> QED  BY <1>2 DEF Grows

\* Every step keeps the requests in order, and those before the command's own older.
LEMMA RequestsStep ==
    ASSUME AccessInv, Next
    PROVE  RequestsInOrder'
<1>0. Types /\ RequestsInOrder /\ CommandsProceed /\ server \in [Server -> Process]
  BY DEF AccessInv, Types
<1>1. ASSUME NEW s \in Server PROVE Grows(server'[s].inbox)
  <2>0. server[s].inbox \in Seq(Generation)
    BY <1>0, InboxTyped
  <2>1. Grows(server[s].inbox)
    BY <1>0 DEF RequestsInOrder, Grows
  <2>2. Inbox(s)
    BY InboxesStep
  <2>3. CASE server'[s].inbox = server[s].inbox  BY <2>1, <2>3
  <2>4. CASE server'[s].inbox = <<>>  BY <2>4 DEF Grows
  <2>5. CASE server[s].inbox # <<>> /\ server'[s].inbox = Tail(server[s].inbox)
    BY <2>0, <2>1, <2>5, GrowingTail
  <2>6. CASE /\ admin.step = "asking" /\ admin.command = "rotate"
             /\ server'[s].inbox = Append(server[s].inbox, admin.new)
    <3>1. admin.new \in Generation
      BY <1>0, <2>6 DEF CommandsProceed, Types, Generation
    <3>2. \A i \in 1..Len(server[s].inbox) : server[s].inbox[i] < admin.new
      BY <1>0, <2>6 DEF RequestsInOrder
    <3> QED  BY <2>0, <2>1, <2>6, <3>1, <3>2, GrowingAppend
  <2> QED  BY <2>2, <2>3, <2>4, <2>5, <2>6 DEF Inbox
<1>2. ASSUME admin'.command = "rotate", admin'.step = "asking"
      PROVE  /\ disk' < admin'.new
             /\ \A s \in Server : \A i \in 1..Len(server'[s].inbox) :
                   server'[s].inbox[i] < admin'.new
  <2>1. CASE RotateAccess
    <3>1. admin'.new = created + 1 /\ disk' = disk /\ server' = server
      BY <2>1 DEF RotateAccess, store
    <3>2. disk \in Nat /\ disk <= created /\ created \in Nat
      BY <1>0 DEF Types, Generation
    <3>3. ASSUME NEW s \in Server, NEW i \in 1..Len(server[s].inbox)
          PROVE  server[s].inbox[i] < created + 1
      BY <1>0, <3>2, InboxTyped
    <3> QED  BY <3>1, <3>2, <3>3
  <2>2. CASE Status
    BY <1>2, <2>2 DEF Status, NoCommand
  <2>3. CASE UNCHANGED admin /\ (disk' = disk \/ \E p \in Server : HandleRotate(p))
    <3>1. /\ admin.command = "rotate" /\ admin.step = "asking" /\ admin'.new = admin.new
      BY <1>2, <2>3
    <3>2. /\ disk < admin.new
          /\ \A s \in Server : \A i \in 1..Len(server[s].inbox) :
                server[s].inbox[i] < admin.new
      BY <1>0, <3>1 DEF RequestsInOrder
    <3>3. disk' < admin.new
      <4>1. ASSUME NEW p \in Server, HandleRotate(p) PROVE disk' < admin.new
        <5>1. server[p].inbox # <<>> /\ disk' = Head(server[p].inbox)
          BY <4>1 DEF HandleRotate
        <5>2. 1 \in 1..Len(server[p].inbox) /\ Head(server[p].inbox) = server[p].inbox[1]
          BY <1>0, <5>1, InboxTyped, HeadAndTail
        <5> QED  BY <3>2, <5>1, <5>2
      <4> QED  BY <2>3, <3>2, <4>1
    <3>4. ASSUME NEW s \in Server, NEW i \in 1..Len(server'[s].inbox)
          PROVE  server'[s].inbox[i] < admin.new
      <4>0. server[s].inbox \in Seq(Generation)
        BY <1>0, InboxTyped
      <4>1. CASE server'[s].inbox = server[s].inbox  BY <3>2, <4>1
      <4>2. CASE server'[s].inbox = <<>>  BY <4>2
      <4>3. CASE server[s].inbox # <<>> /\ server'[s].inbox = Tail(server[s].inbox)
        <5>1. /\ i \in 1..Len(Tail(server[s].inbox))
              /\ \A j \in 1..Len(Tail(server[s].inbox)) :
                    /\ j + 1 \in 1..Len(server[s].inbox)
                    /\ Tail(server[s].inbox)[j] = server[s].inbox[j + 1]
          BY <4>0, <4>3, HeadAndTail
        <5>2. server[s].inbox[i + 1] < admin.new
          BY <3>2, <5>1
        <5> QED  BY <4>3, <5>1, <5>2
      <4>4. CASE AdminRequest /\ admin.step = "asking"
        <5>1. admin' # admin
          <6>1. admin \in Command
            BY <1>0 DEF Types
          <6>2. NoCommand.step # "asking"
            BY DEF NoCommand
          <6>3. \A step \in {"waiting", "unavailable"} :
                    [admin EXCEPT !.step = step].step # "asking"
            BY <6>1 DEF Command
          <6> QED  BY <4>4, <6>2, <6>3 DEF AdminRequest, AdminTo
        <5> QED  BY <2>3, <5>1
      <4> QED  BY <4>1, <4>2, <4>3, <4>4, InboxesStep DEF Inbox
    <3> QED  BY <3>1, <3>3, <3>4
  <2> QED  BY <1>2, <2>1, <2>2, <2>3, AskingStep
<1> QED  BY <1>1, <1>2 DEF RequestsInOrder, Grows

-----------------------------------------------------------------------------
(* The state on disk, the database and the processes *)

\* A race is not forgotten.
LEMMA RacedStays ==
    ASSUME Types, Next
    PROVE  raced => raced'
<1>1. ASSUME NEW p \in Server, ServerStep(p) PROVE raced => raced'
  BY <1>1 DEF ServerStep, OpenPidFile, LockPidFile, LoadAccessState, StartRelay,
     StartAdminSocket, StopServer, CloseListener, CloseRelay, UnlinkSocket, UnlockPidFile, UnlinkPidFile, Crash
<1>2. ASSUME NEW p \in Server, RotationStep(p) PROVE raced => raced'
  BY <1>2 DEF RotationStep, HandleRotate, Begin, FinishRotation, FailRotation, End
<1>3. ASSUME NEW k \in Conn, ConnStep(k) PROVE raced => raced'
  BY <1>3 DEF ConnStep, Accept, Hello, AccessProof, Post, Disconnect
<1>4. ASSUME AdminStep PROVE raced => raced'
  BY <1>4 DEF AdminStep, RotateAccess, Status, AdminRequest, AdminAnswered, AdminTimesOut,
     CheckLock, OnDisk, OfflineOpen, OfflineSave, OfflineBind, OfflineStatus, OfflineCounts,
     AdminStops, BackUpDatabase, BackUpState, Restore
<1> QED  BY <1>1, <1>2, <1>3, <1>4 DEF Next

\* While a process holds its lock, no other one serves.
LEMMA OthersIdle ==
    ASSUME AccessInv, ~raced, NEW p \in Server, Holds(p)
    PROVE  \A t \in Server \ {p} :
              server[t].step # "loaded" /\ ~Serving(t) /\ server[t].inbox = <<>>
<1>0. LocksExclude /\ OnlyServersWork
  BY DEF AccessInv
<1>1. \A t \in Server : Holds(t) => server[t].fd = pidFile
  BY <1>0 DEF LocksExclude, Holds
<1>2. \A t \in Server \ {p} : ~Holds(t)
  BY <1>0, <1>1 DEF LocksExclude
<1> QED  BY <1>0, <1>2 DEF OnlyServersWork, Holds, Serving, Listens, Rotates

\* A process that neither serves nor has loaded the state follows any disk.
LEMMA IdleFollows ==
    ASSUME NEW p \in Server, server'[p].step # "loaded", ~Serving(p)', server'[p].inbox = <<>>
    PROVE  FollowsDisk(p)'
<1>1. \A i \in 1..Len(server'[p].inbox) : disk' < server'[p].inbox[i]
  <2>1. Len(<<>>) = 0
    OBVIOUS
  <2>2. 1..Len(server'[p].inbox) = {}
    BY <2>1
  <2> QED  BY <2>2
<1> QED  BY <1>1 DEF FollowsDisk

\* A step of p that leaves the disk alone.
LEMMA FollowsStill ==
    ASSUME ServersFollowDisk, StoreIsConsistent, NEW p \in Server,
           UNCHANGED <<disk, db, records, promised, admin, backup, overlapped>>,
           \A t \in Server \ {p} : server'[t] = server[t], FollowsDisk(p)'
    PROVE  ServersFollowDisk' /\ StoreIsConsistent'
<1>1. ASSUME NEW t \in Server \ {p} PROVE FollowsDisk(t)'
  BY DEF ServersFollowDisk, FollowsDisk, Serving, Listens
<1>2. ServersFollowDisk'
  BY <1>1 DEF ServersFollowDisk
<1>3. StoreIsConsistent'
  BY DEF StoreIsConsistent
<1> QED  BY <1>2, <1>3

\* A step of p that changes the disk, while no other process serves.
LEMMA FollowsAlone ==
    ASSUME AccessInv, ~raced, NEW p \in Server, Holds(p),
           \A t \in Server \ {p} : server'[t] = server[t], FollowsDisk(p)'
    PROVE  ServersFollowDisk'
<1>1. ASSUME NEW t \in Server \ {p} PROVE FollowsDisk(t)'
  <2>1. server[t].step # "loaded" /\ ~Serving(t) /\ server[t].inbox = <<>>
    BY OthersIdle
  <2> QED  BY <2>1 DEF FollowsDisk, Serving, Listens
<1> QED  BY <1>1 DEF ServersFollowDisk

\* A process that starts, stops or crashes leaves the disk, the database and the other
\* processes consistent.
LEMMA DiskServerStep ==
    ASSUME AccessInv, ~raced, NEW p \in Server, ServerStep(p)
    PROVE  ServersFollowDisk' /\ StoreIsConsistent'
<1>0. /\ server \in [Server -> Process] /\ OnlyServersWork
      /\ ServersFollowDisk /\ StoreIsConsistent
  BY DEF AccessInv, Types
<1> USE DEF store, history
<1>1. ServersFollowDisk' /\ StoreIsConsistent'
  <2>1. CASE OpenPidFile(p)
    <3>1. \E i : Now(p, "opened", i, server[p].gen, server[p].inbox,
                   server[p].rotations,
                     server[p].refusing, server[p].stop)
      BY <1>0, <2>1, Opening
    <3>2. server[p].step = "off"
      BY <2>1 DEF OpenPidFile
    <3>3. server[p].inbox = <<>>
      BY <1>0, <3>2 DEF OnlyServersWork, Rotates
    <3>4. UNCHANGED <<disk, db, records, promised, admin, backup, overlapped>>
      BY <2>1 DEF OpenPidFile, store, history
    <3>5. FollowsDisk(p)'
      BY <3>1, <3>3 DEF FollowsDisk, Serving, Listens, Now
    <3> QED  BY <1>0, <3>1, <3>4, <3>5, FollowsStill DEF Now
  <2>2. CASE LockPidFile(p)
    <3>1. Ends(p) \/ Moves(p, "locked")
      BY <1>0, <2>2, Ending, Moving DEF LockPidFile, To
    <3>2. server[p].step = "opened"
      BY <2>2 DEF LockPidFile
    <3>3. server[p].inbox = <<>>
      BY <1>0, <3>2 DEF OnlyServersWork, Rotates
    <3>4. UNCHANGED <<disk, db, records, promised, admin, backup, overlapped>>
      BY <2>2 DEF LockPidFile, store, history
    <3>5. FollowsDisk(p)'
      BY <3>1, <3>3 DEF FollowsDisk, Serving, Listens, Ends, Moves, Now
    <3> QED  BY <1>0, <3>1, <3>4, <3>5, FollowsStill DEF Ends, Moves, Now
  <2>3. CASE LoadAccessState(p)
    <3>1. Now(p, "loaded", server[p].fd, disk, server[p].inbox,
               server[p].rotations,
              server[p].refusing, server[p].stop)
      BY <1>0, <2>3, Loading
    <3>2. server[p].step = "locked"
      BY <2>3 DEF LoadAccessState
    <3>3. server[p].inbox = <<>>
      BY <1>0, <3>2 DEF OnlyServersWork, Rotates
    <3>4. UNCHANGED <<disk, db, records, promised, admin, backup, overlapped>>
      BY <2>3 DEF LoadAccessState, store, history
    <3>5. FollowsDisk(p)'
      BY <3>1, <3>3, <3>4 DEF FollowsDisk, Serving, Listens, Now
    <3> QED  BY <1>0, <3>1, <3>4, <3>5, FollowsStill DEF Now
  <2>4. CASE StartRelay(p)
    <3>1. Moves(p, "relay_closed") \/ Moves(p, "listening")
      BY <1>0, <2>4, Moving DEF StartRelay, To
    <3>2. /\ server[p].step = "loaded" /\ db' = server[p].gen
          /\ records' = (IF db = server[p].gen THEN records ELSE {})
          /\ UNCHANGED <<disk, promised, admin, backup, overlapped>>
      BY <2>4 DEF StartRelay, Bound
    <3>3. server[p].gen = disk
      BY <1>0, <3>2 DEF ServersFollowDisk, FollowsDisk
    <3>4. server[p].inbox = <<>> /\ server[p].rotations = {}
      BY <1>0, <3>2 DEF OnlyServersWork, Rotates
    <3>5. FollowsDisk(p)'
      <4>1. CASE Moves(p, "relay_closed")
        <5>1. server'[p].step = "relay_closed" /\ server'[p].inbox = <<>>
          BY <3>4, <4>1 DEF Moves, Now
        <5>2. server'[p].step # "loaded" /\ ~Serving(p)'
          BY <5>1 DEF Serving, Listens
        <5> QED  BY <5>1, <5>2, IdleFollows
      <4>2. CASE Moves(p, "listening")
        BY <3>2, <3>3, <3>4, <4>2 DEF FollowsDisk, Serving, Listens, Moves, Now
      <4> QED  BY <3>1, <4>1, <4>2
    <3>6. Holds(p)
      BY <3>2 DEF Holds
    <3>7. ServersFollowDisk'
      BY <3>1, <3>5, <3>6, FollowsAlone DEF Moves, Now
    <3>8. disk \in Nat
      BY DEF AccessInv, Types, Generation
    <3>9. StoreIsConsistent'
      BY <1>0, <3>2, <3>3, <3>8 DEF StoreIsConsistent
    <3> QED  BY <3>7, <3>9
  <2>5. CASE StartAdminSocket(p)
    <3>1. Moves(p, "up")
      BY <1>0, <2>5, Moving DEF StartAdminSocket, To
    <3>2. server[p].step = "listening"
      BY <2>5 DEF StartAdminSocket
    <3>4. UNCHANGED <<disk, db, records, promised, admin, backup, overlapped>>
      BY <2>5 DEF StartAdminSocket
    <3>5. FollowsDisk(p)'
      BY <1>0, <3>1, <3>2, <3>4 DEF ServersFollowDisk, FollowsDisk, Serving, Listens, Moves, Now
    <3> QED  BY <1>0, <3>1, <3>4, <3>5, FollowsStill DEF Moves, Now
  <2>6. CASE CloseRelay(p)
    <3>1. Stops(p)
      BY <1>0, <2>6, Stopping DEF CloseRelay
    <3>4. UNCHANGED <<disk, db, records, promised, admin, backup, overlapped>>
      BY <2>6 DEF CloseRelay
    <3>2. server'[p].step = "relay_closed" /\ server'[p].inbox = <<>>
      BY <3>1 DEF Stops, Now
    <3>3. server'[p].step # "loaded" /\ ~Serving(p)'
      BY <3>2 DEF Serving, Listens
    <3>5. FollowsDisk(p)'
      BY <3>2, <3>3, IdleFollows
    <3> QED  BY <1>0, <3>1, <3>4, <3>5, FollowsStill DEF Stops, Now
  <2>7. CASE UnlinkSocket(p)
    <3>1. Moves(p, "closed")
      BY <1>0, <2>7, Moving DEF UnlinkSocket, To
    <3>2. server[p].step = "relay_closed"
      BY <2>7 DEF UnlinkSocket
    <3>3. server[p].inbox = <<>>
      BY <1>0, <3>2 DEF OnlyServersWork, Rotates
    <3>4. UNCHANGED <<disk, db, records, promised, admin, backup, overlapped>>
      BY <2>7 DEF UnlinkSocket, store, history
    <3>5. FollowsDisk(p)'
      BY <3>1, <3>3 DEF FollowsDisk, Serving, Listens, Moves, Now
    <3> QED  BY <1>0, <3>1, <3>4, <3>5, FollowsStill DEF Moves, Now
  <2>8. CASE UnlockPidFile(p)
    <3>1. Now(p, "unlocked", NoFile, server[p].gen, server[p].inbox,
               server[p].rotations,
              server[p].refusing, server[p].stop)
      BY <1>0, <2>8, Unlocking
    <3>2. server[p].step = "closed"
      BY <2>8 DEF UnlockPidFile
    <3>3. server[p].inbox = <<>>
      BY <1>0, <3>2 DEF OnlyServersWork, Rotates
    <3>4. UNCHANGED <<disk, db, records, promised, admin, backup, overlapped>>
      BY <2>8 DEF UnlockPidFile, store, history
    <3>5. FollowsDisk(p)'
      BY <3>1, <3>3 DEF FollowsDisk, Serving, Listens, Now
    <3> QED  BY <1>0, <3>1, <3>4, <3>5, FollowsStill DEF Now
  <2>9. CASE UnlinkPidFile(p)
    <3>1. Ends(p)
      BY <1>0, <2>9, Ending DEF UnlinkPidFile
    <3>2. server[p].step = "unlocked"
      BY <2>9 DEF UnlinkPidFile
    <3>3. server[p].inbox = <<>>
      BY <1>0, <3>2 DEF OnlyServersWork, Rotates
    <3>4. UNCHANGED <<disk, db, records, promised, admin, backup, overlapped>>
      BY <2>9 DEF UnlinkPidFile, store, history
    <3>5. FollowsDisk(p)'
      BY <3>1, <3>3 DEF FollowsDisk, Serving, Listens, Ends, Now
    <3> QED  BY <1>0, <3>1, <3>4, <3>5, FollowsStill DEF Ends, Now
  <2>10. CASE Crash(p)
    <3>1. Ends(p)
      BY <1>0, <2>10, Ending DEF Crash
    <3>4. UNCHANGED <<disk, db, records, promised, admin, backup, overlapped>>
      BY <2>10 DEF Crash
    <3>5. FollowsDisk(p)'
      BY <3>1 DEF FollowsDisk, Serving, Listens, Ends, Now
    <3> QED  BY <1>0, <3>1, <3>4, <3>5, FollowsStill DEF Ends, Now
  <2>11. CASE StopServer(p) \/ CloseListener(p)
    <3>1. /\ \/ server[p].step = "up" /\ Moves(p, "stopping")
             \/ server[p].step \in {"listening", "stopping"} /\ Moves(p, "closing")
          /\ UNCHANGED <<disk, db, records, promised, admin, backup, overlapped>>
      BY <1>0, <2>11, ClosingDown
    <3>2. FollowsDisk(p)'
      BY <1>0, <3>1 DEF ServersFollowDisk, FollowsDisk, Serving, Listens, Moves, Now
    <3> QED  BY <1>0, <3>1, <3>2, FollowsStill DEF Moves, Now
  <2> QED  BY <2>1, <2>2, <2>3, <2>4, <2>5, <2>6, <2>7, <2>8, <2>9, <2>10, <2>11
           DEF ServerStep
<1> QED  BY <1>1

\* A rotation saves a newer generation than any on disk, and binds the database to it
\* when it ends.
LEMMA DiskRotationStep ==
    ASSUME AccessInv, ~raced, NEW p \in Server, RotationStep(p)
    PROVE  ServersFollowDisk' /\ StoreIsConsistent'
<1>0. /\ server \in [Server -> Process] /\ Types /\ OnlyServersWork /\ CommandsProceed
      /\ ServersFollowDisk /\ StoreIsConsistent /\ RequestsInOrder
  BY DEF AccessInv, Types
<1> USE DEF store, history
<1>1. CASE HandleRotate(p)
  <2> DEFINE q == server[p].inbox
             g == Head(q)
  <2>1. Now(p, server[p].step, server[p].fd, server[p].gen, Tail(q), Begun(p), TRUE,
            server[p].stop)
    BY <1>0, <1>1, Rotating
  <2>2. /\ Rotates(p) /\ q # <<>> /\ disk' = g
        /\ overlapped' = (overlapped \/ server[p].rotations # {})
        /\ UNCHANGED <<db, records, promised, admin, backup>>
    BY <1>1 DEF HandleRotate, Begin
  <2>3. q \in Seq(Generation) /\ FollowsDisk(p)
    BY <1>0, InboxTyped DEF ServersFollowDisk
  <2>4. /\ 1 \in 1..Len(q) /\ g = q[1] /\ Len(q) \in Nat
        /\ Len(Tail(q)) = Len(q) - 1
        /\ \A i \in 1..Len(Tail(q)) : i + 1 \in 1..Len(q) /\ Tail(q)[i] = q[i + 1]
    BY <2>2, <2>3, HeadAndTail
  <2>5. g \in Nat /\ g <= created /\ disk < g
    BY <1>0, <2>3, <2>4, InboxTyped DEF FollowsDisk
  <2>6. \A i \in 1..Len(Tail(q)) : g < Tail(q)[i]
    <3>1. \A i, j \in 1..Len(q) : i < j => q[i] < q[j]
      BY <1>0 DEF RequestsInOrder
    <3>2. ASSUME NEW i \in 1..Len(Tail(q)) PROVE g < Tail(q)[i]
      <4>1. i + 1 \in 1..Len(q) /\ 1 < i + 1
        BY <2>4
      <4> QED  BY <2>4, <3>1, <4>1
    <3> QED  BY <3>2
  <2>7. Serving(p) /\ db = server[p].gen
    BY <2>2, <2>3 DEF FollowsDisk, Serving, Listens, Rotates
  <2>70. disk \in Nat /\ \A r \in server[p].rotations : r.gen \in Nat
    <3>1. server[p] \in Process
      BY <1>0
    <3>2. \A r \in server[p].rotations : r.gen \in Generation
      BY <3>1, RotationTyped
    <3> QED  BY <1>0, <3>2 DEF Types, Generation
  <2>71. \A r \in Begun(p) : r.gen <= g
    BY <2>3, <2>5, <2>7, <2>70 DEF Begun, FollowsDisk
  <2>720. ~overlapped' => ~overlapped /\ server[p].rotations = {}
    BY <2>2, Zenon
  <2>72. Begun(p) # {} /\ (~overlapped' => \A r \in Begun(p) : r.gen = g)
    <3> DEFINE b == [gen |-> g, closing |-> {c \in ConnectionsOf(p) : conn[c].listed}]
    <3>1. b.gen = g /\ Begun(p) = server[p].rotations \cup {b}
      BY DEF Begun
    <3> HIDE DEF b, g, q
    <3>2. Begun(p) # {}
      BY <3>1
    <3>3. ASSUME ~overlapped' PROVE \A r \in Begun(p) : r.gen = g
      <4>1. Begun(p) = {b}
        BY <2>720, <3>1, <3>3
      <4> QED  BY <3>1, <4>1
    <3> QED  BY <3>2, <3>3
  <2> HIDE DEF q, g
  <2>8. FollowsDisk(p)'
    <3>1. /\ server'[p].step = server[p].step /\ server'[p].gen = server[p].gen
          /\ server'[p].inbox = Tail(q) /\ server'[p].rotations = Begun(p)
      BY <2>1 DEF Now
    <3>2. server[p].step # "loaded"
      BY <2>2 DEF Rotates
    <3> QED  BY <2>2, <2>6, <2>7, <2>71, <2>72, <3>1, <3>2 DEF FollowsDisk
  <2>9. ServersFollowDisk'
    <3>1. Holds(p)
      BY <2>2 DEF Holds, Rotates
    <3> QED  BY <2>1, <2>8, <3>1, FollowsAlone DEF Now
  <2>10. disk \in Nat /\ db \in Nat /\ promised \in Nat /\ created \in Nat
    BY <1>0 DEF Types, Generation
  <2>11. admin.old \in Nat /\ admin.new \in Nat /\ backup.db \in Nat
    BY <1>0 DEF Types, Generation, Command, Backup
  <2>12. admin.step # "saved"
    \* the generation just saved is the newest, and the one asked for is newer
    BY <1>0, <2>5, <2>10 DEF CommandsProceed, StoreIsConsistent
  <2>13. StoreIsConsistent'
    BY <1>0, <2>2, <2>5, <2>10, <2>11, <2>12, <2>720 DEF StoreIsConsistent
  <2> QED  BY <2>9, <2>13
<1>2. CASE FinishRotation(p) \/ FailRotation(p)
  <2>0. PICK q \in server[p].rotations : \E g, stop :
            /\ Rotates(p)
            /\ Now(p, server[p].step, server[p].fd, g, server[p].inbox,
                   server[p].rotations \ {q}, FALSE, stop)
            /\ \/ FinishRotation(p) /\ Bound(g) /\ g = q.gen /\ stop = server[p].stop
               \/ FailRotation(p) /\ g = server[p].gen /\ stop = TRUE
    BY <1>0, <1>2, Finishing
  <2>1. PICK g, stop :
            /\ Rotates(p)
            /\ Now(p, server[p].step, server[p].fd, g, server[p].inbox,
                   server[p].rotations \ {q}, FALSE, stop)
            /\ \/ FinishRotation(p) /\ Bound(g) /\ g = q.gen /\ stop = server[p].stop
               \/ FailRotation(p) /\ g = server[p].gen /\ stop = TRUE
    BY <2>0
  <2>2. UNCHANGED <<disk, promised, backup, overlapped>>
    BY <1>2 DEF FinishRotation, FailRotation
  <2>3. FollowsDisk(p) /\ Serving(p)
    BY <1>0, <2>1 DEF ServersFollowDisk, Serving, Listens, Rotates
  <2>4. q.gen <= disk /\ (~overlapped => q.gen = disk)
    BY <2>3 DEF FollowsDisk
  <2>5. db' = g
    <3>1. CASE FinishRotation(p) /\ Bound(g)
      BY <3>1 DEF Bound
    <3>2. CASE FailRotation(p) /\ g = server[p].gen
      BY <2>3, <3>2 DEF FailRotation, FollowsDisk
    <3> QED  BY <2>1, <3>1, <3>2
  <2>6. FollowsDisk(p)'
    <3>1. /\ server'[p].step = server[p].step /\ server'[p].gen = g
          /\ server'[p].inbox = server[p].inbox
          /\ server'[p].rotations = server[p].rotations \ {q} /\ server'[p].stop = stop
      BY <2>1 DEF Now
    <3>2. server[p].step # "loaded"
      BY <2>1 DEF Rotates
    <3>3. ~overlapped => disk = g \/ stop
      BY <2>1, <2>4
    <3> QED  BY <2>2, <2>3, <2>5, <3>1, <3>2, <3>3 DEF FollowsDisk
  <2>7. ServersFollowDisk'
    <3>1. Holds(p)
      BY <2>1 DEF Holds, Rotates
    <3> QED  BY <2>1, <2>6, <3>1, FollowsAlone DEF Now
  <2>8. disk \in Nat /\ db \in Nat
    BY <1>0 DEF Types, Generation
  <2>9. StoreIsConsistent'
    <3>1. CASE FailRotation(p)
      <4>1. UNCHANGED <<db, records, admin>>
        BY <3>1 DEF FailRotation
      <4> QED  BY <1>0, <2>2, <4>1 DEF StoreIsConsistent
    <3>2. CASE FinishRotation(p) /\ Bound(g) /\ g = q.gen
      <4>1. g \in Nat
        <5>1. server[p] \in Process
          BY <1>0
        <5>2. q.gen \in Generation
          BY <5>1, RotationTyped
        <5> QED  BY <3>2, <5>2 DEF Generation
      <4>2. db' <= disk /\ (~overlapped => records' \subseteq {db'})
        BY <1>0, <2>4, <2>5, <3>2 DEF Bound, StoreIsConsistent
      <4>3. admin' = admin \/ (admin.step = "waiting" /\ admin.new <= disk
                               /\ admin' = [admin EXCEPT !.step = "answered"])
        <5>1. \E r \in server[p].rotations :
                  admin' = IF admin.step = "waiting" /\ admin.new = r.gen
                           THEN [admin EXCEPT !.step = "answered"] ELSE admin
          BY <3>2 DEF FinishRotation
        <5>2. \A r \in server[p].rotations : r.gen <= disk
          BY <2>3 DEF FollowsDisk
        <5> QED  BY <5>1, <5>2
      <4>4. CASE admin' = admin
        BY <1>0, <2>2, <4>2, <4>4 DEF StoreIsConsistent
      <4>5. CASE admin.step = "waiting" /\ admin' = [admin EXCEPT !.step = "answered"]
        <5>1. /\ admin'.step = "answered" /\ admin'.command = admin.command
              /\ admin'.old = admin.old /\ admin'.new = admin.new
          BY <1>0, <4>5, CommandMoves DEF Types
        <5> QED  BY <1>0, <2>2, <4>2, <4>3, <4>5, <5>1 DEF StoreIsConsistent
      <4> QED  BY <4>3, <4>4, <4>5
    <3> QED  BY <2>1, <3>1, <3>2
  <2> QED  BY <2>7, <2>9
<1> QED  BY <1>1, <1>2 DEF RotationStep

\* A post is of the generation the database is bound to.
LEMMA DiskConnStep ==
    ASSUME AccessInv, ~raced, NEW k \in Conn, ConnStep(k)
    PROVE  ServersFollowDisk' /\ StoreIsConsistent'
<1>0. /\ Types /\ ConnectionsServed /\ conn \in [Conn -> Connection]
      /\ ~overlapped => ChallengesAreCurrent
      /\ ServersFollowDisk /\ StoreIsConsistent
  BY DEF AccessInv, Types
<1>1. SameProcesses
  BY <1>0, ConnStepKeepsProcesses
<1>2. UNCHANGED <<disk, db, promised, admin, backup, overlapped>>
  BY DEF ConnStep, Accept, Hello, AccessProof, Post, Disconnect, store, history
<1>3. ServersFollowDisk'
  <2>1. ASSUME NEW t \in Server PROVE FollowsDisk(t)'
    <3>1. FollowsDisk(t) /\ Serving(t)' = Serving(t)
      BY <1>0, <1>1 DEF ServersFollowDisk, SameProcesses, Serving, Listens
    <3> QED  BY <1>1, <1>2, <3>1 DEF FollowsDisk, SameProcesses
  <2> QED  BY <2>1 DEF ServersFollowDisk
<1>4. ASSUME ~overlapped PROVE records' \subseteq {db}
  <2>1. records \subseteq {db}
    BY <1>0, <1>4 DEF StoreIsConsistent
  <2>2. CASE Post(k)
    <3>1. conn[k].authenticated /\ records' = records \cup {conn[k].challenge}
      BY <2>2 DEF Post
    <3>2. conn[k].challenge # 0 /\ conn[k].challenge = server[conn[k].server].gen
      BY <1>0, <1>4, <3>1 DEF ConnectionsServed, ChallengesAreCurrent
    <3>3. conn[k] # NoConn
      BY <3>1 DEF NoConn
    <3>4. conn[k].server \in Server /\ Serving(conn[k].server)
      BY <1>0, <3>3 DEF ConnectionsServed
    <3>5. db = server[conn[k].server].gen
      BY <1>0, <3>4 DEF ServersFollowDisk, FollowsDisk
    <3> QED  BY <2>1, <3>1, <3>2, <3>5
  <2>3. CASE ~Post(k)
    BY <2>1, <2>3 DEF ConnStep, Accept, Hello, AccessProof, Disconnect, store
  <2> QED  BY <2>2, <2>3
<1>5. StoreIsConsistent'
  BY <1>0, <1>2, <1>4 DEF StoreIsConsistent
<1> QED  BY <1>3, <1>5

\* A command works on the files while no process runs.
LEMMA NobodyFollows ==
    ASSUME AccessInv, \A s \in Server : ~Running(s), UNCHANGED server
    PROVE  ServersFollowDisk'
<1>0. OnlyServersWork
  BY DEF AccessInv
<1>1. ASSUME NEW s \in Server PROVE FollowsDisk(s)'
  <2>1. server[s].step = "off" /\ server[s].inbox = <<>>
    BY <1>0 DEF Running, OnlyServersWork, Rotates
  <2>2. server'[s].step # "loaded" /\ ~Serving(s)' /\ server'[s].inbox = <<>>
    BY <2>1 DEF Serving, Listens
  <2> QED  BY <2>2, IdleFollows
<1> QED  BY <1>1 DEF ServersFollowDisk

\* A command that does not touch the files leaves the processes as they follow them.
LEMMA EverybodyFollows ==
    ASSUME ServersFollowDisk, UNCHANGED <<server, disk, db, overlapped>>
    PROVE  ServersFollowDisk'
BY DEF ServersFollowDisk, FollowsDisk, Serving, Listens

\* A command works on the files only while no process runs, or is a race.
LEMMA DiskAdminStep ==
    ASSUME AccessInv, ~raced, ~raced', AdminStep
    PROVE  ServersFollowDisk' /\ StoreIsConsistent'
<1>0. /\ server \in [Server -> Process] /\ Types /\ CommandsProceed /\ admin \in Command
      /\ ServersFollowDisk /\ StoreIsConsistent /\ RequestsInOrder
  BY DEF AccessInv, Types
<1>00. /\ disk \in Nat /\ db \in Nat /\ promised \in Nat /\ created \in Nat
       /\ disk <= created /\ db <= created /\ promised <= created
       /\ admin.old \in Nat /\ admin.new \in Nat /\ backup.db \in Nat /\ backup.state \in Nat
  <2>1. \A g \in Generation \cup {0} : g \in Nat /\ g <= created
    BY <1>0 DEF Types, Generation
  <2>2. created \in Nat
    BY <1>0 DEF Types
  <2>3. /\ disk \in Generation /\ db \in Generation /\ promised \in Generation
        /\ backup \in Backup
    BY <1>0 DEF Types
  <2>4. /\ admin.old \in Generation \cup {0} /\ admin.new \in Generation \cup {0}
        /\ backup.db \in Generation \cup {0} /\ backup.state \in Generation \cup {0}
    BY <1>0, <2>3 DEF Command, Backup
  <2> QED  BY <2>1, <2>2, <2>3, <2>4
<1>01. NoCommand.command = "none" /\ NoCommand.step = "none"
  BY DEF NoCommand
<1> USE DEF store, history
<1>1. CASE RotateAccess
  <2>1. /\ admin' = [command |-> "rotate", step |-> "asking", old |-> disk, new |-> created + 1]
        /\ UNCHANGED <<server, disk, db, records, promised, backup, overlapped>>
    BY <1>1 DEF RotateAccess
  <2>2. admin'.command = "rotate" /\ admin'.step = "asking" /\ admin'.old = disk
    BY <2>1
  <2>3. StoreIsConsistent'
    BY <1>0, <1>00, <2>1, <2>2 DEF StoreIsConsistent
  <2> QED  BY <1>0, <2>1, <2>3, EverybodyFollows
<1>2. CASE Status
  <2>1. /\ admin' = [NoCommand EXCEPT !.command = "status", !.step = "asking"]
        /\ UNCHANGED <<server, disk, db, records, promised, backup, overlapped>>
    BY <1>2 DEF Status
  <2>2. admin'.command = "status" /\ admin'.step = "asking" /\ admin'.old = 0
    BY <2>1 DEF NoCommand
  <2>3. StoreIsConsistent'
    BY <1>0, <1>00, <2>1, <2>2 DEF StoreIsConsistent
  <2> QED  BY <1>0, <2>1, <2>3, EverybodyFollows
<1>3. CASE AdminRequest
  <2>1. UNCHANGED <<disk, db, records, promised, backup, overlapped>>
    BY <1>3 DEF AdminRequest
  <2>2. StoreIsConsistent'
    <3>1. CASE admin' = NoCommand
      BY <1>0, <1>01, <2>1, <3>1 DEF StoreIsConsistent
    <3>2. CASE \/ admin' = [admin EXCEPT !.step = "waiting"]
               \/ admin' = [admin EXCEPT !.step = "unavailable"]
      <4>1. /\ admin'.step \in {"waiting", "unavailable"} /\ admin'.command = admin.command
            /\ admin'.old = admin.old /\ admin'.new = admin.new
        BY <1>0, <3>2, CommandMoves
      <4> QED  BY <1>0, <2>1, <4>1 DEF StoreIsConsistent
    <3> QED  BY <1>3, <3>1, <3>2 DEF AdminRequest, AdminTo
  <2>3. ServersFollowDisk'
    <3>1. CASE UNCHANGED server  BY <1>0, <2>1, <3>1, EverybodyFollows
    <3>2. CASE ~UNCHANGED server
      <4>1. PICK p \in Server :
                /\ server[p].step = "up" /\ admin.step = "asking" /\ admin.command # "status"
                /\ Now(p, server[p].step, server[p].fd, server[p].gen,
                       Append(server[p].inbox, admin.new), server[p].rotations,
                       server[p].refusing, server[p].stop)
        BY <1>0, <3>2, AdminStepKeepsProcesses
      <4>2. admin.command = "rotate"
        BY <1>0, <4>1 DEF CommandsProceed
      <4>3. disk < admin.new /\ admin.new \in Generation
        BY <1>0, <4>1, <4>2 DEF RequestsInOrder, CommandsProceed, Types, Generation
      <4>4. FollowsDisk(p) /\ server[p].inbox \in Seq(Generation)
        BY <1>0, InboxTyped DEF ServersFollowDisk
      <4>5. \A i \in 1..Len(Append(server[p].inbox, admin.new)) :
                disk < Append(server[p].inbox, admin.new)[i]
        <5>1. /\ Len(server[p].inbox) \in Nat
              /\ Len(Append(server[p].inbox, admin.new)) = Len(server[p].inbox) + 1
              /\ \A i \in 1..Len(server[p].inbox) :
                    Append(server[p].inbox, admin.new)[i] = server[p].inbox[i]
              /\ Append(server[p].inbox, admin.new)[Len(server[p].inbox) + 1] = admin.new
          BY <4>3, <4>4, Appended
        <5>2. \A i \in 1..Len(server[p].inbox) : disk < server[p].inbox[i]
          BY <4>4 DEF FollowsDisk
        <5> QED  BY <4>3, <5>1, <5>2
      <4>6. FollowsDisk(p)'
        <5>1. /\ server'[p].step = "up" /\ server'[p].gen = server[p].gen
              /\ server'[p].inbox = Append(server[p].inbox, admin.new)
              /\ server'[p].rotations = server[p].rotations /\ server'[p].stop = server[p].stop
          BY <4>1 DEF Now
        <5>2. /\ db = server[p].gen
              /\ \A r \in server[p].rotations : r.gen <= disk
              /\ ~overlapped =>
                    /\ \A r \in server[p].rotations : r.gen = disk
                    /\ server[p].rotations = {} => disk = server[p].gen \/ server[p].stop
          BY <4>1, <4>4 DEF FollowsDisk, Serving, Listens
        <5> QED  BY <2>1, <4>5, <5>1, <5>2 DEF FollowsDisk
      <4>7. ASSUME NEW t \in Server \ {p} PROVE FollowsDisk(t)'
        <5>1. server'[t] = server[t] /\ FollowsDisk(t)
          BY <1>0, <4>1 DEF Now, ServersFollowDisk
        <5> QED  BY <2>1, <5>1 DEF FollowsDisk, Serving, Listens
      <4> QED  BY <4>6, <4>7 DEF ServersFollowDisk
    <3> QED  BY <3>1, <3>2
  <2> QED  BY <2>2, <2>3
<1>4. CASE AdminAnswered
  <2>1. /\ admin.step = "answered" /\ promised' = admin.new /\ admin' = NoCommand
        /\ UNCHANGED <<server, disk, db, records, backup, overlapped>>
    BY <1>4 DEF AdminAnswered
  <2>2. StoreIsConsistent'
    BY <1>0, <1>01, <2>1 DEF StoreIsConsistent
  <2> QED  BY <1>0, <2>1, <2>2, EverybodyFollows
<1>5. CASE AdminTimesOut \/ CheckLock
  <2>1. /\ UNCHANGED <<server, disk, db, records, promised, backup, overlapped>>
        /\ \/ admin' = NoCommand
           \/ admin' = [admin EXCEPT !.step = "unavailable"]
           \/ admin' = [admin EXCEPT !.step = "offline"]
    BY <1>5 DEF AdminTimesOut, CheckLock, AdminTo
  <2>2. CASE admin' = NoCommand
    <3>1. StoreIsConsistent'
      BY <1>0, <1>01, <2>1, <2>2 DEF StoreIsConsistent
    <3> QED  BY <1>0, <2>1, <3>1, EverybodyFollows
  <2>3. CASE admin' # NoCommand
    <3>1. /\ admin'.step \in {"unavailable", "offline"} /\ admin'.command = admin.command
          /\ admin'.old = admin.old /\ admin'.new = admin.new
      BY <1>0, <2>1, <2>3, CommandMoves
    <3>2. StoreIsConsistent'
      BY <1>0, <2>1, <3>1 DEF StoreIsConsistent
    <3> QED  BY <1>0, <2>1, <3>2, EverybodyFollows
  <2> QED  BY <2>2, <2>3
<1>6. CASE OfflineOpen
  <2>1. /\ \A s \in Server : ~Running(s)
        /\ db' = admin.old /\ records' = (IF db = admin.old THEN records ELSE {})
        /\ UNCHANGED <<server, disk, promised, backup, overlapped>>
        /\ admin.command = "rotate" /\ admin' = [admin EXCEPT !.step = "opened"]
    BY <1>6 DEF OfflineOpen, OnDisk, Bound, AdminTo
  <2>2. /\ admin'.step = "opened" /\ admin'.command = admin.command
        /\ admin'.old = admin.old /\ admin'.new = admin.new
    BY <1>0, <2>1, CommandMoves
  <2>3. StoreIsConsistent'
    BY <1>0, <2>1, <2>2 DEF StoreIsConsistent
  <2> QED  BY <2>1, <2>3, NobodyFollows
<1>7. CASE OfflineSave
  <2>1. /\ \A s \in Server : ~Running(s)
        /\ disk' = admin.new /\ UNCHANGED <<server, db, records, promised, backup, overlapped>>
        /\ admin.step = "opened" /\ admin' = [admin EXCEPT !.step = "saved"]
    BY <1>7 DEF OfflineSave, OnDisk, AdminTo
  <2>2. /\ admin'.step = "saved" /\ admin'.command = admin.command
        /\ admin'.old = admin.old /\ admin'.new = admin.new
    BY <1>0, <2>1, CommandMoves
  <2>3. admin.new = created
    BY <1>0, <2>1 DEF CommandsProceed
  <2>4. StoreIsConsistent'
    BY <1>0, <1>00, <2>1, <2>2, <2>3 DEF StoreIsConsistent
  <2> QED  BY <2>1, <2>4, NobodyFollows
<1>8. CASE OfflineBind
  <2>1. /\ \A s \in Server : ~Running(s)
        /\ db' = admin.new /\ records' = (IF db = admin.new THEN records ELSE {})
        /\ UNCHANGED <<server, disk, promised, backup, overlapped>>
        /\ admin.step = "saved" /\ admin' = [admin EXCEPT !.step = "answered"]
    BY <1>8 DEF OfflineBind, OnDisk, Bound, AdminTo
  <2>2. /\ admin'.step = "answered" /\ admin'.command = admin.command
        /\ admin'.old = admin.old /\ admin'.new = admin.new
    BY <1>0, <2>1, CommandMoves
  <2>3. StoreIsConsistent'
    BY <1>0, <1>00, <2>1, <2>2 DEF StoreIsConsistent
  <2> QED  BY <2>1, <2>3, NobodyFollows
<1>9. CASE OfflineStatus
  <2>1. /\ UNCHANGED <<server, disk, db, records, promised, backup, overlapped>>
        /\ admin' = [admin EXCEPT !.step = "loaded", !.old = disk]
    BY <1>9 DEF OfflineStatus
  <2>2. admin'.step = "loaded" /\ admin'.old = disk /\ admin'.command = admin.command
    BY <1>0, <2>1 DEF Command
  <2>3. StoreIsConsistent'
    BY <1>0, <1>00, <2>1, <2>2 DEF StoreIsConsistent
  <2> QED  BY <1>0, <2>1, <2>3, EverybodyFollows
<1>10. CASE OfflineCounts
  <2>1. /\ \A s \in Server : ~Running(s)
        /\ db' = admin.old /\ records' = (IF db = admin.old THEN records ELSE {})
        /\ UNCHANGED <<server, disk, promised, backup, overlapped>>
        /\ admin.step = "loaded" /\ admin' = NoCommand
    BY <1>10 DEF OfflineCounts, OnDisk, Bound
  <2>2. admin.old <= disk
    BY <1>0, <2>1 DEF CommandsProceed, StoreIsConsistent
  <2>3. StoreIsConsistent'
    BY <1>0, <1>01, <2>1, <2>2 DEF StoreIsConsistent
  <2> QED  BY <2>1, <2>3, NobodyFollows
<1>11. CASE AdminStops
  <2>1. UNCHANGED <<server, disk, db, records, promised, backup, overlapped>> /\ admin' = NoCommand
    BY <1>11 DEF AdminStops
  <2>2. StoreIsConsistent'
    BY <1>0, <1>01, <2>1 DEF StoreIsConsistent
  <2> QED  BY <1>0, <2>1, <2>2, EverybodyFollows
<1>12. CASE BackUpDatabase
  <2>1. /\ UNCHANGED <<server, disk, db, records, promised, overlapped>>
        /\ admin' = [NoCommand EXCEPT !.command = "backup", !.step = "copied"]
        /\ backup' = [state |-> 0, db |-> db, records |-> records]
    BY <1>12 DEF BackUpDatabase
  <2>2. /\ admin'.command = "backup" /\ admin'.step = "copied"
        /\ backup'.state = 0 /\ backup'.db = db /\ backup'.records = records
    BY <2>1 DEF NoCommand
  <2>3. StoreIsConsistent'
    BY <1>0, <2>1, <2>2 DEF StoreIsConsistent
  <2> QED  BY <1>0, <2>1, <2>3, EverybodyFollows
<1>13. CASE BackUpState
  <2>1. /\ UNCHANGED <<server, disk, db, records, promised, overlapped>>
        /\ admin.step = "copied" /\ admin' = NoCommand
        /\ backup' = [backup EXCEPT !.state = disk]
    BY <1>13 DEF BackUpState
  <2>2. backup'.state = disk /\ backup'.db = backup.db /\ backup'.records = backup.records
    BY <1>0, <2>1 DEF Types, Backup
  <2>3. StoreIsConsistent'
    BY <1>0, <1>01, <2>1, <2>2 DEF StoreIsConsistent
  <2> QED  BY <1>0, <2>1, <2>3, EverybodyFollows
<1>14. CASE Restore
  <2>1. /\ \A s \in Server : ~Running(s)
        /\ UNCHANGED <<server, admin, overlapped>> /\ admin = NoCommand /\ backup.state # 0
        /\ disk' = backup.state /\ db' = backup.db /\ records' = backup.records
        /\ promised' = backup.state /\ backup' = NoBackup
    BY <1>14 DEF Restore
  <2>2. backup'.state = 0 /\ backup'.records = {}
    BY <2>1 DEF NoBackup
  <2>3. StoreIsConsistent'
    BY <1>0, <1>00, <1>01, <2>1, <2>2 DEF StoreIsConsistent
  <2> QED  BY <2>1, <2>3, NobodyFollows
<1> QED  BY <1>1, <1>2, <1>3, <1>4, <1>5, <1>6, <1>7, <1>8, <1>9, <1>10, <1>11, <1>12,
            <1>13, <1>14 DEF AdminStep

-----------------------------------------------------------------------------
(* The theorems *)

\* Every step keeps the invariant.
LEMMA AccessNext == AccessInv /\ Next => AccessInv'
<1> SUFFICES ASSUME AccessInv, Next PROVE AccessInv'
  OBVIOUS
<1>1. /\ Types' /\ OnlyServersWork' /\ ConnectionsServed' /\ LocksExclude'
      /\ ~overlapped' => ChallengesAreCurrent'
  BY TypesStep, WorkStep, ConnectionsStep, LocksStep
<1>2. CommandsProceed' /\ RequestsInOrder'
  BY CommandStep, RequestsStep DEF AccessInv
<1>3. ASSUME ~raced' PROVE ServersFollowDisk' /\ StoreIsConsistent'
  <2>1. ~raced
    BY <1>3, RacedStays DEF AccessInv
  <2> QED  BY <1>3, <2>1, DiskServerStep, DiskRotationStep, DiskConnStep, DiskAdminStep DEF Next
<1> QED  BY <1>1, <1>2, <1>3 DEF AccessInv

\* So does a step of something else.
LEMMA AccessStutters == AccessInv /\ UNCHANGED vars => AccessInv'
<1> SUFFICES ASSUME AccessInv, UNCHANGED vars PROVE AccessInv'
  OBVIOUS
<1> USE DEF vars
<1>1. Types'
  <2>1. Generation' = Generation
    BY DEF Generation
  <2>2. Process' = Process /\ Connection' = Connection /\ Command' = Command /\ Backup' = Backup
    BY <2>1 DEF Process, Connection, Command, Backup
  <2>3. Types
    BY DEF AccessInv
  <2>4. /\ server' \in [Server -> Process'] /\ conn' \in [Conn -> Connection']
        /\ admin' \in Command' /\ backup' \in Backup'
    BY <2>2, <2>3 DEF Types
  <2>5. /\ pidFile' \in Inode \cup {NoFile} /\ socket' \in Server \cup {Nobody}
        /\ disk' \in Generation' /\ db' \in Generation' /\ promised' \in Generation'
        /\ records' \subseteq Generation'
        /\ created' \in 1..MaxGeneration /\ crashes' \in 0..MaxCrashes
    BY <2>1, <2>3 DEF Types
  <2>6. raced' \in BOOLEAN /\ overlapped' \in BOOLEAN
    BY <2>3 DEF Types
  <2> QED  BY <2>4, <2>5, <2>6 DEF Types
<1>2. OnlyServersWork' /\ ConnectionsServed' /\ (~overlapped' => ChallengesAreCurrent')
  BY DEF AccessInv, OnlyServersWork, ConnectionsServed, ChallengesAreCurrent, Serving,
         ConnectionsOf, Listens, Rotates
<1>3. LocksExclude'
  BY DEF AccessInv, LocksExclude, Holds
<1>4. CommandsProceed' /\ RequestsInOrder'
  BY DEF AccessInv, CommandsProceed, RequestsInOrder
<1>5. ~raced' => ServersFollowDisk' /\ StoreIsConsistent'
  BY DEF AccessInv, ServersFollowDisk, FollowsDisk, Serving, Listens, StoreIsConsistent
<1> QED  BY <1>1, <1>2, <1>3, <1>4, <1>5 DEF AccessInv

\* The inductive invariant holds in every reachable state.
THEOREM AccessInvariant == Spec => []AccessInv
<1>1. Init => AccessInv
  BY InitAccess
<1>2. AccessInv /\ [Next]_vars => AccessInv'
  BY AccessNext, AccessStutters
<1> QED  BY <1>1, <1>2, PTL DEF Spec

\* Connections are open only at a process that serves, and nothing names a
\* generation that was not created (TypeOK).
THEOREM AccessTypes == Spec => []TypeOK
<1>1. AccessInv => TypeOK
  <2> SUFFICES ASSUME AccessInv PROVE TypeOK
    OBVIOUS
  <2>1. Types /\ ConnectionsServed
    BY DEF AccessInv
  <2>2. ASSUME NEW s \in Server
        PROVE  /\ server[s].step \in {"off", "opened", "locked", "loaded", "listening", "up",
                                      "stopping", "closing", "relay_closed", "closed", "unlocked"}
               /\ server[s].fd \in Inode \cup {NoFile} /\ server[s].gen \in Generation \cup {0}
               /\ server[s].inbox \in Seq(Generation)
               /\ server[s].rotations \subseteq
                     [gen : Generation, closing : SUBSET ConnectionsOf(s)]
               /\ server[s].refusing \in BOOLEAN /\ server[s].stop \in BOOLEAN
    <3>1. server[s] \in Process
      BY <2>1 DEF Types
    <3>2. server[s].rotations \subseteq [gen : Generation, closing : SUBSET ConnectionsOf(s)]
      <4>1. ASSUME NEW r \in server[s].rotations
            PROVE  r \in [gen : Generation, closing : SUBSET ConnectionsOf(s)]
        <5>1. r \in [gen : Generation, closing : SUBSET Conn]
          BY <3>1 DEF Process
        <5>2. r.closing \subseteq ConnectionsOf(s)
          BY <2>1 DEF ConnectionsServed
        <5> QED  BY <5>1, <5>2
      <4> QED  BY <4>1
    <3> QED  BY <3>1, <3>2 DEF Process
  <2>3. ASSUME NEW c \in Conn
        PROVE  /\ conn[c].challenge \in Generation \cup {0}
               /\ conn[c].authenticated \in BOOLEAN
               /\ conn[c] # NoConn => Serving(conn[c].server) /\ conn[c].listed \in BOOLEAN
    <3>1. conn[c] \in Connection
      BY <2>1 DEF Types
    <3>2. conn[c].challenge \in Generation \cup {0}
      BY <3>1 DEF Connection
    <3>3. conn[c].authenticated \in BOOLEAN /\ conn[c].listed \in BOOLEAN
      BY <3>1 DEF Connection
    <3> QED  BY <2>1, <3>2, <3>3 DEF ConnectionsServed
  <2>4. /\ pidFile \in Inode \cup {NoFile} /\ socket \in Server \cup {Nobody}
        /\ {disk, db, promised} \subseteq Generation /\ records \subseteq Generation
        /\ created \in 1..MaxGeneration /\ crashes \in 0..MaxCrashes
    BY <2>1 DEF Types
  <2>5. raced \in BOOLEAN /\ overlapped \in BOOLEAN
    BY <2>1 DEF Types
  <2> QED  BY <2>2, <2>3, <2>4, <2>5 DEF TypeOK
<1> QED  BY <1>1, AccessInvariant, PTL

\* A restart never loads a generation older than the one the database is bound to
\* (PersistedFirst): apply_access_rotation and rotate_server_access save the state
\* before they bind the database.
THEOREM StateIsPersistedFirst == Spec => []PersistedFirst
<1>1. AccessInv => PersistedFirst
  BY DEF AccessInv, StoreIsConsistent, PersistedFirst
<1> QED  BY <1>1, AccessInvariant, PTL

\* A rotation leaves no authenticated connection of an older generation
\* (NoOldConnections), however accepts, proofs and ends of connections interleave
\* with it.
THEOREM RotationEndsOldConnections == Spec => []NoOldConnections
<1>1. AccessInv => NoOldConnections
  BY DEF AccessInv, ConnectionsServed, ChallengesAreCurrent, NoOldConnections
<1> QED  BY <1>1, AccessInvariant, PTL

\* A server that serves holds the generation of the database, the board holds no
\* record of another one, and the state on disk is of that generation unless a
\* rotation failed and the server was told to stop (BoardIsCurrent).
THEOREM ServedBoardIsCurrent == Spec => []BoardIsCurrent
<1>1. AccessInv => BoardIsCurrent
  <2> SUFFICES ASSUME AccessInv, NEW s \in Server, ~raced, ~overlapped, Serving(s),
                      server[s].rotations = {}
               PROVE  /\ db = server[s].gen /\ records \subseteq {server[s].gen}
                      /\ disk = server[s].gen \/ server[s].stop
    BY DEF BoardIsCurrent
  <2>1. FollowsDisk(s) /\ StoreIsConsistent
    BY DEF AccessInv, ServersFollowDisk
  <2> QED  BY <2>1 DEF FollowsDisk, StoreIsConsistent
<1> QED  BY <1>1, AccessInvariant, PTL

\* The phrase the owner was shown last is that of the state on disk, or a newer
\* rotation was saved since (RotationHolds).
THEOREM ShownRotationHolds == Spec => []RotationHolds
<1>1. AccessInv => RotationHolds
  BY DEF AccessInv, StoreIsConsistent, RotationHolds
<1> QED  BY <1>1, AccessInvariant, PTL

=============================================================================
