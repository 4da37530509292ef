---------------------------- MODULE ServerAccess ----------------------------
(***************************************************************************)
(* The server's access generation across processes: server processes that  *)
(* start, stop and crash (server_runtime.py), the owner's commands that    *)
(* rotate access, show the status or take a backup, through the admin      *)
(* socket or on disk (server_admin.py), and the relay's connections, which *)
(* authenticate against the verifier the relay holds (relay.py, client.py).*)
(*                                                                         *)
(* The processes share the PID file, the admin socket, the access state    *)
(* file and the database; a step is one system call or transaction on one  *)
(* of them.  Generations are counted from 1 in the order they are created. *)
(***************************************************************************)
EXTENDS Naturals, Sequences, FiniteSets

CONSTANTS
    Server,          \* server processes; one may be started again after its end
    Conn,            \* client connections
    MaxGeneration,   \* bound: generations created
    MaxCrashes,      \* bound: processes killed
    Inode            \* inodes of PID files

NoFile == "no file"
Nobody == "nobody"

ASSUME AccessAssumption ==
    /\ MaxGeneration \in Nat \ {0} /\ MaxCrashes \in Nat
    /\ Cardinality(Inode) > Cardinality(Server)
    /\ NoFile \notin Inode /\ Nobody \notin Server

VARIABLES
    server,     \* per process: its ServerRuntime
    conn,       \* per connection: its _RelayConnection
    pidFile,    \* the inode at the path of the PID file, or NoFile
    socket,     \* the process whose socket file is at the path, or Nobody
    disk,       \* the generation in the access state file
    db,         \* the generation the database is bound to
    records,    \* the generations of the records in the database
    admin,      \* the owner's command
    backup,     \* the last backup, or NoBackup
    created,    \* generations created so far
    promised,   \* a history: the last generation whose phrase the owner was shown
    raced,      \* a history: whether a command or a start met another's end
    overlapped, \* a history: whether a rotation began before another one ended
    crashes

files == <<pidFile, socket>>
store == <<disk, db, records>>
history == <<created, promised, overlapped, crashes>>
vars == <<server, conn, pidFile, socket, disk, db, records, admin, backup,
          created, promised, raced, overlapped, crashes>>

NoBackup == [state |-> 0, db |-> 0, records |-> {}]
Off == [step |-> "off", fd |-> NoFile, gen |-> 0, inbox |-> <<>>, rotations |-> {},
        refusing |-> FALSE, stop |-> FALSE]
NoConn == [server |-> Nobody, listed |-> FALSE, challenge |-> 0, authenticated |-> FALSE]
NoCommand == [command |-> "none", step |-> "none", old |-> 0, new |-> 0]

Running(s) == server[s].step # "off"

\* A relay that is being closed serves the connections it has, and while the admin
\* socket is being closed before it, accepts more.
Listens(s) == server[s].step \in {"listening", "up", "stopping"}
Serving(s) == Listens(s) \/ server[s].step = "closing"
Rotates(s) == server[s].step \in {"up", "stopping", "closing"}
Holds(s) == server[s].step \notin {"off", "opened", "unlocked"}
Locked(i) == \E s \in Server : Holds(s) /\ server[s].fd = i

ConnectionsOf(s) == {c \in Conn : conn[c].server = s}
Disconnected(s) == [c \in Conn |-> IF conn[c].server = s THEN NoConn ELSE conn[c]]
Unlisted(s) ==
    [c \in Conn |-> IF conn[c].server = s THEN [conn[c] EXCEPT !.listed = FALSE] ELSE conn[c]]

To(s, step) == server' = [server EXCEPT ![s].step = step]

\* BoardStore.bind_access_generation
BoundKeeping(g) == db' = g /\ UNCHANGED records

Bound(g) ==
    /\ db' = g
    /\ records' = IF db = g THEN records ELSE {}

-----------------------------------------------------------------------------
(* ServerRuntime.start *)

\* _acquire_pid_lock opens the file, or creates it, and then locks it.
OpenPidFile(s) ==
    /\ server[s].step = "off"
    /\ \E i \in Inode :
          /\ IF pidFile = NoFile THEN \A t \in Server : server[t].fd # i ELSE i = pidFile
          /\ server' = [server EXCEPT ![s].step = "opened", ![s].fd = i]
          /\ pidFile' = i
    /\ UNCHANGED <<conn, socket, store, admin, backup, history, raced>>

\* The lock is held by another process, or for a moment by a command that checks
\* whether it is (server_pid_lock_held).
LockPidFile(s) ==
    /\ server[s].step = "opened"
    /\ \/ /\ ~Locked(server[s].fd)
          /\ To(s, "locked")
       \/ /\ Locked(server[s].fd) \/ admin.step = "unavailable"
          /\ server' = [server EXCEPT ![s] = Off]
    /\ UNCHANGED <<conn, files, store, admin, backup, history, raced>>

LoadAccessState(s) ==
    /\ server[s].step = "locked"
    /\ server' = [server EXCEPT ![s].step = "loaded", ![s].gen = disk]
    /\ UNCHANGED <<conn, files, store, admin, backup, history, raced>>

\* RelayServer binds the database to the generation that was loaded, and then
\* the port, which another process may still have.
StartRelay(s) ==
    /\ server[s].step = "loaded"
    /\ Bound(server[s].gen)
    /\ To(s, IF \E t \in Server : Listens(t) THEN "relay_closed" ELSE "listening")
    /\ UNCHANGED <<conn, files, disk, admin, backup, history, raced>>

StartAdminSocket(s) ==
    /\ server[s].step = "listening"
    /\ To(s, "up") /\ socket' = s
    /\ UNCHANGED <<conn, pidFile, store, admin, backup, history, raced>>

-----------------------------------------------------------------------------
(* ServerRuntime.close: a signal, a failed start or a failed rotation *)

\* The admin socket is closed first, and the relay goes on.
StopServer(s) ==
    /\ server[s].step = "up"
    /\ To(s, "stopping")
    /\ UNCHANGED <<conn, files, store, admin, backup, history, raced>>

\* RelayServer.close accepts no more, and waits for the listener ...
CloseListener(s) ==
    /\ server[s].step \in {"listening", "stopping"}
    /\ To(s, "closing")
    /\ UNCHANGED <<conn, files, store, admin, backup, history, raced>>

RelayClosed(p) == [p EXCEPT !.step = "relay_closed", !.inbox = <<>>, !.rotations = {}]

CloseRelayKeepingConnections(s) ==
    /\ server[s].step \in {"locked", "loaded", "closing"}
    /\ server' = [server EXCEPT ![s] = RelayClosed(@)]
    /\ UNCHANGED <<conn, files, store, admin, backup, history, raced>>

\* ... before it closes the connections and the board, with which a rotation that
\* waits fails.  A connection that overlapping rotations forgot has no board left.
CloseRelay(s) ==
    /\ server[s].step \in {"locked", "loaded", "closing"}
    /\ server' = [server EXCEPT ![s] = RelayClosed(@)]
    /\ conn' = Disconnected(s)
    /\ UNCHANGED <<files, store, admin, backup, history, raced>>

UnlinkSocket(s) ==
    /\ server[s].step = "relay_closed"
    /\ To(s, "closed") /\ socket' = Nobody
    /\ UNCHANGED <<conn, pidFile, store, admin, backup, history, raced>>

\* _release_pid_lock gives up the lock first, and then removes whatever file is
\* at the path by then.
UnlockPidFile(s) ==
    /\ server[s].step = "closed"
    /\ server' = [server EXCEPT ![s].step = "unlocked", ![s].fd = NoFile]
    /\ UNCHANGED <<conn, files, store, admin, backup, history, raced>>

UnlinkPidFile(s) ==
    /\ server[s].step = "unlocked"
    /\ server' = [server EXCEPT ![s] = Off] /\ pidFile' = NoFile
    /\ raced' = (raced \/ \E t \in Server : server[t].fd # NoFile /\ server[t].fd = pidFile)
    /\ UNCHANGED <<conn, socket, store, admin, backup, history>>

\* A killed process leaves its files; its locks and its connections end.
Crash(s) ==
    /\ Running(s) /\ crashes < MaxCrashes
    /\ crashes' = crashes + 1
    /\ server' = [server EXCEPT ![s] = Off]
    /\ conn' = Disconnected(s)
    /\ UNCHANGED <<files, store, admin, backup, created, promised, raced, overlapped>>

ServerStep(s) ==
    \/ OpenPidFile(s) \/ LockPidFile(s) \/ LoadAccessState(s) \/ StartRelay(s)
    \/ StartAdminSocket(s) \/ StopServer(s) \/ CloseListener(s) \/ CloseRelay(s)
    \/ UnlinkSocket(s) \/ UnlockPidFile(s) \/ UnlinkPidFile(s) \/ Crash(s)

-----------------------------------------------------------------------------
(* Connections *)

\* _connection_closed: no rotation waits for the connection any longer.
Forget(c) ==
    server' = [server EXCEPT ![conn[c].server].rotations =
                 {[r EXCEPT !.closing = @ \ {c}] : r \in @}]

\* _accept
AcceptAlways(c) ==
    /\ conn[c] = NoConn
    /\ \E s \in Server :
          /\ Listens(s)
          /\ conn' = [conn EXCEPT ![c].server = s, ![c].listed = TRUE]
    /\ UNCHANGED <<server, files, store, admin, backup, history, raced>>

Accept(c) ==
    /\ conn[c] = NoConn
    /\ \E s \in Server :
          /\ Listens(s) /\ ~server[s].refusing
          /\ conn' = [conn EXCEPT ![c].server = s, ![c].listed = TRUE]
    /\ UNCHANGED <<server, files, store, admin, backup, history, raced>>

\* hello: the challenge is for the generation of the moment.
Hello(c) ==
    /\ conn[c] # NoConn /\ conn[c].challenge = 0
    /\ conn' = [conn EXCEPT ![c].challenge = server[conn[c].server].gen]
    /\ UNCHANGED <<server, files, store, admin, backup, history, raced>>

\* access_proof: a client whose phrase is of another generation is refused, and
\* its connection ends.
AccessProof(c) ==
    /\ conn[c].challenge # 0 /\ ~conn[c].authenticated
    /\ \/ conn' = [conn EXCEPT ![c].authenticated = TRUE] /\ UNCHANGED server
       \/ conn' = [conn EXCEPT ![c] = NoConn] /\ Forget(c)
    /\ UNCHANGED <<files, store, admin, backup, history, raced>>

\* board_post: the record is encrypted for the generation of the client.
Post(c) ==
    /\ conn[c].authenticated
    /\ records' = records \cup {conn[c].challenge}
    /\ UNCHANGED <<server, conn, files, disk, db, admin, backup, history, raced>>

\* The end of a connection, by the client or by the rotation that closes it.
Disconnect(c) ==
    /\ conn[c] # NoConn
    /\ conn' = [conn EXCEPT ![c] = NoConn] /\ Forget(c)
    /\ UNCHANGED <<files, store, admin, backup, history, raced>>

ConnStep(c) == Accept(c) \/ Hello(c) \/ AccessProof(c) \/ Post(c) \/ Disconnect(c)

-----------------------------------------------------------------------------
(* apply_access_rotation *)

\* rotate_access refuses connections, and waits for the end of those it found.
Begin(s, g) ==
    /\ server' = [server EXCEPT
                    ![s].inbox = Tail(@), ![s].refusing = TRUE,
                    ![s].rotations = @ \cup
                        {[gen |-> g, closing |-> {c \in ConnectionsOf(s) : conn[c].listed}]}]
    /\ overlapped' = (overlapped \/ server[s].rotations # {})

\* It accepts them again when it ends, whether another rotation waits or not.
End(s, r, gen, stop) ==
    /\ server' = [server EXCEPT ![s].rotations = @ \ {r}, ![s].refusing = FALSE,
                                   ![s].gen = gen, ![s].stop = stop]
    /\ conn' = Unlisted(s)

HandleRotateUnsaved(s) ==
    /\ Rotates(s) /\ server[s].inbox # <<>>
    /\ Begin(s, Head(server[s].inbox))
    /\ UNCHANGED <<conn, files, store, admin, backup, created, promised, crashes, raced>>

\* The verifier is saved before the relay is touched.
HandleRotate(s) ==
    /\ Rotates(s) /\ server[s].inbox # <<>>
    /\ Head(server[s].inbox) # server[s].gen
    /\ disk' = Head(server[s].inbox)
    /\ Begin(s, Head(server[s].inbox))
    /\ UNCHANGED <<conn, files, db, records, admin, backup, created, promised, crashes, raced>>

\* rotate_access, once every connection it found is closed.
FinishRotation(s) ==
    \E r \in server[s].rotations :
        /\ Rotates(s) /\ r.closing = {}
        /\ Bound(r.gen)
        /\ End(s, r, r.gen, server[s].stop)
        /\ admin' = IF admin.step = "waiting" /\ admin.new = r.gen
                    THEN [admin EXCEPT !.step = "answered"] ELSE admin
        /\ UNCHANGED <<files, disk, backup, history, raced>>

\* The database fails: the server is told to stop, and serves as before until then.
FailRotation(s) ==
    \E r \in server[s].rotations :
        /\ Rotates(s) /\ r.closing = {}
        /\ End(s, r, server[s].gen, TRUE)
        /\ UNCHANGED <<files, store, admin, backup, history, raced>>

RotationStep(s) == HandleRotate(s) \/ FinishRotation(s) \/ FailRotation(s)

-----------------------------------------------------------------------------
(* The owner's commands *)

AdminTo(step) == admin' = [admin EXCEPT !.step = step]

\* rotate_server_access: a new generation and its phrase.
RotateAccess ==
    /\ admin = NoCommand /\ created < MaxGeneration
    /\ created' = created + 1
    /\ admin' = [command |-> "rotate", step |-> "asking", old |-> disk, new |-> created + 1]
    /\ UNCHANGED <<server, conn, files, store, backup, promised, raced, overlapped, crashes>>

\* server_status
Status ==
    /\ admin = NoCommand
    /\ admin' = [NoCommand EXCEPT !.command = "status", !.step = "asking"]
    /\ UNCHANGED <<server, conn, files, store, backup, history, raced>>

\* admin_request: the server is asked if one listens on the socket.
AdminRequest ==
    /\ admin.step = "asking"
    /\ IF socket # Nobody /\ server[socket].step = "up"
       THEN /\ admin' = IF admin.command = "status" THEN NoCommand
                        ELSE [admin EXCEPT !.step = "waiting"]
            /\ server' = IF admin.command = "status" THEN server
                         ELSE [server EXCEPT ![socket].inbox = Append(@, admin.new)]
       ELSE AdminTo("unavailable") /\ UNCHANGED server
    /\ UNCHANGED <<conn, files, store, backup, history, raced>>

\* The answer shows the phrase; its lack, for whatever reason, does not.
AdminAnswered ==
    /\ admin.step = "answered"
    /\ promised' = admin.new
    /\ admin' = NoCommand
    /\ UNCHANGED <<server, conn, files, store, backup, created, raced, overlapped, crashes>>

AdminTimesOutTrusting ==
    /\ admin.step = "waiting"
    /\ promised' = admin.new
    /\ admin' = NoCommand
    /\ UNCHANGED <<server, conn, files, store, backup, created, raced, overlapped, crashes>>

AdminTimesOut ==
    /\ admin.step = "waiting"
    /\ AdminTo("unavailable")
    /\ UNCHANGED <<server, conn, files, store, backup, history, raced>>

\* server_pid_lock_held
CheckLock ==
    /\ admin.step = "unavailable"
    /\ IF pidFile # NoFile /\ Locked(pidFile) THEN admin' = NoCommand ELSE AdminTo("offline")
    /\ UNCHANGED <<server, conn, files, store, backup, history, raced>>

\* A step on the state on disk, which the lock check found nobody using.
OnDisk(step) ==
    /\ admin.step = step
    /\ raced' = (raced \/ \E s \in Server : Running(s))

\* BoardStore binds the database to the generation of the state on disk.
OfflineOpen ==
    /\ OnDisk("offline") /\ admin.command = "rotate"
    /\ Bound(admin.old)
    /\ AdminTo("opened")
    /\ UNCHANGED <<server, conn, files, disk, backup, history>>

OfflineSave ==
    /\ OnDisk("opened")
    /\ disk' = admin.new
    /\ AdminTo("saved")
    /\ UNCHANGED <<server, conn, files, db, records, backup, history>>

OfflineBind ==
    /\ OnDisk("saved")
    /\ Bound(admin.new)
    /\ AdminTo("answered")
    /\ UNCHANGED <<server, conn, files, disk, backup, history>>

OfflineStatus ==
    /\ OnDisk("offline") /\ admin.command = "status"
    /\ admin' = [admin EXCEPT !.step = "loaded", !.old = disk]
    /\ UNCHANGED <<server, conn, files, store, backup, history>>

OfflineCounts ==
    /\ OnDisk("loaded")
    /\ Bound(admin.old)
    /\ admin' = NoCommand
    /\ UNCHANGED <<server, conn, files, disk, backup, history>>

\* The command is interrupted or fails.
AdminStops ==
    /\ admin.step \notin {"none", "answered"}
    /\ admin' = NoCommand
    /\ UNCHANGED <<server, conn, files, store, backup, history, raced>>

\* backup_server copies the database, and then the other files.
BackUpDatabase ==
    /\ admin = NoCommand
    /\ admin' = [NoCommand EXCEPT !.command = "backup", !.step = "copied"]
    /\ backup' = [state |-> 0, db |-> db, records |-> records]
    /\ UNCHANGED <<server, conn, files, store, history, raced>>

BackUpState ==
    /\ admin.step = "copied"
    /\ admin' = NoCommand
    /\ backup' = [backup EXCEPT !.state = disk]
    /\ UNCHANGED <<server, conn, files, store, history, raced>>

\* The owner restores a backup while nothing runs.
Restore ==
    /\ admin = NoCommand /\ backup.state # 0 /\ \A s \in Server : ~Running(s)
    /\ disk' = backup.state /\ db' = backup.db /\ records' = backup.records
    /\ promised' = backup.state
    /\ backup' = NoBackup
    /\ UNCHANGED <<server, conn, files, admin, created, raced, overlapped, crashes>>

AdminStep ==
    \/ RotateAccess \/ Status \/ AdminRequest \/ AdminAnswered \/ AdminTimesOut
    \/ CheckLock \/ OfflineOpen \/ OfflineSave \/ OfflineBind \/ OfflineStatus
    \/ OfflineCounts \/ AdminStops \/ BackUpDatabase \/ BackUpState \/ Restore

-----------------------------------------------------------------------------
(* Specification *)

\* initialise_server has created the state and shown its phrase.
Init ==
    /\ server = [s \in Server |-> Off]
    /\ conn = [c \in Conn |-> NoConn]
    /\ pidFile = NoFile /\ socket = Nobody
    /\ disk = 1 /\ db = 1 /\ records = {}
    /\ admin = NoCommand /\ backup = NoBackup
    /\ created = 1 /\ promised = 1
    /\ raced = FALSE /\ overlapped = FALSE /\ crashes = 0

Next ==
    \/ \E s \in Server : ServerStep(s) \/ RotationStep(s)
    \/ \E c \in Conn : ConnStep(c)
    \/ AdminStep

Spec == Init /\ [][Next]_vars

-----------------------------------------------------------------------------
(* Correctness *)

Generation == 1..created

\* Connections are open only at a server that serves, files name processes and
\* inodes, and nothing refers to a generation that was not created.
TypeOK ==
    /\ \A s \in Server :
          /\ server[s].step \in {"off", "opened", "locked", "loaded", "listening", "up", "stopping",
                                 "closing", "relay_closed", "closed", "unlocked"}
          /\ server[s].fd \in Inode \cup {NoFile} /\ server[s].gen \in Generation \cup {0}
          /\ server[s].inbox \in Seq(Generation)
          /\ server[s].rotations \subseteq [gen : Generation, closing : SUBSET ConnectionsOf(s)]
          /\ server[s].refusing \in BOOLEAN /\ server[s].stop \in BOOLEAN
    /\ \A c \in Conn :
          /\ conn[c].challenge \in Generation \cup {0} /\ conn[c].authenticated \in BOOLEAN
          /\ conn[c] # NoConn => Serving(conn[c].server) /\ conn[c].listed \in BOOLEAN
    /\ pidFile \in Inode \cup {NoFile} /\ socket \in Server \cup {Nobody}
    /\ {disk, db, promised} \subseteq Generation /\ records \subseteq Generation
    /\ created \in 1..MaxGeneration /\ crashes \in 0..MaxCrashes
    /\ raced \in BOOLEAN /\ overlapped \in BOOLEAN

\* The database is never bound to a generation that a restart would not load: a
\* process that dies within a rotation, or within two that overlap, leaves a newer
\* verifier behind, or nothing.
PersistedFirst == ~raced => db <= disk

\* No connection that was authenticated before a rotation, or whose challenge is
\* older than it, is served after it.
NoOldConnections ==
    \A c \in Conn :
        ~overlapped /\ conn[c].authenticated /\ server[conn[c].server].rotations = {}
            => conn[c].challenge = server[conn[c].server].gen

\* Once a server serves, and whatever stopped, crashed or was restored before, the
\* verifier it holds and the database are of one generation, and no record of
\* another generation is on the board.  That generation is the one on disk, unless
\* a rotation failed and the server was told to stop.
BoardIsCurrent ==
    \A s \in Server :
        ~raced /\ ~overlapped /\ Serving(s) /\ server[s].rotations = {} =>
            /\ db = server[s].gen /\ records \subseteq {server[s].gen}
            /\ disk = server[s].gen \/ server[s].stop

\* The phrase the owner was shown last is not superseded by an older one: the state
\* on disk is of its generation or of a newer one.
RotationHolds == ~raced => promised <= disk

=============================================================================
