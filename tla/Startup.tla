-------------------------------- MODULE Startup --------------------------------
(***************************************************************************)
(* How a daemon starts, tells its parent, and ends: daemon.c 38-108, die   *)
(* (common.c 44-58), shairport_shutdown and the signal handlers            *)
(* (shairport.c 48-77, 239-243), main (274-323), the choice of an mDNS     *)
(* back end (mdns.c 59-110) and the helper that the external ones run      *)
(* (mdns_external.c 35-141).  Several instances share one pidfile; every   *)
(* one is started once, with -d and a pidfile.                             *)
(*                                                                         *)
(* A file is the number of its creation: path is the one that the pidfile's *)
(* name leads to, 0 if none.  lockf's lock belongs to a process and a file. *)
(***************************************************************************)
EXTENDS Naturals, Sequences

CONSTANTS Daemons,
          Commands   \* how many helper commands the back ends try in turn

ASSUME StartupAssumption == Commands \in Nat

VARIABLES
    parent,      \* what the spawning process does or has said
    pipe,        \* daemon_pipe
    tells,       \* daemon_pipe[1] of the daemon is open
    pc,          \* the daemon's place
    opened,      \* the file that its open returned, 0 if none
    lock_fd,     \* what the program knows of it, 0 if nothing
    locked,      \* it has the lock of that file
    path, files, \* the pidfile; how many have been created
    tries,       \* commands left to try
    helper,      \* the child that advertises
    execpipe,    \* what fork_execvp's pipe says of it
    mdns_pid,    \* its pid is stored
    mdns,        \* config.mdns is set
    ready,       \* history: the daemon has said that it is up
    silent,      \* history: it ended without a message
    untidy,      \* history: it ended without shairport_shutdown
    missed       \* history: its helper died before the pid was stored

launch == <<parent, pipe, tells>>
pidfile == <<opened, lock_fd, locked, path, files>>
advert == <<tries, helper, execpipe, mdns_pid, mdns>>
history == <<ready, silent, untidy, missed>>
vars == <<launch, pc, pidfile, advert, history>>

Init ==
    /\ parent = [d \in Daemons |-> "none"] /\ pipe = [d \in Daemons |-> <<>>]
    /\ tells = [d \in Daemons |-> FALSE] /\ pc = [d \in Daemons |-> "none"]
    /\ opened = [d \in Daemons |-> 0] /\ lock_fd = [d \in Daemons |-> 0]
    /\ locked = [d \in Daemons |-> FALSE]
    /\ path = 0 /\ files = 0
    /\ tries = [d \in Daemons |-> Commands]
    /\ helper = [d \in Daemons |-> "none"] /\ execpipe = [d \in Daemons |-> "empty"]
    /\ mdns_pid = [d \in Daemons |-> FALSE] /\ mdns = [d \in Daemons |-> FALSE]
    /\ ready = [d \in Daemons |-> FALSE] /\ silent = [d \in Daemons |-> FALSE]
    /\ untidy = [d \in Daemons |-> FALSE] /\ missed = [d \in Daemons |-> FALSE]

Starting == {"open", "opened", "lock", "init", "register", "exec", "store", "choose",
             "ready"}
Ending == {"down", "stream", "waits", "unlock", "unlink"}     \* shutting_down is set
Lives(d) == pc[d] \in Starting \cup {"close", "serve"}
HelperLives(d) == helper[d] \in {"child", "runs", "told"}

GoTo(d, place) == pc' = [pc EXCEPT ![d] = place]

-----------------------------------------------------------------------------
\* Mutant: the message goes to the log only.
DieMute(d) == GoTo(d, "down") /\ UNCHANGED <<launch, pidfile, advert, history>>
\* die tells the parent while the pipe is open, and begins to shut down.
Die(d) ==
    /\ GoTo(d, "down")
    /\ pipe' = IF tells[d] THEN [pipe EXCEPT ![d] = Append(@, "message")] ELSE pipe
    /\ UNCHANGED <<parent, tells, pidfile, advert, history>>

\* The process is gone, with its lock and without a shutdown.
Vanish(d) ==
    /\ GoTo(d, "gone")
    /\ locked' = [locked EXCEPT ![d] = FALSE]
    /\ untidy' = [untidy EXCEPT ![d] = TRUE]
    /\ silent' = [silent EXCEPT ![d] = TRUE]
    /\ UNCHANGED <<launch, opened, lock_fd, path, files, advert, ready, missed>>

\* A message with arguments is formatted twice from one va_list, which is
\* undefined: some message, or the program crashes.
DieFormatted(d) == Die(d) \/ Vanish(d)

-----------------------------------------------------------------------------
\* daemon_init: fork.
Start(d) ==
    /\ pc[d] = "none" /\ GoTo(d, "open")
    /\ parent' = [parent EXCEPT ![d] = "reads"]
    /\ tells' = [tells EXCEPT ![d] = TRUE]
    /\ UNCHANGED <<pipe, pidfile, advert, history>>

\* The child opens or creates the pidfile and keeps the descriptor...
OpenPidfile(d) ==
    /\ pc[d] = "open" /\ GoTo(d, "opened")
    /\ files' = IF path = 0 THEN files + 1 ELSE files
    /\ path' = IF path = 0 THEN files + 1 ELSE path
    /\ opened' = [opened EXCEPT ![d] = path']
    /\ UNCHANGED <<launch, lock_fd, locked, advert, history>>

KeepPidfile(d) ==
    /\ pc[d] = "opened" /\ GoTo(d, "lock")
    /\ lock_fd' = [lock_fd EXCEPT ![d] = opened[d]]
    /\ UNCHANGED <<launch, opened, locked, path, files, advert, history>>

CannotOpen(d) == pc[d] = "open" /\ Die(d)

\* ...and locks what it has opened, wherever the name leads by now.
OthersLock(d) == \E e \in Daemons \ {d} : locked[e] /\ lock_fd[e] = lock_fd[d]
LockPidfile(d) ==
    /\ pc[d] = "lock" /\ ~OthersLock(d) /\ GoTo(d, "init")
    /\ locked' = [locked EXCEPT ![d] = TRUE]
    /\ UNCHANGED <<launch, opened, lock_fd, path, files, advert, history>>

CannotLock(d) == pc[d] = "lock" /\ OthersLock(d) /\ Die(d)

\* log_setup, the output's init, metadata_open, the listening sockets.
SetUp(d) ==
    /\ pc[d] = "init" /\ GoTo(d, "register")
    /\ UNCHANGED <<launch, pidfile, advert, history>>

CannotSetUp(d) == pc[d] = "init" /\ DieFormatted(d)

-----------------------------------------------------------------------------
\* mdns_register tries helper commands: fork_execvp...
Fork(d) ==
    /\ pc[d] = "register" /\ tries[d] > 0 /\ GoTo(d, "exec")
    /\ helper' = [helper EXCEPT ![d] = "child"]
    /\ execpipe' = [execpipe EXCEPT ![d] = "empty"]
    /\ tries' = [tries EXCEPT ![d] = @ - 1]
    /\ UNCHANGED <<launch, pidfile, mdns_pid, mdns, history>>

\* ...whose child runs the command, which closes the pipe, or writes its errno.
Exec(d) ==
    /\ helper[d] = "child"
    /\ \/ /\ helper' = [helper EXCEPT ![d] = "runs"]
          /\ execpipe' = [execpipe EXCEPT ![d] = "closed"]
       \/ /\ helper' = [helper EXCEPT ![d] = "zombie"]
          /\ execpipe' = [execpipe EXCEPT ![d] = "errno"]
    /\ UNCHANGED <<launch, pc, pidfile, tries, mdns_pid, mdns, history>>

NoCommand(d) ==
    /\ pc[d] = "exec" /\ execpipe[d] = "errno" /\ GoTo(d, "register")
    /\ UNCHANGED <<launch, pidfile, advert, history>>

Runs(d) ==
    /\ pc[d] = "exec" /\ execpipe[d] = "closed" /\ GoTo(d, "store")
    /\ UNCHANGED <<launch, pidfile, advert, history>>

\* Mutant: the pid is not kept.
StorePidNot(d) ==
    /\ pc[d] = "store" /\ GoTo(d, "choose")
    /\ UNCHANGED <<launch, pidfile, advert, history>>
StorePid(d) ==
    /\ pc[d] = "store" /\ GoTo(d, "choose")
    /\ mdns_pid' = [mdns_pid EXCEPT ![d] = TRUE]
    /\ UNCHANGED <<launch, pidfile, tries, helper, execpipe, mdns, history>>

\* The back end that works becomes config.mdns.  Those of the program itself
\* come after, or are chosen by name, and may fail too.
Choose(d) ==
    /\ \/ pc[d] = "choose"
       \/ pc[d] = "register" /\ tries[d] = 0
    /\ GoTo(d, "ready")
    /\ mdns' = [mdns EXCEPT ![d] = TRUE]
    /\ UNCHANGED <<launch, pidfile, tries, helper, execpipe, mdns_pid, history>>

NoBackend(d) == pc[d] = "register" /\ tries[d] = 0 /\ Die(d)

\* daemon_ready: a zero byte, then the end is closed.
Ready(d) ==
    /\ pc[d] = "ready" /\ GoTo(d, "close")
    /\ pipe' = [pipe EXCEPT ![d] = Append(@, "zero")]
    /\ ready' = [ready EXCEPT ![d] = TRUE]
    /\ UNCHANGED <<parent, tells, pidfile, advert, silent, untidy, missed>>

ClosePipe(d) ==
    /\ pc[d] = "close" /\ GoTo(d, "serve")
    /\ tells' = [tells EXCEPT ![d] = FALSE]
    /\ UNCHANGED <<parent, pipe, pidfile, advert, history>>

\* While it serves something fatal may happen, as in StreamSession.
Fatal(d) == pc[d] = "serve" /\ Die(d)

-----------------------------------------------------------------------------
\* The helper ends, because it was told to or on its own account.
HelperEnds(d) ==
    /\ helper[d] \in {"runs", "told"}
    /\ helper' = [helper EXCEPT ![d] = "zombie"]
    /\ UNCHANGED <<launch, pc, pidfile, tries, execpipe, mdns_pid, mdns, history>>

\* sig_child reaps; a helper whose pid is stored must not end before shutdown.
ReapKnown(d) ==
    /\ helper[d] = "zombie" /\ Lives(d) /\ mdns_pid[d]
    /\ GoTo(d, "down")
    /\ helper' = [helper EXCEPT ![d] = "reaped"]
    /\ pipe' = IF tells[d] THEN [pipe EXCEPT ![d] = Append(@, "message")] ELSE pipe
    /\ UNCHANGED <<parent, tells, pidfile, tries, execpipe, mdns_pid, mdns, history>>

ReapOther(d) ==
    /\ helper[d] = "zombie" /\ pc[d] # "gone" /\ ~(Lives(d) /\ mdns_pid[d])
    /\ helper' = [helper EXCEPT ![d] = "reaped"]
    /\ missed' = [missed EXCEPT ![d] =
                     @ \/ (pc[d] \in {"exec", "store"} /\ execpipe[d] = "closed")]
    /\ UNCHANGED <<launch, pc, pidfile, tries, execpipe, mdns_pid, mdns,
                   ready, silent, untidy>>

\* SIGTERM and SIGINT run shairport_shutdown in whatever place the daemon is.
Terminate(d) ==
    /\ Lives(d) /\ GoTo(d, "down")
    /\ silent' = [silent EXCEPT ![d] = TRUE]
    /\ UNCHANGED <<launch, pidfile, advert, ready, untidy, missed>>

Kill(d) == (Lives(d) \/ pc[d] \in Ending) /\ Vanish(d)

-----------------------------------------------------------------------------
\* Mutant: the helper is told only once the daemon serves.
TellsHelperServing(d) == mdns[d] /\ mdns_pid[d] /\ ~tells[d]
TellsHelper(d) == mdns[d] /\ mdns_pid[d]
\* shairport_shutdown: mdns_unregister...
Unregister(d) ==
    /\ pc[d] = "down" /\ GoTo(d, "stream")
    /\ IF TellsHelper(d)
       THEN /\ helper' = [helper EXCEPT ![d] = IF @ = "runs" THEN "told" ELSE @]
            /\ mdns_pid' = [mdns_pid EXCEPT ![d] = FALSE]
       ELSE UNCHANGED <<helper, mdns_pid>>
    /\ UNCHANGED <<launch, pidfile, tries, execpipe, mdns, history>>

\* A back end of the program itself may not return from mdns_unregister (Mdnsd)...
UnregisterWaits(d) ==
    /\ pc[d] = "down" /\ mdns[d] /\ ~mdns_pid[d] /\ GoTo(d, "waits")
    /\ UNCHANGED <<launch, pidfile, advert, history>>

\* ...nor rtsp_shutdown_stream from waiting for the conversation that plays, of
\* which there is none before the daemon serves (RtspOwnership).
ShutdownStream(d) ==
    /\ pc[d] = "stream"
    /\ GoTo(d, "unlock") \/ (~tells[d] /\ GoTo(d, "waits"))
    /\ UNCHANGED <<launch, pidfile, advert, history>>

WaitEnds(d) ==
    /\ pc[d] = "waits" /\ GoTo(d, "unlock")
    /\ UNCHANGED <<launch, pidfile, advert, history>>

\* Mutant: only the instance that has the lock removes the pidfile.
OwnsPidfileLocked(d) == locked[d]
OwnsPidfile(d) == lock_fd[d] # 0
\* ...then daemon_exit: unlock, and unlink whatever has the name.
UnlockPidfile(d) ==
    /\ pc[d] = "unlock" /\ GoTo(d, IF OwnsPidfile(d) THEN "unlink" ELSE "gone")
    /\ locked' = [locked EXCEPT ![d] = FALSE]
    /\ UNCHANGED <<launch, opened, lock_fd, path, files, advert, history>>

UnlinkPidfile(d) ==
    /\ pc[d] = "unlink" /\ GoTo(d, "gone")
    /\ path' = 0
    /\ UNCHANGED <<launch, opened, lock_fd, locked, files, advert, history>>

-----------------------------------------------------------------------------
\* Mutant: the parent keeps its own copy of the end that is written.
WritersAll(d) == TRUE
\* Who could still write: the daemon, and the helper that inherited the end.
Writers(d) == (pc[d] # "gone" /\ tells[d]) \/ HelperLives(d)

\* The parent reads once and looks at the first byte; if nothing comes the
\* byte was never written.
ParentReads(d) ==
    /\ parent[d] = "reads" /\ pipe[d] # <<>>
    /\ parent' = [parent EXCEPT ![d] = IF Head(pipe[d]) = "zero" THEN "ok" ELSE "failed"]
    /\ UNCHANGED <<pipe, tells, pc, pidfile, advert, history>>

ParentReadsNothing(d) ==
    /\ parent[d] = "reads" /\ pipe[d] = <<>> /\ ~Writers(d)
    /\ \E byte \in {"ok", "failed"} : parent' = [parent EXCEPT ![d] = byte]
    /\ UNCHANGED <<pipe, tells, pc, pidfile, advert, history>>

Advance(d) ==
    \/ OpenPidfile(d) \/ CannotOpen(d) \/ KeepPidfile(d) \/ LockPidfile(d)
    \/ CannotLock(d) \/ SetUp(d) \/ CannotSetUp(d) \/ Fork(d) \/ NoCommand(d)
    \/ Runs(d) \/ StorePid(d) \/ Choose(d) \/ NoBackend(d) \/ Ready(d) \/ ClosePipe(d)
    \/ Unregister(d) \/ UnregisterWaits(d) \/ ShutdownStream(d)
    \/ UnlockPidfile(d) \/ UnlinkPidfile(d)
Reap(d) == ReapKnown(d) \/ ReapOther(d)
ParentHears(d) == ParentReads(d) \/ ParentReadsNothing(d)

Step(d) ==
    \/ Start(d) \/ Advance(d) \/ Exec(d) \/ Reap(d) \/ ParentHears(d)
    \/ HelperEnds(d) \/ WaitEnds(d) \/ Terminate(d) \/ Kill(d) \/ Fatal(d)
Next == \E d \in Daemons : Step(d)
Spec == Init /\ [][Next]_vars
\* Processes run, signals arrive; nothing makes anyone start, kill or fail, or
\* ends a wait.
FairSpec == Spec /\ \A d \in Daemons :
    WF_vars(Advance(d)) /\ WF_vars(Exec(d)) /\ WF_vars(Reap(d)) /\ WF_vars(ParentHears(d))

-----------------------------------------------------------------------------
\* Places, pipes and flags have the values the code gives them (daemon.c
\* 38-108, mdns_external.c 42-141).
TypeOK ==
    /\ parent \in [Daemons -> {"none", "reads", "ok", "failed"}]
    /\ pipe \in [Daemons -> Seq({"zero", "message"})]
    /\ pc \in [Daemons -> Starting \cup Ending \cup {"none", "close", "serve", "gone"}]
    /\ helper \in [Daemons -> {"none", "child", "runs", "told", "zombie", "reaped"}]
    /\ execpipe \in [Daemons -> {"empty", "closed", "errno"}]
    /\ opened \in [Daemons -> Nat] /\ lock_fd \in [Daemons -> Nat] /\ tries \in [Daemons -> Nat]
    /\ path \in Nat /\ files \in Nat
    /\ tells \in [Daemons -> BOOLEAN] /\ locked \in [Daemons -> BOOLEAN]
    /\ mdns_pid \in [Daemons -> BOOLEAN] /\ mdns \in [Daemons -> BOOLEAN]
    /\ ready \in [Daemons -> BOOLEAN] /\ silent \in [Daemons -> BOOLEAN]
    /\ untidy \in [Daemons -> BOOLEAN] /\ missed \in [Daemons -> BOOLEAN]

\* What the parent reports is true (daemon.c 51-67, 87-99): success of a
\* daemon that has come up, failure of one that has not.  Only a daemon that
\* ended without a message may be reported either way.
ToldTruth == \A d \in Daemons :
    /\ parent[d] = "ok" => ready[d] \/ silent[d]
    /\ parent[d] = "failed" => ~ready[d]

\* The parent hears of every start (daemon.c 51-55), even one that ends without
\* a message, unless a helper survives its daemon with the pipe open or the
\* shutdown waits for ever.
ParentNeverHangs == \A d \in Daemons :
    parent[d] = "reads" ~> \/ parent[d] # "reads" \/ [](pc[d] = "waits")
                           \/ pc[d] = "gone" /\ HelperLives(d)

\* A daemon that serves does not outlive its helper (shairport.c 70-77), unless
\* that died before its pid was stored, or it waits for ever for the
\* conversation that plays (48-61).
HelperWatched == \A d \in Daemons :
    pc[d] = "serve" /\ helper[d] = "zombie" /\ execpipe[d] = "closed"
        ~> pc[d] = "gone" \/ missed[d] \/ [](pc[d] = "waits")

\* No helper is left alone by an orderly shutdown (mdns_external.c 137-141)
\* once its back end is chosen.
NoOrphanHelper == \A d \in Daemons :
    pc[d] = "gone" /\ ~untidy[d] /\ mdns[d] => helper[d] \notin {"child", "runs"}

\* When all instances have ended, whatever they did to each other's, a pidfile
\* that is left (daemon.c 101-108) is one that an instance opened which was
\* killed, or stopped before it had stored the descriptor (72).
PidfileRemoved ==
    (\A d \in Daemons : pc[d] \in {"none", "gone"}) /\ path # 0 =>
        \E d \in Daemons : opened[d] = path /\ (untidy[d] \/ lock_fd[d] = 0)

\* The pidfile keeps a second instance from serving (daemon.c 77-80).
OneDaemon == \A d, e \in Daemons :
    pc[d] = "serve" /\ pc[e] = "serve" => d = e
=============================================================================
