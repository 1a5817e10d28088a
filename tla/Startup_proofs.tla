----------------------------- MODULE Startup_proofs -----------------------------
(***************************************************************************)
(* Theorems about Startup, for every number of instances and of helper     *)
(* commands: the parent is told the truth, and an orderly shutdown leaves  *)
(* no helper and no pid file.  The invariant is one daemon's: what the     *)
(* pipe holds says how far it came, and a helper that runs is one whose    *)
(* pid is stored from the moment its back end is chosen.  A second one     *)
(* says that somebody answers for every pid file.                          *)
(***************************************************************************)
EXTENDS Startup, TLAPS

Over == Ending \cup {"gone"}

\* What is in the pipe, and what the parent made of it.
PipeInv(d) ==
    /\ ready[d] => pipe[d] # <<>> /\ Head(pipe[d]) = "zero"
    /\ pipe[d] # <<>> /\ ~ready[d] => pc[d] \in Over /\ Head(pipe[d]) = "message"
    /\ pc[d] \in Starting \cup {"none"} => ~ready[d]
    /\ pc[d] \in Starting => tells[d]
    /\ pc[d] \in {"close", "serve"} => ready[d]
    /\ pc[d] \in Over /\ pipe[d] = <<>> => silent[d]
    /\ pc[d] \in Ending => tells[d] \/ ready[d]
    /\ pc[d] = "none" <=> parent[d] = "none"
    /\ parent[d] = "ok" => ready[d] \/ silent[d]
    /\ parent[d] = "failed" => ~ready[d] /\ pc[d] \in Over

\* Where the helper stands.
HelperInv(d) ==
    /\ pc[d] \in {"none", "open", "opened", "lock", "init", "register"} =>
          helper[d] \notin {"child", "runs"} /\ ~mdns[d]
    /\ pc[d] \in {"exec", "store", "choose"} => ~mdns[d]
    /\ execpipe[d] \in {"closed", "errno"} => helper[d] # "child"
    /\ helper[d] = "runs" => execpipe[d] = "closed"
    /\ pc[d] = "store" => helper[d] # "child"
    /\ pc[d] = "choose" => helper[d] # "child" /\ mdns_pid[d]
    /\ pc[d] \in {"ready", "close", "serve", "down"} /\ mdns[d] =>
          helper[d] # "child" /\ (helper[d] = "runs" => mdns_pid[d])
    /\ pc[d] \in {"stream", "waits", "unlock", "unlink", "gone"} /\ mdns[d] =>
          helper[d] # "child" /\ (helper[d] = "runs" => untidy[d])

StartupInv == TypeOK /\ \A d \in Daemons : PipeInv(d) /\ HelperInv(d)

USE DEF launch, pidfile, advert, history

\* The initial state satisfies the invariant.
LEMMA StartupInit == Init => StartupInv
<1> SUFFICES ASSUME Init PROVE StartupInv
    OBVIOUS
<1>1. TypeOK
    BY StartupAssumption DEF Init, TypeOK, Starting, Ending
<1>2. ASSUME NEW d \in Daemons PROVE PipeInv(d) /\ HelperInv(d)
    BY DEF Init, PipeInv, HelperInv, Starting, Ending, Over
<1> QED
    BY <1>1, <1>2 DEF StartupInv

\* Places, pipes and flags keep their types.
LEMMA StartupTyped == TypeOK /\ [Next]_vars => TypeOK'
<1> SUFFICES ASSUME TypeOK, [Next]_vars PROVE TypeOK'
    OBVIOUS
<1> USE DEF TypeOK, Starting, Ending, GoTo
<1>1. ASSUME NEW d \in Daemons, Die(d) PROVE TypeOK'
    BY <1>1 DEF Die
<1>2. ASSUME NEW d \in Daemons, Vanish(d) PROVE TypeOK'
    BY <1>2 DEF Vanish
<1>3. ASSUME NEW d \in Daemons, Advance(d) PROVE TypeOK'
  <2>1. CASE OpenPidfile(d) \/ KeepPidfile(d)
    <3>1. CASE OpenPidfile(d)
        BY <3>1 DEF OpenPidfile
    <3>2. CASE KeepPidfile(d)
        BY <3>2 DEF KeepPidfile
    <3> QED
        BY <2>1, <3>1, <3>2
  <2>2. CASE CannotOpen(d) \/ CannotLock(d) \/ NoBackend(d)
      BY <2>2, <1>1 DEF CannotOpen, CannotLock, NoBackend
  <2>3. CASE LockPidfile(d)
      BY <2>3 DEF LockPidfile
  <2>4. CASE CannotSetUp(d)
      BY <2>4, <1>1, <1>2 DEF CannotSetUp, DieFormatted
  <2>5. CASE SetUp(d) \/ NoCommand(d) \/ Runs(d)
      BY <2>5 DEF SetUp, NoCommand, Runs
  <2>6. CASE Fork(d)
      BY <2>6 DEF Fork
  <2>7. CASE StorePid(d) \/ Choose(d)
    <3>1. CASE StorePid(d)
        BY <3>1 DEF StorePid
    <3>2. CASE Choose(d)
        BY <3>2 DEF Choose
    <3> QED
        BY <2>7, <3>1, <3>2
  <2>8. CASE Ready(d)
      BY <2>8 DEF Ready
  <2>9. CASE ClosePipe(d)
      BY <2>9 DEF ClosePipe
  <2>10. CASE Unregister(d)
    <3>1. CASE TellsHelper(d)
      <4>1. helper[d] \in {"none", "child", "runs", "told", "zombie", "reaped"}
          OBVIOUS
      <4>2. PICK state \in {"none", "child", "runs", "told", "zombie", "reaped"} :
                helper' = [helper EXCEPT ![d] = state]
          BY <2>10, <3>1, <4>1 DEF Unregister
      <4>3. helper' \in [Daemons -> {"none", "child", "runs", "told", "zombie", "reaped"}]
          BY <4>2
      <4> QED
          BY <2>10, <3>1, <4>3 DEF Unregister
    <3>2. CASE ~TellsHelper(d)
        BY <2>10, <3>2 DEF Unregister
    <3> QED
        BY <3>1, <3>2
  <2>11. CASE UnlockPidfile(d)
    <3>1. CASE OwnsPidfile(d)
        BY <2>11, <3>1 DEF UnlockPidfile
    <3>2. CASE ~OwnsPidfile(d)
        BY <2>11, <3>2 DEF UnlockPidfile
    <3> QED
        BY <3>1, <3>2
  <2>12. CASE UnlinkPidfile(d)
      BY <2>12 DEF UnlinkPidfile
  <2>13. CASE UnregisterWaits(d)
      BY <2>13 DEF UnregisterWaits
  <2>14. CASE ShutdownStream(d)
    <3>1. PICK place \in {"unlock", "waits"} : pc' = [pc EXCEPT ![d] = place]
        BY <2>14 DEF ShutdownStream
    <3> QED
        BY <2>14, <3>1 DEF ShutdownStream
  <2> QED
      BY <1>3, <2>1, <2>2, <2>3, <2>4, <2>5, <2>6, <2>7, <2>8, <2>9, <2>10,
         <2>11, <2>12, <2>13, <2>14 DEF Advance
<1>4. ASSUME NEW d \in Daemons, Start(d) \/ WaitEnds(d) PROVE TypeOK'
    BY <1>4 DEF Start, WaitEnds
<1>5. ASSUME NEW d \in Daemons, Exec(d) \/ HelperEnds(d) PROVE TypeOK'
  <2>1. CASE Exec(d)
      BY <2>1 DEF Exec
  <2>2. CASE HelperEnds(d)
      BY <2>2 DEF HelperEnds
  <2> QED
      BY <1>5, <2>1, <2>2
<1>6. ASSUME NEW d \in Daemons, Reap(d) PROVE TypeOK'
  <2>1. CASE ReapKnown(d)
      BY <2>1 DEF ReapKnown
  <2>2. CASE ReapOther(d)
      BY <2>2 DEF ReapOther
  <2> QED
      BY <1>6, <2>1, <2>2 DEF Reap
<1>7. ASSUME NEW d \in Daemons, ParentHears(d) PROVE TypeOK'
  <2>1. CASE ParentReads(d)
    <3>1. PICK said \in {"ok", "failed"} : parent' = [parent EXCEPT ![d] = said]
        BY <2>1 DEF ParentReads
    <3> QED
        BY <2>1, <3>1 DEF ParentReads
  <2>2. CASE ParentReadsNothing(d)
      BY <2>2 DEF ParentReadsNothing
  <2> QED
      BY <1>7, <2>1, <2>2 DEF ParentHears
<1>8. ASSUME NEW d \in Daemons, Terminate(d) PROVE TypeOK'
    BY <1>8 DEF Terminate
<1>9. CASE UNCHANGED vars
    BY <1>9 DEF vars
<1> QED
    BY <1>1, <1>2, <1>3, <1>4, <1>5, <1>6, <1>7, <1>8, <1>9
       DEF Next, Step, Kill, Fatal

\* What belongs to one instance.
Own(d) == <<parent[d], pipe[d], tells[d], pc[d], helper[d], execpipe[d],
            mdns_pid[d], mdns[d], ready[d], silent[d], untidy[d]>>

\* A step of one instance leaves another's pipe and helper alone.
LEMMA OthersKeep ==
    ASSUME TypeOK, NEW d \in Daemons, NEW e \in Daemons, d # e, Step(e)
    PROVE  UNCHANGED Own(d)
<1> USE DEF TypeOK, Own, GoTo
<1>1. Die(e) => UNCHANGED Own(d)
    BY DEF Die
<1>2. Vanish(e) => UNCHANGED Own(d)
    BY DEF Vanish
<1>3. CASE Advance(e)
  <2>1. CASE OpenPidfile(e) \/ KeepPidfile(e) \/ LockPidfile(e) \/ SetUp(e)
             \/ Fork(e) \/ NoCommand(e) \/ Runs(e) \/ StorePid(e) \/ Choose(e)
      BY <2>1 DEF OpenPidfile, KeepPidfile, LockPidfile, SetUp, Fork, NoCommand,
         Runs, StorePid, Choose
  <2>2. CASE Ready(e) \/ ClosePipe(e) \/ UnlockPidfile(e) \/ UnlinkPidfile(e)
      BY <2>2 DEF Ready, ClosePipe, UnlockPidfile, UnlinkPidfile
  <2>3. CASE Unregister(e) \/ UnregisterWaits(e) \/ ShutdownStream(e)
      BY <2>3 DEF Unregister, UnregisterWaits, ShutdownStream
  <2>4. CASE CannotOpen(e) \/ CannotLock(e) \/ NoBackend(e) \/ CannotSetUp(e)
      BY <2>4, <1>1, <1>2 DEF CannotOpen, CannotLock, NoBackend, CannotSetUp,
         DieFormatted
  <2> QED
      BY <1>3, <2>1, <2>2, <2>3, <2>4 DEF Advance
<1>4. CASE Start(e) \/ Exec(e) \/ Reap(e) \/ ParentHears(e) \/ HelperEnds(e)
           \/ WaitEnds(e) \/ Terminate(e)
    BY <1>4 DEF Start, WaitEnds, Exec, Reap, ReapKnown, ReapOther, ParentHears,
       ParentReads, ParentReadsNothing, HelperEnds, Terminate
<1>5. CASE Kill(e) \/ Fatal(e)
    BY <1>1, <1>2, <1>5 DEF Kill, Fatal
<1> QED
    BY <1>3, <1>4, <1>5 DEF Step

\* What is first in a pipe stays first.
LEMMA HeadAppend ==
    ASSUME NEW S, NEW s \in Seq(S), NEW x \in S
    PROVE  /\ Append(s, x) # <<>>
           /\ s = <<>> => Head(Append(s, x)) = x
           /\ s # <<>> => Head(Append(s, x)) = Head(s)
<1>1. Append(s, x) # <<>>
  <2>1. Len(Append(s, x)) = Len(s) + 1 /\ Len(s) \in Nat
      OBVIOUS
  <2> QED
      BY <2>1
<1>2. CASE s = <<>>
    BY <1>1, <1>2
<1>3. CASE s # <<>>
    BY <1>1, <1>3
<1> QED
    BY <1>1, <1>2, <1>3

\* A daemon that dies, on its own account or for its helper, keeps its pipe's
\* story true.
LEMMA DiePipe ==
    ASSUME TypeOK, NEW d \in Daemons, PipeInv(d), Lives(d), pc'[d] = "down",
           pipe' = IF tells[d] THEN [pipe EXCEPT ![d] = Append(@, "message")]
                   ELSE pipe,
           UNCHANGED <<ready, silent, parent, tells>>
    PROVE  PipeInv(d)'
<1>1. pipe[d] \in Seq({"zero", "message"})
    BY DEF TypeOK
<1>2. CASE tells[d]
  <2>1. pipe'[d] = Append(pipe[d], "message")
      BY <1>2 DEF TypeOK
  <2>2. /\ pipe'[d] # <<>>
        /\ pipe[d] = <<>> => Head(pipe'[d]) = "message"
        /\ pipe[d] # <<>> => Head(pipe'[d]) = Head(pipe[d])
      BY <1>1, <2>1, HeadAppend
  <2> QED
      BY <1>2, <2>2 DEF PipeInv, Starting, Ending, Over, Lives
<1>3. CASE ~tells[d]
  <2>1. pipe' = pipe
      BY <1>3
  <2> QED
      BY <1>3, <2>1 DEF PipeInv, Starting, Ending, Over, Lives
<1> QED
    BY <1>2, <1>3

\* So does one that vanishes.
LEMMA VanishPipe ==
    ASSUME TypeOK, NEW d \in Daemons, PipeInv(d),
           Lives(d) \/ pc[d] \in Ending, Vanish(d)
    PROVE  PipeInv(d)'
BY DEF Vanish, GoTo, TypeOK, PipeInv, Starting, Ending, Over, Lives

\* Every step of an instance keeps its pipe's story true.
LEMMA PipeStep ==
    ASSUME TypeOK, NEW d \in Daemons, PipeInv(d), Step(d)
    PROVE  PipeInv(d)'
<1> USE DEF TypeOK, Starting, Ending, Over, Lives, GoTo
<1>1. CASE Advance(d)
  <2>1. CASE OpenPidfile(d) \/ KeepPidfile(d) \/ LockPidfile(d) \/ SetUp(d)
      BY <2>1 DEF OpenPidfile, KeepPidfile, LockPidfile, SetUp, PipeInv
  <2>9. CASE Fork(d) \/ NoCommand(d) \/ Runs(d) \/ StorePid(d) \/ Choose(d)
      BY <2>9 DEF Fork, NoCommand, Runs, StorePid, Choose, PipeInv
  <2>2. CASE Ready(d)
    <3>1. pipe'[d] = Append(pipe[d], "zero") /\ pc[d] = "ready" /\ pipe[d] = <<>>
        BY <2>2 DEF Ready, PipeInv
    <3>2. pipe'[d] # <<>> /\ Head(pipe'[d]) = "zero"
        BY <3>1, HeadAppend
    <3> QED
        BY <2>2, <3>1, <3>2 DEF Ready, PipeInv
  <2>3. CASE ClosePipe(d)
      BY <2>3 DEF ClosePipe, PipeInv
  <2>4. CASE Unregister(d) \/ UnregisterWaits(d)
      BY <2>4 DEF Unregister, UnregisterWaits, PipeInv
  <2>8. CASE ShutdownStream(d)
    <3>1. PICK place \in {"unlock", "waits"} : pc' = [pc EXCEPT ![d] = place]
        BY <2>8 DEF ShutdownStream
    <3> QED
        BY <2>8, <3>1 DEF ShutdownStream, PipeInv
  <2>5. CASE UnlockPidfile(d)
    <3>1. PICK place \in {"unlink", "gone"} : pc' = [pc EXCEPT ![d] = place]
        BY <2>5 DEF UnlockPidfile
    <3> QED
        BY <2>5, <3>1 DEF UnlockPidfile, PipeInv
  <2>6. CASE UnlinkPidfile(d)
      BY <2>6 DEF UnlinkPidfile, PipeInv
  <2>7. CASE CannotOpen(d) \/ CannotLock(d) \/ NoBackend(d) \/ CannotSetUp(d)
    <3>1. Lives(d) /\ (Die(d) \/ Vanish(d))
        BY <2>7 DEF CannotOpen, CannotLock, NoBackend, CannotSetUp, DieFormatted
    <3>2. Die(d) => pc'[d] = "down"
        BY DEF Die
    <3> QED
        BY <3>1, <3>2, DiePipe, VanishPipe DEF Die
  <2> QED
      BY <1>1, <2>1, <2>2, <2>3, <2>4, <2>5, <2>6, <2>7, <2>8, <2>9 DEF Advance
<1>2. CASE Start(d) \/ WaitEnds(d)
    BY <1>2 DEF Start, WaitEnds, PipeInv
<1>3. CASE Exec(d) \/ HelperEnds(d) \/ ReapOther(d)
    BY <1>3 DEF Exec, HelperEnds, ReapOther, PipeInv
<1>4. CASE ReapKnown(d)
  <2>1. Lives(d) /\ pc'[d] = "down"
      BY <1>4 DEF ReapKnown
  <2> QED
      BY <1>4, <2>1, DiePipe DEF ReapKnown
<1>5. CASE ParentReads(d)
  <2>1. CASE Head(pipe[d]) = "zero"
      BY <1>5, <2>1 DEF ParentReads, PipeInv
  <2>2. CASE Head(pipe[d]) # "zero"
      BY <1>5, <2>2 DEF ParentReads, PipeInv
  <2> QED
      BY <2>1, <2>2
<1>6. CASE ParentReadsNothing(d)
  <2>1. pc[d] \in Over /\ ~ready[d] /\ silent[d]
      BY <1>6 DEF ParentReadsNothing, PipeInv, Writers
  <2> QED
      BY <1>6, <2>1 DEF ParentReadsNothing, PipeInv
<1>7. CASE Terminate(d)
    BY <1>7 DEF Terminate, PipeInv
<1>8. CASE Kill(d)
    BY <1>8, VanishPipe DEF Kill
<1>9. CASE Fatal(d)
  <2>1. Lives(d) /\ pc'[d] = "down"
      BY <1>9 DEF Fatal, Die
  <2> QED
      BY <1>9, <2>1, DiePipe DEF Fatal, Die
<1> QED
    BY <1>1, <1>2, <1>3, <1>4, <1>5, <1>6, <1>7, <1>8, <1>9
       DEF Step, Reap, ParentHears

\* Every step of an instance keeps its helper where it should be.
LEMMA HelperStep ==
    ASSUME TypeOK, NEW d \in Daemons, HelperInv(d), Step(d)
    PROVE  HelperInv(d)'
<1> USE DEF TypeOK, Starting, Ending, Lives, GoTo, HelperInv
<1>1. Die(d) /\ Lives(d) => HelperInv(d)'
    BY DEF Die
<1>2. Vanish(d) /\ (Lives(d) \/ pc[d] \in Ending) => HelperInv(d)'
    BY DEF Vanish
<1>3. CASE Advance(d)
  <2>1. CASE OpenPidfile(d) \/ KeepPidfile(d) \/ LockPidfile(d) \/ SetUp(d)
      BY <2>1 DEF OpenPidfile, KeepPidfile, LockPidfile, SetUp
  <2>2. CASE Fork(d)
      BY <2>2 DEF Fork
  <2>3. CASE NoCommand(d)
      BY <2>3 DEF NoCommand
  <2>4. CASE Runs(d) \/ StorePid(d)
      BY <2>4 DEF Runs, StorePid
  <2>5. CASE Choose(d)
      BY <2>5 DEF Choose
  <2>6. CASE Ready(d) \/ ClosePipe(d)
      BY <2>6 DEF Ready, ClosePipe
  <2>7. CASE Unregister(d)
    <3>1. CASE TellsHelper(d)
      <4>1. PICK state \in {"none", "child", "told", "zombie", "reaped"} :
                /\ helper' = [helper EXCEPT ![d] = state]
                /\ state = "child" => helper[d] = "child"
          BY <2>7, <3>1 DEF Unregister
      <4> QED
          BY <2>7, <3>1, <4>1 DEF Unregister, TellsHelper
    <3>2. CASE ~TellsHelper(d)
        BY <2>7, <3>2 DEF Unregister, TellsHelper
    <3> QED
        BY <3>1, <3>2
  <2>8. CASE UnlockPidfile(d)
    <3>1. PICK place \in {"unlink", "gone"} : pc' = [pc EXCEPT ![d] = place]
        BY <2>8 DEF UnlockPidfile
    <3> QED
        BY <2>8, <3>1 DEF UnlockPidfile
  <2>9. CASE UnlinkPidfile(d)
      BY <2>9 DEF UnlinkPidfile
  <2>10. CASE CannotOpen(d) \/ CannotLock(d) \/ NoBackend(d) \/ CannotSetUp(d)
      BY <2>10, <1>1, <1>2 DEF CannotOpen, CannotLock, NoBackend, CannotSetUp,
         DieFormatted
  <2>11. CASE UnregisterWaits(d)
      BY <2>11 DEF UnregisterWaits
  <2>12. CASE ShutdownStream(d)
    <3>1. PICK place \in {"unlock", "waits"} : pc' = [pc EXCEPT ![d] = place]
        BY <2>12 DEF ShutdownStream
    <3> QED
        BY <2>12, <3>1 DEF ShutdownStream
  <2> QED
      BY <1>3, <2>1, <2>2, <2>3, <2>4, <2>5, <2>6, <2>7, <2>8, <2>9, <2>10,
         <2>11, <2>12 DEF Advance
<1>4. CASE Start(d) \/ WaitEnds(d)
    BY <1>4 DEF Start, WaitEnds
<1>5. CASE Exec(d)
    BY <1>5 DEF Exec
<1>6. CASE HelperEnds(d)
    BY <1>6 DEF HelperEnds
<1>7. CASE ReapKnown(d)
    BY <1>7 DEF ReapKnown
<1>8. CASE ReapOther(d)
    BY <1>8 DEF ReapOther
<1>9. CASE ParentReads(d) \/ ParentReadsNothing(d)
    BY <1>9 DEF ParentReads, ParentReadsNothing
<1>10. CASE Terminate(d)
    BY <1>10 DEF Terminate
<1>11. CASE Kill(d) \/ Fatal(d)
    BY <1>11, <1>1, <1>2 DEF Kill, Fatal
<1> QED
    BY <1>3, <1>4, <1>5, <1>6, <1>7, <1>8, <1>9, <1>10, <1>11
       DEF Step, Reap, ParentHears

\* The invariant is inductive.
LEMMA StartupStep == StartupInv /\ [Next]_vars => StartupInv'
<1> SUFFICES ASSUME StartupInv, [Next]_vars PROVE StartupInv'
    OBVIOUS
<1>1. TypeOK'
    BY StartupTyped DEF StartupInv
<1>2. ASSUME NEW d \in Daemons, UNCHANGED Own(d) PROVE PipeInv(d)' /\ HelperInv(d)'
    BY <1>2 DEF Own, StartupInv, PipeInv, HelperInv
<1>3. CASE UNCHANGED vars
    BY <1>1, <1>2, <1>3 DEF vars, Own, StartupInv
<1>4. ASSUME NEW e \in Daemons, Step(e), NEW d \in Daemons
      PROVE  PipeInv(d)' /\ HelperInv(d)'
  <2>1. CASE d = e
      BY <1>4, <2>1, PipeStep, HelperStep DEF StartupInv
  <2>2. CASE d # e
      BY <1>4, <2>2, <1>2, OthersKeep DEF StartupInv
  <2> QED
      BY <2>1, <2>2
<1> QED
    BY <1>1, <1>3, <1>4 DEF Next, StartupInv

\* The daemons' machine is type-correct (daemon.c 38-108).
THEOREM StartupTypeCorrect == Spec => []TypeOK
<1>1. StartupInv => TypeOK
    BY DEF StartupInv
<1> QED
    BY <1>1, StartupInit, StartupStep, PTL DEF Spec

\* Whatever the instances and signals do, a parent reports success only of a
\* daemon that came up or ended without a word, and failure only of one that
\* did not come up.
THEOREM ParentsToldTruth == Spec => []ToldTruth
<1>1. StartupInv => ToldTruth
    BY DEF StartupInv, PipeInv, ToldTruth
<1> QED
    BY <1>1, StartupInit, StartupStep, PTL DEF Spec

\* However many helper commands are tried, an orderly shutdown leaves no
\* helper running once a back end is chosen.
THEOREM HelpersTold == Spec => []NoOrphanHelper
<1>1. StartupInv => NoOrphanHelper
    BY DEF StartupInv, HelperInv, NoOrphanHelper
<1> QED
    BY <1>1, StartupInit, StartupStep, PTL DEF Spec
-----------------------------------------------------------------------------
\* An instance answers for the pidfile that it opened until it has ended in
\* order, and for good if it did not know of it.
Answers(d) ==
    opened[d] = path /\ (untidy[d] \/ lock_fd[d] = 0 \/ pc[d] \notin {"none", "gone"})
PidfileInv == path # 0 => \E d \in Daemons : Answers(d)

\* An instance answers until somebody unlinks.
LEMMA AnswersStill ==
    ASSUME TypeOK, NEW e \in Daemons, Step(e), path # 0, path' # 0,
           NEW d \in Daemons, Answers(d)
    PROVE  Answers(d)'
<1> USE DEF TypeOK, Starting, Ending, Lives, GoTo, Answers
<1>1. Die(e) => Answers(d)'
    BY DEF Die
<1>2. Vanish(e) => Answers(d)'
    BY DEF Vanish
<1>3. CASE Advance(e)
  <2>1. CASE OpenPidfile(e)
      BY <2>1 DEF OpenPidfile
  <2>2. CASE KeepPidfile(e)
      BY <2>2 DEF KeepPidfile
  <2>3. CASE LockPidfile(e) \/ SetUp(e) \/ Fork(e) \/ NoCommand(e) \/ Runs(e)
             \/ StorePid(e)
      BY <2>3 DEF LockPidfile, SetUp, Fork, NoCommand, Runs, StorePid
  <2>4. CASE Choose(e) \/ Ready(e) \/ ClosePipe(e) \/ Unregister(e)
             \/ UnregisterWaits(e)
      BY <2>4 DEF Choose, Ready, ClosePipe, Unregister, UnregisterWaits
  <2>5. CASE ShutdownStream(e)
    <3>1. PICK place \in {"unlock", "waits"} : pc' = [pc EXCEPT ![e] = place]
        BY <2>5 DEF ShutdownStream
    <3> QED
        BY <2>5, <3>1 DEF ShutdownStream
  <2>6. CASE UnlockPidfile(e)
      BY <2>6 DEF UnlockPidfile, OwnsPidfile
  <2>7. CASE CannotOpen(e) \/ CannotLock(e) \/ NoBackend(e) \/ CannotSetUp(e)
      BY <2>7, <1>1, <1>2 DEF CannotOpen, CannotLock, NoBackend, CannotSetUp,
         DieFormatted
  <2>8. ~UnlinkPidfile(e)
      BY DEF UnlinkPidfile
  <2> QED
      BY <1>3, <2>1, <2>2, <2>3, <2>4, <2>5, <2>6, <2>7, <2>8 DEF Advance
<1>4. CASE Start(e) \/ Exec(e) \/ HelperEnds(e) \/ WaitEnds(e) \/ ReapKnown(e)
           \/ ReapOther(e)
    BY <1>4 DEF Start, Exec, HelperEnds, WaitEnds, ReapKnown, ReapOther
<1>5. CASE ParentReads(e) \/ ParentReadsNothing(e) \/ Terminate(e)
    BY <1>5 DEF ParentReads, ParentReadsNothing, Terminate
<1>6. CASE Kill(e) \/ Fatal(e)
    BY <1>6, <1>1, <1>2 DEF Kill, Fatal
<1> QED
    BY <1>3, <1>4, <1>5, <1>6 DEF Step, Reap, ParentHears

\* Nobody but who opens it makes a pidfile.
LEMMA MadeByOpening ==
    ASSUME NEW e \in Daemons, Step(e), path = 0, path' # 0
    PROVE  OpenPidfile(e)
BY DEF Step, Advance, Start, CannotOpen, KeepPidfile, LockPidfile, CannotLock,
   SetUp, CannotSetUp, Fork, NoCommand, Runs, StorePid, Choose, NoBackend, Ready,
   ClosePipe, Unregister, UnregisterWaits, ShutdownStream, UnlockPidfile,
   UnlinkPidfile, WaitEnds, Exec, Reap, ReapKnown, ReapOther, ParentHears,
   ParentReads, ParentReadsNothing, HelperEnds, Terminate, Kill, Fatal,
   DieFormatted, Die, Vanish

\* Somebody answers for every pidfile there is.
LEMMA PidfileStep == TypeOK /\ PidfileInv /\ [Next]_vars => PidfileInv'
<1> SUFFICES ASSUME TypeOK, PidfileInv, [Next]_vars, path' # 0
             PROVE  \E d \in Daemons : Answers(d)'
    BY DEF PidfileInv
<1>1. CASE UNCHANGED vars
    BY <1>1 DEF vars, PidfileInv, Answers
<1>2. ASSUME NEW e \in Daemons, Step(e) PROVE \E d \in Daemons : Answers(d)'
  <2>1. CASE path = 0
    <3>1. OpenPidfile(e)
        BY <1>2, <2>1, MadeByOpening
    <3>2. Answers(e)'
        BY <3>1 DEF OpenPidfile, GoTo, Answers, TypeOK
    <3> QED
        BY <3>2
  <2>2. CASE path # 0
    <3>1. PICK d \in Daemons : Answers(d)
        BY <2>2 DEF PidfileInv
    <3> QED
        BY <1>2, <2>2, <3>1, AnswersStill
  <2> QED
      BY <2>1, <2>2
<1> QED
    BY <1>1, <1>2 DEF Next

\* However many instances there were, and whatever they unlinked of each
\* other's: when all have ended, a pidfile that is left (daemon.c 101-108) is
\* one that an instance opened which was killed, or stopped before it had
\* stored the descriptor.
THEOREM NoPidfileLeft == Spec => []PidfileRemoved
<1>1. Init => PidfileInv
    BY DEF Init, PidfileInv
<1>2. ASSUME PidfileInv PROVE PidfileRemoved
  <2> SUFFICES ASSUME \A d \in Daemons : pc[d] \in {"none", "gone"}, path # 0,
                      ~\E d \in Daemons : opened[d] = path /\ (untidy[d] \/ lock_fd[d] = 0)
               PROVE  FALSE
      BY DEF PidfileRemoved
  <2> QED BY <1>2 DEF PidfileInv, Answers
<1> QED
    BY <1>1, <1>2, PidfileStep, StartupTypeCorrect, PTL DEF Spec
=============================================================================
