----------------------- MODULE SessionAuthorityProofs -----------------------
(***************************************************************************)
(* Proofs about SessionAuthority, for any number of daemons.               *)
(*                                                                         *)
(* That the tracked map never loses a live session rests on one fact about *)
(* the watchers: a callback onExit(i) in progress means that i is dead.    *)
(* It is inductive together with the types and with the fact that only     *)
(* processes that were started are launched or watched, since only those   *)
(* stay dead.  It needs nothing of Delays.                                 *)
(*                                                                         *)
(* The other results say which delays they cannot bear, and no more:       *)
(*   SocketInv  one daemon listens and keeps its files, unless "start",    *)
(*              "exit" or "cleanup" is allowed                             *)
(*   ShownInv   a live session is tracked and shown, unless one of those,  *)
(*              "launch" or "kill" is                                      *)
(*   FlagInv    a connected session is not flagged, unless "flag" is       *)
(***************************************************************************)
EXTENDS SessionAuthority, TLAPS

\* Only started daemons are launched and watched, and onExit is called for
\* dead ones.
WatchersSound ==
    /\ \A i \in launching : proc[i] # "unborn"
    /\ \A i \in Inst : watch[i] # "off" => proc[i] # "unborn"
    /\ \A i \in Inst : watch[i] = "exit" => proc[i] = "dead"

IInv == TypeOK /\ WatchersSound

USE AuthorityAssumption

\* The initial state satisfies the invariant.
LEMMA InitSound == Init => IInv
<1> SUFFICES ASSUME Init PROVE IInv
  OBVIOUS
<1>1. TypeOK
  <2>1. /\ proc \in [Inst -> ProcState]
        /\ watch \in [Inst -> WatchState]
        /\ link \in [Inst -> Inst \cup {None}]
    BY DEF Init, ProcState, WatchState
  <2>2. resets \in 0 .. MaxResets /\ crashes \in 0 .. MaxCrashes
    BY DEF Init
  <2> QED  BY <2>1, <2>2 DEF Init, TypeOK
<1>2. WatchersSound  BY DEF Init, WatchersSound
<1> QED  BY <1>1, <1>2 DEF IInv

-----------------------------------------------------------------------------
\* The steps of a daemon keep the invariant.
LEMMA DaemonKeeps ==
  ASSUME IInv, NEW i \in Inst,
         DaemonStep(i) \/ StartFails(i) \/ Shutdown(i) \/ Crash(i)
  PROVE  IInv'
<1>1. CASE BindCheck(i)
  BY <1>1 DEF IInv, TypeOK, WatchersSound, BindCheck, Dialable, ProcState, WatchState,
              files, server, history
<1>2. CASE Listen(i)
  BY <1>2 DEF IInv, TypeOK, WatchersSound, Listen, ProcState, WatchState, server, history
<1>3. CASE WriteSidecar(i)
  BY <1>3 DEF IInv, TypeOK, WatchersSound, WriteSidecar, ProcState, WatchState, server, history
<1>4. CASE Exit(i)
  BY <1>4 DEF IInv, TypeOK, WatchersSound, Exit, ProcState, WatchState, server, history
<1>5. CASE StartFails(i)
  BY <1>5 DEF IInv, TypeOK, WatchersSound, StartFails, ProcState, WatchState,
              files, server, history
<1>6. CASE Shutdown(i)
  BY <1>6 DEF IInv, TypeOK, WatchersSound, Shutdown, ProcState, WatchState, server, history
<1>7. CASE Crash(i)
  BY <1>7 DEF IInv, TypeOK, WatchersSound, Crash, Alive, ProcState, WatchState, files, server
<1> QED  BY <1>1, <1>2, <1>3, <1>4, <1>5, <1>6, <1>7 DEF DaemonStep

\* Registry.Create keeps the invariant.
LEMMA CreateKeeps ==
  ASSUME IInv, NEW i \in Inst, CreateBegin(i) \/ CreateStep(i)
  PROVE  IInv'
<1>1. CASE CreateBegin(i)
  BY <1>1 DEF IInv, TypeOK, WatchersSound, CreateBegin, ProcState, WatchState,
              files, server, history
<1>2. CASE CreateReady(i)
  BY <1>2 DEF IInv, TypeOK, WatchersSound, CreateReady, Alive, ProcState, WatchState,
              files, history
<1>3. CASE CreateTimesOut(i)
  BY <1>3 DEF IInv, TypeOK, WatchersSound, CreateTimesOut, ProcState, WatchState,
              files, server, history
<1> QED  BY <1>1, <1>2, <1>3 DEF CreateStep

\* The runtime keeps the invariant.
LEMMA RuntimeKeeps ==
  ASSUME IInv, Boot \/ ServerStops \/ \E i \in Inst : OnLaunched(i)
  PROVE  IInv'
<1>1. ASSUME NEW i \in Inst, OnLaunched(i)  PROVE IInv'
  BY <1>1 DEF IInv, TypeOK, WatchersSound, OnLaunched, Launched, ProcState, WatchState,
              files, history
<1>2. CASE Boot
  <2>1. CASE sock # None /\ sidecar # None /\ Alive(sidecar)
    <3>1. /\ UNCHANGED <<proc, claim, creating, launching, killing, files, history>>
          /\ Launched(sidecar, watch)
      BY <1>2, <2>1 DEF Boot
    <3>2. up' \in BOOLEAN /\ unreachable' \in BOOLEAN
      BY <1>2, <3>1 DEF Boot, Launched
    <3>3. /\ sidecar \in Inst /\ proc[sidecar] # "unborn" /\ tracked' = sidecar /\ shown' = sidecar
          /\ watch' \in [Inst -> WatchState] /\ link' \in [Inst -> Inst \cup {None}]
          /\ \A j \in Inst \ {sidecar} : watch'[j] \in {watch[j], "off"}
          /\ watch'[sidecar] = "dialing"
      BY <2>1, <3>1 DEF IInv, TypeOK, Launched, Alive, WatchState
    <3>4. TypeOK'
      BY <3>1, <3>2, <3>3 DEF IInv, TypeOK, files, history
    <3>5. WatchersSound'
      BY <3>1, <3>3 DEF IInv, WatchersSound
    <3> QED  BY <3>4, <3>5 DEF IInv
  <2>2. CASE ~ (sock # None /\ sidecar # None /\ Alive(sidecar))
    BY <1>2, <2>2 DEF IInv, TypeOK, WatchersSound, Boot, ProcState, WatchState, files, history
  <2> QED  BY <2>1, <2>2
<1>3. CASE ServerStops
  <2>1. watch' \in [Inst -> WatchState] /\ link' \in [Inst -> Inst \cup {None}]
    BY <1>3 DEF ServerStops, WatchState
  <2>2. crashes' \in 0 .. MaxCrashes
    BY <1>3 DEF IInv, TypeOK, ServerStops
  <2>3. TypeOK'
    BY <1>3, <2>1, <2>2 DEF IInv, TypeOK, ServerStops, files
  <2>4. WatchersSound'
    BY <1>3 DEF WatchersSound, ServerStops
  <2> QED  BY <2>3, <2>4 DEF IInv
<1> QED  BY <1>1, <1>2, <1>3

\* The watchers keep the invariant.
LEMMA WatcherKeeps ==
  ASSUME IInv, NEW i \in Inst, WatcherStep(i)
  PROVE  IInv'
<1> USE DEF IInv, TypeOK, WatchersSound, WatchStep, ProcState, WatchState, files
<1>0. /\ Lost(i) \in WatchState
      /\ Lost(i) = "exit" => ~ Alive(i)
  BY DEF Lost
<1>1. CASE DialOK(i)        BY <1>1 DEF DialOK, Dialable
<1>2. CASE DialTimesOut(i)  BY <1>0, <1>2 DEF DialTimesOut, Alive
<1>3. CASE ReadFails(i)     BY <1>0, <1>3 DEF ReadFails, Alive
<1>4. CASE Flag(i)          BY <1>4 DEF Flag
<1>5. CASE Reconnect(i)     BY <1>5 DEF Reconnect, Dialable
<1>6. CASE Unflag(i)        BY <1>6 DEF Unflag
<1>7. CASE RetryFails(i)    BY <1>7 DEF RetryFails, Alive
<1>8. CASE OnExit(i)        BY <1>8 DEF OnExit
<1>9. CASE CleanCheck(i)    BY <1>9 DEF CleanCheck
<1>10. CASE CleanRemove(i)  BY <1>10 DEF CleanRemove
<1> QED  BY <1>1, <1>2, <1>3, <1>4, <1>5, <1>6, <1>7, <1>8, <1>9, <1>10 DEF WatcherStep

\* Service.Kill keeps the invariant.
LEMMA KillKeeps ==
  ASSUME IInv, NEW i \in Inst, KillStart(i) \/ KillFinish(i)
  PROVE  IInv'
<1>1. CASE KillStart(i)
  BY <1>1 DEF IInv, TypeOK, WatchersSound, KillStart, Dialable, ProcState, WatchState, files
<1>2. CASE KillFinish(i)
  BY <1>2 DEF IInv, TypeOK, WatchersSound, KillFinish, ProcState, WatchState, files, history
<1> QED  BY <1>1, <1>2

\* Every step keeps the invariant.
LEMMA NextSound == IInv /\ [Next]_vars => IInv'
<1> SUFFICES ASSUME IInv, [Next]_vars PROVE IInv'
  OBVIOUS
<1>1. CASE Next
  BY <1>1, DaemonKeeps, CreateKeeps, RuntimeKeeps, WatcherKeeps, KillKeeps DEF Next
<1>2. CASE UNCHANGED vars
  BY <1>2 DEF IInv, TypeOK, WatchersSound, vars, files, server, history
<1> QED  BY <1>1, <1>2

\* The invariant holds throughout, whichever delays are allowed.
THEOREM AuthoritySound == Spec => []IInv
  BY InitSound, NextSound, PTL DEF Spec

\* Every variable keeps its type.
THEOREM TypeCorrect == Spec => []TypeOK
<1>1. IInv => TypeOK  BY DEF IInv
<1> QED  BY <1>1, AuthoritySound, PTL

-----------------------------------------------------------------------------
\* A step that takes i out of the tracked map with no successor, while the
\* server goes on, is onExit(i), and i is dead.
LEMMA StepTracked ==
  ASSUME IInv, [Next]_vars, NEW i \in Inst, tracked = i, tracked' # i
  PROVE  ~ Alive(i) \/ ~ up' \/ tracked' # None
<1> USE DEF IInv, TypeOK
<1>1. CASE OnExit(i)
  BY <1>1 DEF OnExit, WatchersSound, Alive
<1>2. ASSUME NEW j \in Inst, OnExit(j)  PROVE j = i
  BY <1>2 DEF OnExit
<1>3. ASSUME NEW j \in Inst, OnLaunched(j)  PROVE tracked' # None
  BY <1>3 DEF OnLaunched, Launched
<1>4. CASE Boot
  BY <1>4 DEF Boot, Launched
<1>5. CASE ServerStops
  BY <1>5 DEF ServerStops
<1>6. ASSUME NEW j \in Inst, DaemonStep(j) \/ StartFails(j) \/ Shutdown(j) \/ Crash(j)
      PROVE  FALSE
  BY <1>6 DEF DaemonStep, BindCheck, Listen, WriteSidecar, Exit, StartFails, Shutdown, Crash,
              server
<1>7. ASSUME NEW j \in Inst, CreateBegin(j) \/ CreateStep(j)  PROVE FALSE
  BY <1>7 DEF CreateBegin, CreateStep, CreateReady, CreateTimesOut, server
<1>8. ASSUME NEW j \in Inst, WatcherStep(j), ~ OnExit(j)  PROVE FALSE
  BY <1>8 DEF WatcherStep, DialOK, DialTimesOut, ReadFails, Flag, Reconnect, Unflag, RetryFails,
              CleanCheck, CleanRemove
<1>9. ASSUME NEW j \in Inst, KillStart(j) \/ KillFinish(j)  PROVE FALSE
  BY <1>9 DEF KillStart, KillFinish
<1>10. CASE UNCHANGED vars
  BY <1>10 DEF vars, server
<1> QED  BY <1>1, <1>2, <1>3, <1>4, <1>5, <1>6, <1>7, <1>8, <1>9, <1>10 DEF Next

\* The tracked map loses an instance only to a successor, to the end of the
\* server, or because the process is dead, whatever Kill, exit callbacks,
\* launches and restarts overtake each other.
THEOREM Sacred == Spec => TrackedSacred
<1>1. IInv /\ [Next]_vars =>
        [\A i \in Inst : tracked = i /\ tracked' # i =>
            ~ Alive(i) \/ ~ up' \/ tracked' # None]_vars
  BY StepTracked
<1> QED  BY <1>1, AuthoritySound, PTL DEF Spec, TrackedSacred

-----------------------------------------------------------------------------
(* One daemon per name. *)

\* A daemon that listens, or that may come to.
Contender(i) == proc[i] \in {"starting", "checked", "bound", "ready"}

\* A daemon that Create has begun and that is not ready.
Pending(i) == proc[i] \in {"starting", "checked", "bound"}

\* The claim covers a daemon until it is ready.
ClaimHolds ==
    /\ creating # None => claim
    /\ \A i \in Inst : Pending(i) => claim /\ creating \in {i, None}
    /\ \A i \in Inst : creating = i => proc[i] # "unborn"

\* What the two files say of the processes.
FilesSound ==
    /\ \A i \in Inst : sidecar = i => proc[i] \in {"ready", "closing", "dead"}
    /\ \A i \in Inst : proc[i] = "bound" => sock = i /\ sidecar = None
    /\ \A i \in Inst : proc[i] = "ready" => sock = i /\ sidecar = i

\* While an old daemon's files are about to be removed, nobody listens.
RemovalsAlone ==
    \A i, j \in Inst :
        proc[i] = "closing" \/ watch[i] = "rm" => proc[j] \notin {"bound", "ready"}

SocketInv ==
    /\ IInv
    /\ \A i \in Inst : watch[i] \in {"clean", "rm"} => proc[i] = "dead"
    /\ \A i, j \in Inst : Contender(i) /\ Contender(j) => i = j
    /\ ClaimHolds
    /\ FilesSound
    /\ RemovalsAlone

\* Nothing overtakes a daemon's start, its exit and the removal of its files.
FilesInOrder == Delays \cap {"start", "exit", "cleanup"} = {}

\* The steps of a daemon keep the socket invariant.
LEMMA DaemonKeepsSocket ==
  ASSUME SocketInv, IInv', FilesInOrder, NEW i \in Inst,
         DaemonStep(i) \/ StartFails(i) \/ Shutdown(i) \/ Crash(i)
  PROVE  SocketInv'
<1> USE DEF SocketInv, IInv, TypeOK, ProcState, Contender, Pending, ClaimHolds, FilesSound,
            RemovalsAlone
<1>1. CASE BindCheck(i)
  BY <1>1 DEF BindCheck, files, server, history
<1>2. CASE Listen(i)
  BY <1>2 DEF Listen, server, history, FilesInOrder
<1>3. CASE WriteSidecar(i)
  BY <1>3 DEF WriteSidecar, server, history
<1>4. CASE Exit(i)
  BY <1>4 DEF Exit, server, history
<1>5. CASE StartFails(i)
  BY <1>5 DEF StartFails, files, server, history
<1>6. CASE Shutdown(i)
  BY <1>6 DEF Shutdown, server, history
<1>7. CASE Crash(i)
  BY <1>7 DEF Crash, Alive, files, server
<1> QED  BY <1>1, <1>2, <1>3, <1>4, <1>5, <1>6, <1>7 DEF DaemonStep

\* A daemon that Create sees ready is.
LEMMA ReadyIsReady ==
  ASSUME SocketInv, NEW i \in Inst, CreateReady(i)
  PROVE  proc[i] = "ready"
<1>1. proc[i] \in {"ready", "closing"}
  BY DEF CreateReady, SocketInv, FilesSound, Alive
<1>2. PICK j \in Inst : proc[j] \in {"bound", "ready"}
  BY DEF CreateReady, Dialable, SocketInv, IInv, TypeOK
<1> QED  BY <1>1, <1>2 DEF SocketInv, RemovalsAlone

\* Registry.Create keeps the socket invariant.
LEMMA CreateKeepsSocket ==
  ASSUME SocketInv, IInv', FilesInOrder, NEW i \in Inst, CreateBegin(i) \/ CreateStep(i)
  PROVE  SocketInv'
<1> USE DEF SocketInv, IInv, TypeOK, ProcState, Contender, Pending, ClaimHolds, FilesSound,
            RemovalsAlone
<1>1. CASE CreateBegin(i)
  BY <1>1 DEF CreateBegin, files, server, history, WatchersSound
<1>2. CASE CreateReady(i)
  BY <1>2, ReadyIsReady DEF CreateReady, files, history
<1>3. CASE CreateTimesOut(i)
  BY <1>3 DEF CreateTimesOut, Alive, files, server, history, FilesInOrder
<1> QED  BY <1>1, <1>2, <1>3 DEF CreateStep

\* The runtime keeps the socket invariant.
LEMMA RuntimeKeepsSocket ==
  ASSUME SocketInv, IInv', FilesInOrder, Boot \/ ServerStops \/ \E i \in Inst : OnLaunched(i)
  PROVE  SocketInv'
<1> USE DEF SocketInv, IInv, TypeOK, ProcState, Contender, Pending, ClaimHolds, FilesSound,
            RemovalsAlone
<1>1. ASSUME NEW i \in Inst, OnLaunched(i)  PROVE SocketInv'
  BY <1>1 DEF OnLaunched, Launched, files, history
<1>2. CASE Boot
  <2>1. CASE sock # None /\ sidecar # None /\ Alive(sidecar)
    BY <1>2, <2>1 DEF Boot, Launched, files, history
  <2>2. CASE ~ (sock # None /\ sidecar # None /\ Alive(sidecar))
    BY <1>2, <2>2 DEF Boot, Alive, files, history
  <2> QED  BY <2>1, <2>2
<1>3. CASE ServerStops
  BY <1>3 DEF ServerStops, files
<1> QED  BY <1>1, <1>2, <1>3

\* The watchers keep the socket invariant.
LEMMA WatcherKeepsSocket ==
  ASSUME SocketInv, IInv', NEW i \in Inst, WatcherStep(i)
  PROVE  SocketInv'
<1> USE DEF SocketInv, IInv, TypeOK, ProcState, Contender, Pending, ClaimHolds, FilesSound,
            RemovalsAlone, WatchStep, files
<1>0. Lost(i) \notin {"clean", "rm"}
  BY DEF Lost
<1>1. CASE DialOK(i)        BY <1>1 DEF DialOK
<1>2. CASE DialTimesOut(i)  BY <1>0, <1>2 DEF DialTimesOut
<1>3. CASE ReadFails(i)     BY <1>0, <1>3 DEF ReadFails
<1>4. CASE Flag(i)          BY <1>4 DEF Flag
<1>5. CASE Reconnect(i)     BY <1>5 DEF Reconnect
<1>6. CASE Unflag(i)        BY <1>6 DEF Unflag
<1>7. CASE RetryFails(i)    BY <1>7 DEF RetryFails
<1>8. CASE OnExit(i)        BY <1>8 DEF OnExit, WatchersSound
<1>9. CASE CleanCheck(i)    BY <1>9 DEF CleanCheck
<1>10. CASE CleanRemove(i)  BY <1>10 DEF CleanRemove
<1> QED  BY <1>1, <1>2, <1>3, <1>4, <1>5, <1>6, <1>7, <1>8, <1>9, <1>10 DEF WatcherStep

\* Service.Kill keeps the socket invariant.
LEMMA KillKeepsSocket ==
  ASSUME SocketInv, IInv', NEW i \in Inst, KillStart(i) \/ KillFinish(i)
  PROVE  SocketInv'
<1> USE DEF SocketInv, Contender, Pending, ClaimHolds, FilesSound, RemovalsAlone
<1>1. CASE KillStart(i)
  BY <1>1 DEF KillStart, files
<1>2. CASE KillFinish(i)
  BY <1>2 DEF KillFinish, files, history
<1> QED  BY <1>1, <1>2

\* Every step keeps the socket invariant.
LEMMA NextSocket == FilesInOrder => (SocketInv /\ [Next]_vars => SocketInv')
<1> SUFFICES ASSUME FilesInOrder, SocketInv, [Next]_vars PROVE SocketInv'
  OBVIOUS
<1>0. IInv'  BY NextSound DEF SocketInv
<1>1. CASE Next
  BY <1>0, <1>1, DaemonKeepsSocket, CreateKeepsSocket, RuntimeKeepsSocket, WatcherKeepsSocket,
     KillKeepsSocket DEF Next
<1>2. CASE UNCHANGED vars
  BY <1>0, <1>2 DEF SocketInv, Contender, Pending, ClaimHolds, FilesSound, RemovalsAlone,
                    vars, files, server, history
<1> QED  BY <1>1, <1>2

\* The socket invariant holds throughout, unless a daemon may bind while
\* another one starts, exits or has its files removed.
THEOREM SocketSound == FilesInOrder => (Spec => []SocketInv)
<1> SUFFICES ASSUME FilesInOrder PROVE Spec => []SocketInv
  OBVIOUS
<1>1. Init => SocketInv
  BY InitSound DEF Init, SocketInv, Contender, Pending, ClaimHolds, FilesSound, RemovalsAlone,
                   IInv, TypeOK
<1>2. SocketInv /\ [Next]_vars => SocketInv'
  BY NextSocket
<1> QED  BY <1>1, <1>2, PTL DEF Spec

\* At most one daemon listens under the name, however launches, kills, exit
\* callbacks and restarts interleave.
THEOREM OneListens == FilesInOrder => (Spec => []OneDaemon)
<1>1. SocketInv => OneDaemon  BY DEF SocketInv, OneDaemon, Contender
<1> QED  BY <1>1, SocketSound, PTL

\* No cleanup of an old daemon takes a serving daemon's socket or sidecar.
THEOREM FilesStay == FilesInOrder => (Spec => []FilesKept)
<1>1. SocketInv => FilesKept  BY DEF SocketInv, FilesSound, FilesKept
<1> QED  BY <1>1, SocketSound, PTL

-----------------------------------------------------------------------------
(* Live sessions are shown. *)

\* A stopped server knows nothing and does nothing.
StoppedForgets ==
    ~ up => launching = {} /\ killing = {} /\ \A i \in Inst : watch[i] = "off"

\* A Kill in progress is for the session that is shown, if one is.
KillsShown == \A i \in killing : i \in asked /\ shown \in {i, None}

ShownInv ==
    /\ SocketInv
    /\ StoppedForgets
    /\ KillsShown
    /\ \A i \in Inst : up /\ Pending(i) => creating = i
    /\ \A i \in launching : \A j \in Inst : Contender(j) => j = i
    /\ LiveShown

\* Nothing overtakes a daemon's life or a Create; a flag may.
LaunchesInOrder == Delays \subseteq {"flag"}

\* The steps of a daemon keep ShownInv.
LEMMA DaemonKeepsShown ==
  ASSUME ShownInv, SocketInv', NEW i \in Inst,
         DaemonStep(i) \/ StartFails(i) \/ Shutdown(i) \/ Crash(i)
  PROVE  ShownInv'
<1>1. /\ UNCHANGED <<creating, server, asked>>
      /\ \A j \in Inst : Contender(j)' => Contender(j)
      /\ \A j \in Inst : Pending(j)' => Pending(j)
      /\ \A j \in Inst : proc'[j] = "ready" => proc[j] = "ready" \/ Pending(j)
  BY DEF DaemonStep, BindCheck, Listen, WriteSidecar, Exit, StartFails, Shutdown, Crash, history,
         Contender, Pending, SocketInv, IInv, TypeOK, ShownInv
<1> QED  BY <1>1 DEF ShownInv, StoppedForgets, KillsShown, LiveShown, server

\* Registry.Create keeps ShownInv.
LEMMA CreateKeepsShown ==
  ASSUME ShownInv, SocketInv', LaunchesInOrder, NEW i \in Inst, CreateBegin(i) \/ CreateStep(i)
  PROVE  ShownInv'
<1> USE DEF ShownInv, StoppedForgets, KillsShown, LiveShown
<1>1. CASE CreateBegin(i)
  BY <1>1 DEF CreateBegin, files, server, history, LaunchesInOrder, Pending, Contender,
              SocketInv, IInv, TypeOK, ClaimHolds
<1>2. CASE CreateReady(i)
  BY <1>2, ReadyIsReady DEF CreateReady, files, history, Pending, Contender, SocketInv
<1>3. CASE CreateTimesOut(i)
  BY <1>3 DEF CreateTimesOut, Alive, files, server, history, LaunchesInOrder, Pending, Contender
<1> QED  BY <1>1, <1>2, <1>3 DEF CreateStep

\* The runtime keeps ShownInv.
LEMMA RuntimeKeepsShown ==
  ASSUME ShownInv, SocketInv', LaunchesInOrder,
         Boot \/ ServerStops \/ \E i \in Inst : OnLaunched(i)
  PROVE  ShownInv'
<1> USE DEF ShownInv, StoppedForgets, KillsShown, LiveShown
<1>1. ASSUME NEW i \in Inst, OnLaunched(i)  PROVE ShownInv'
  <2>1. \A j \in Inst : proc[j] = "ready" => j = i
    BY <1>1 DEF OnLaunched, Contender
  <2> QED  BY <1>1, <2>1 DEF OnLaunched, Launched, files, history, Pending, Contender,
                             LaunchesInOrder
<1>2. CASE Boot
  <2>1. CASE sock # None /\ sidecar # None /\ Alive(sidecar)
    <3>1. \A j \in Inst : proc[j] = "ready" => j = sidecar
      BY DEF SocketInv, FilesSound
    <3> QED  BY <1>2, <2>1, <3>1 DEF Boot, Launched, files, history, Pending, Contender,
                                     LaunchesInOrder, Starting
  <2>2. CASE ~ (sock # None /\ sidecar # None /\ Alive(sidecar))
    <3>1. \A j \in Inst : proc[j] # "ready"
      BY <2>2 DEF SocketInv, FilesSound, Alive
    <3> QED  BY <1>2, <2>2, <3>1 DEF Boot, files, history, Pending, Contender,
                                     LaunchesInOrder, Starting
  <2> QED  BY <2>1, <2>2
<1>3. CASE ServerStops
  BY <1>3 DEF ServerStops, files, Pending, Contender
<1> QED  BY <1>1, <1>2, <1>3

\* The watchers keep ShownInv.
LEMMA WatcherKeepsShown ==
  ASSUME ShownInv, SocketInv', NEW i \in Inst, WatcherStep(i)
  PROVE  ShownInv'
<1>0. watch[i] # "off" /\ (watch[i] = "exit" => proc[i] = "dead")
  BY DEF WatcherStep, DialOK, DialTimesOut, ReadFails, Flag, Reconnect, Unflag, RetryFails,
         OnExit, CleanCheck, CleanRemove, ShownInv, SocketInv, IInv, WatchersSound
<1>1. /\ UNCHANGED <<proc, creating, up, launching, killing, asked>>
      /\ up
  BY <1>0 DEF WatcherStep, DialOK, DialTimesOut, ReadFails, Flag, Reconnect, Unflag, RetryFails,
         OnExit, CleanCheck, CleanRemove, WatchStep, ShownInv, StoppedForgets
<1>2. CASE OnExit(i)
  BY <1>0, <1>1, <1>2 DEF OnExit, ShownInv, StoppedForgets, KillsShown, LiveShown, Pending,
                          Contender
<1>3. CASE ~ OnExit(i)
  <2>1. UNCHANGED <<tracked, shown>>
    BY <1>3 DEF WatcherStep, DialOK, DialTimesOut, ReadFails, Flag, Reconnect, Unflag, RetryFails,
                CleanCheck, CleanRemove
  <2> QED  BY <1>1, <2>1 DEF ShownInv, StoppedForgets, KillsShown, LiveShown, Pending, Contender
<1> QED  BY <1>2, <1>3

\* Service.Kill keeps ShownInv.
LEMMA KillKeepsShown ==
  ASSUME ShownInv, SocketInv', NEW i \in Inst, KillStart(i) \/ KillFinish(i)
  PROVE  ShownInv'
<1> USE DEF ShownInv, StoppedForgets, KillsShown, LiveShown, Pending, Contender
<1>1. CASE KillStart(i)
  BY <1>1 DEF KillStart, files
<1>2. CASE KillFinish(i)
  BY <1>2 DEF KillFinish, files, history, SocketInv, IInv, TypeOK
<1> QED  BY <1>1, <1>2

\* Every step keeps ShownInv.
LEMMA NextShown == LaunchesInOrder => (ShownInv /\ [Next]_vars => ShownInv')
<1> SUFFICES ASSUME LaunchesInOrder, ShownInv, [Next]_vars PROVE ShownInv'
  OBVIOUS
<1>0. SocketInv'  BY NextSocket DEF ShownInv, LaunchesInOrder, FilesInOrder
<1>1. CASE Next
  BY <1>0, <1>1, DaemonKeepsShown, CreateKeepsShown, RuntimeKeepsShown, WatcherKeepsShown,
     KillKeepsShown DEF Next
<1>2. CASE UNCHANGED vars
  BY <1>0, <1>2 DEF ShownInv, StoppedForgets, KillsShown, LiveShown, Pending, Contender,
                    vars, files, server, history
<1> QED  BY <1>1, <1>2

\* While the server runs, a serving daemon that no user asked to kill is
\* tracked and shown, whatever the watchers' connections do, if no Create, Kill
\* or cleanup is overtaken.
THEOREM LiveIsShown == LaunchesInOrder => (Spec => []LiveShown)
<1> SUFFICES ASSUME LaunchesInOrder PROVE Spec => []LiveShown
  OBVIOUS
<1>1. Init => ShownInv
  <2>1. Init => SocketInv
    BY InitSound DEF Init, SocketInv, Contender, Pending, ClaimHolds, FilesSound, RemovalsAlone,
                     IInv, TypeOK
  <2> QED  BY <2>1 DEF Init, ShownInv, StoppedForgets, KillsShown, LiveShown, Pending, Contender
<1>2. ShownInv /\ [Next]_vars => ShownInv'
  BY NextShown
<1>3. ShownInv => LiveShown
  BY DEF ShownInv
<1> QED  BY <1>1, <1>2, <1>3, PTL DEF Spec

-----------------------------------------------------------------------------
(* A connected session is not marked unreachable. *)

\* A flag is set or cleared for the tracked session only, and a watcher that
\* dials for the first time, or is connected, finds it clear.
FlagInv ==
    /\ IInv
    /\ ~ up => \A i \in Inst : watch[i] = "off"
    /\ launching # {} => up
    /\ \A i \in Inst : watch[i] \in {"flag", "unflag"} => tracked = i
    /\ \A i \in Inst : tracked = i /\ shown = i /\ watch[i] \in {"dialing", "watching"} =>
          ~ unreachable

\* Every step keeps FlagInv.
LEMMA NextFlag == "flag" \notin Delays => (FlagInv /\ [Next]_vars => FlagInv')
<1> SUFFICES ASSUME "flag" \notin Delays, FlagInv, [Next]_vars PROVE FlagInv'
  OBVIOUS
<1>0. IInv'  BY NextSound DEF FlagInv
<1> USE DEF FlagInv, IInv, TypeOK
<1>1. ASSUME NEW i \in Inst, OnLaunched(i)  PROVE FlagInv'
  BY <1>0, <1>1 DEF OnLaunched, Launched
<1>2. CASE Boot
  BY <1>0, <1>2 DEF Boot, Launched
<1>3. CASE ServerStops
  BY <1>0, <1>3 DEF ServerStops
<1>4. ASSUME NEW i \in Inst, DaemonStep(i) \/ StartFails(i) \/ Shutdown(i) \/ Crash(i)
      PROVE  FlagInv'
  BY <1>0, <1>4 DEF DaemonStep, BindCheck, Listen, WriteSidecar, Exit, StartFails, Shutdown, Crash,
                    server
<1>5. ASSUME NEW i \in Inst, CreateBegin(i) \/ CreateStep(i)  PROVE FlagInv'
  BY <1>0, <1>5 DEF CreateBegin, CreateStep, CreateReady, CreateTimesOut, server
<1>6. ASSUME NEW i \in Inst, KillStart(i) \/ KillFinish(i)  PROVE FlagInv'
  BY <1>0, <1>6 DEF KillStart, KillFinish
<1>7. ASSUME NEW i \in Inst, WatcherStep(i)  PROVE FlagInv'
  <2> USE DEF WatchStep
  <2>0. /\ Lost(i) \notin {"dialing", "watching", "unflag"}
        /\ Lost(i) = "flag" => tracked = i
    BY DEF Lost
  <2>1. CASE DialOK(i)        BY <1>0, <2>1 DEF DialOK
  <2>2. CASE DialTimesOut(i)  BY <1>0, <2>0, <2>2 DEF DialTimesOut
  <2>3. CASE ReadFails(i)     BY <1>0, <2>0, <2>3 DEF ReadFails
  <2>4. CASE Flag(i)          BY <1>0, <2>4 DEF Flag
  <2>5. CASE Reconnect(i)     BY <1>0, <2>5 DEF Reconnect
  <2>6. CASE Unflag(i)        BY <1>0, <2>6 DEF Unflag
  <2>7. CASE RetryFails(i)    BY <1>0, <2>7 DEF RetryFails
  <2>8. CASE OnExit(i)        BY <1>0, <2>8 DEF OnExit
  <2>9. CASE CleanCheck(i)    BY <1>0, <2>9 DEF CleanCheck
  <2>10. CASE CleanRemove(i)  BY <1>0, <2>10 DEF CleanRemove
  <2> QED  BY <1>7, <2>1, <2>2, <2>3, <2>4, <2>5, <2>6, <2>7, <2>8, <2>9, <2>10 DEF WatcherStep
<1>8. CASE UNCHANGED vars
  BY <1>0, <1>8 DEF vars, server
<1> QED  BY <1>1, <1>2, <1>3, <1>4, <1>5, <1>6, <1>7, <1>8 DEF Next

\* A session whose watcher is connected is not marked unreachable, whatever
\* else is delayed, if no launch comes between the two halves of onUnreachable.
THEOREM FlagsHonest == "flag" \notin Delays => (Spec => []UnreachableHonest)
<1> SUFFICES ASSUME "flag" \notin Delays PROVE Spec => []UnreachableHonest
  OBVIOUS
<1>1. Init => FlagInv
  BY InitSound DEF Init, FlagInv
<1>2. FlagInv /\ [Next]_vars => FlagInv'
  BY NextFlag
<1>3. FlagInv => UnreachableHonest
  BY DEF FlagInv, UnreachableHonest
<1> QED  BY <1>1, <1>2, <1>3, PTL DEF Spec
=============================================================================
