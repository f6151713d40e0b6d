----------------------------- MODULE WriterLock -----------------------------
(***************************************************************************)
(* The writer lock of the UserPersisto store                               *)
(* (userPersistoAgent/lib/durable-storage.mjs): a process that opens the   *)
(* persistence folder creates .userpersisto.writer.json exclusively and    *)
(* writes its pid, host, token and Ploinky identity into it.  If the file  *)
(* is there, it may remove it once, when it proves that the owner is gone, *)
(* and try again.                                                          *)
(*                                                                         *)
(* Every step is one file-system call: the calls are awaited, so processes *)
(* interleave between any two.  A process opens the store once (storePromise *)
(* is kept, also when it failed), so a process stands for its token.       *)
(***************************************************************************)
EXTENDS Naturals, FiniteSets

CONSTANTS
    Procs,        \* process incarnations
    Host,         \* the container each runs in
    Pid,          \* its pid there; a dead process's pid may be used again
    Generation,   \* the instance and enable generation Ploinky gave it, or None
    Overlapping,  \* whether two processes may be opening the store at a time
    MaxFaults,    \* bound on crashes and failed file-system calls, together
    None

ASSUME OverlappingAssumption == Overlapping \in BOOLEAN
ASSUME FaultsAssumption == MaxFaults \in Nat
ASSUME NoneAssumption == None \notin Procs /\ None \notin [owner : Procs, full : BOOLEAN]

VARIABLES
    file,     \* the lock file: None, or its creator and whether it was written
    pc,       \* where each process is
    seen,     \* the owner each process captured
    faults

vars == <<file, pc, seen, faults>>

Opening == {"open", "capture", "recapture", "unlink", "reopen", "writing"}
Places == Opening \cup {"idle", "writer", "releasing", "closed", "refused", "dead"}

\* Every variable keeps its type.
TypeOK ==
    /\ file \in [owner : Procs, full : BOOLEAN] \cup {None}
    /\ pc \in [Procs -> Places]
    /\ seen \in [Procs -> Procs \cup {None}]
    /\ faults \in 0..MaxFaults

Init ==
    /\ file = None
    /\ pc = [p \in Procs |-> "idle"]
    /\ seen = [p \in Procs |-> None]
    /\ faults = 0

Running(p) == pc[p] \notin {"idle", "dead"}

Goto(p, place) == pc' = [pc EXCEPT ![p] = place]

Fault == faults < MaxFaults /\ faults' = faults + 1

\* A wrong isProvenPredecessor: any failure of the probe, EPERM included, proves a death.
PredecessorOnProbeError(o, p) ==
    IF Host[o] = Host[p] THEN TRUE
    ELSE Generation[p] # None /\ Generation[o] # Generation[p]

\* isProvenPredecessor: on this host by its pid, elsewhere by a different or missing identity.
Predecessor(o, p) ==
    IF Host[o] = Host[p]
    THEN Pid[o] = Pid[p] \/ \A q \in Procs : Host[q] = Host[o] /\ Pid[q] = Pid[o] => ~Running(q)
    ELSE Generation[p] # None /\ Generation[o] # Generation[p]

(***************************************************************************)
(* Processes start; Ploinky starts a container of another generation when  *)
(* the previous one is gone, and the system gives no pid twice at a time.  *)
(***************************************************************************)
Begin(p) ==
    /\ pc[p] = "idle"
    /\ \A q \in Procs : Running(q) =>
          IF Host[q] = Host[p] THEN Pid[q] # Pid[p]
          ELSE Generation[q] # None /\ Generation[q] = Generation[p]
    /\ Overlapping \/ \A q \in Procs : pc[q] \notin Opening
    /\ Goto(p, "open")
    /\ UNCHANGED <<file, seen, faults>>

\* A wrong Open: the file is opened without the exclusive flag.
OpenNotExclusive(p) ==
    /\ pc[p] \in {"open", "reopen"}
    /\ file' = [owner |-> p, full |-> FALSE] /\ Goto(p, "writing")
    /\ UNCHANGED <<seen, faults>>

\* open(lockPath, 'wx'): EEXIST leads to a recovery the first time, to a refusal the second.
Open(p) ==
    /\ pc[p] \in {"open", "reopen"}
    /\ \/ /\ file = None
          /\ file' = [owner |-> p, full |-> FALSE] /\ Goto(p, "writing")
       \/ /\ file # None
          /\ Goto(p, IF pc[p] = "open" THEN "capture" ELSE "refused")
          /\ UNCHANGED file
    /\ UNCHANGED <<seen, faults>>

\* A wrong Parsed: the record of a file nobody finished counts too.
ParsedAnyway(f) == f.owner \in Procs

\* parseOwner: only a whole record names an owner.
Parsed(f) == f.full

\* The first captureOwner: a malformed file, or an owner not proven dead, refuses the process.
Capture(p) ==
    /\ pc[p] = "capture"
    /\ IF file = None THEN Goto(p, "reopen") /\ UNCHANGED seen
       ELSE IF Parsed(file) /\ Predecessor(file.owner, p)
       THEN Goto(p, "recapture") /\ seen' = [seen EXCEPT ![p] = file.owner]
       ELSE Goto(p, "refused") /\ UNCHANGED seen
    /\ UNCHANGED <<file, faults>>

\* The second captureOwner: the file must be the one captured before.
Recapture(p) ==
    /\ pc[p] = "recapture"
    /\ Goto(p, IF file = None THEN "reopen"
               ELSE IF Parsed(file) /\ file.owner = seen[p] THEN "unlink" ELSE "refused")
    /\ UNCHANGED <<file, seen, faults>>

\* A wrong Unlink: the recovery is the last attempt.
UnlinkIsLast(p) ==
    /\ pc[p] = "unlink"
    /\ file' = None /\ Goto(p, "refused")
    /\ UNCHANGED <<seen, faults>>

\* unlink(lockPath): whatever file has the name now.
Unlink(p) ==
    /\ pc[p] = "unlink"
    /\ file' = None /\ Goto(p, "reopen")
    /\ UNCHANGED <<seen, faults>>

\* Any of the calls fails otherwise.
CallFails(p) ==
    /\ pc[p] \in Opening \ {"writing"} /\ Fault
    /\ Goto(p, "refused")
    /\ UNCHANGED <<file, seen>>

(***************************************************************************)
(* The owner.                                                              *)
(***************************************************************************)
Mine(p) == file # None /\ file.owner = p

\* writeFile and sync, through the handle of the file this process created.
Write(p) ==
    /\ pc[p] = "writing"
    /\ file' = IF Mine(p) THEN [file EXCEPT !.full = TRUE] ELSE file
    /\ Goto(p, "writer")
    /\ UNCHANGED <<seen, faults>>

\* They fail: the release finds either the whole record and removes it, or a part and leaves it
\* (or leaves the whole one, when it fails too).
WriteFails(p) ==
    /\ pc[p] = "writing" /\ Fault
    /\ file' \in {file} \cup (IF Mine(p) THEN {None, [file EXCEPT !.full = TRUE]} ELSE {})
    /\ Goto(p, "refused")
    /\ UNCHANGED seen

\* release, on shutdown and at exit: the record is read, compared, and removed if it is its own.
Release(p) ==
    /\ pc[p] = "writer"
    /\ Goto(p, IF Mine(p) /\ file.full THEN "releasing" ELSE "closed")
    /\ UNCHANGED <<file, seen, faults>>

\* Its failure is swallowed, and leaves the file.
ReleaseUnlinks(p) ==
    /\ pc[p] = "releasing"
    /\ Goto(p, "closed")
    /\ \/ file' = None /\ UNCHANGED faults
       \/ UNCHANGED file /\ Fault
    /\ UNCHANGED seen

Exit(p) ==
    /\ pc[p] \in {"closed", "refused"}
    /\ Goto(p, "dead")
    /\ UNCHANGED <<file, seen, faults>>

Crash(p) ==
    /\ Running(p) /\ Fault
    /\ Goto(p, "dead")
    /\ UNCHANGED <<file, seen>>

OpenStep(p) == Open(p) \/ Capture(p) \/ Recapture(p) \/ Unlink(p) \/ Write(p)

Next ==
    \E p \in Procs :
        Begin(p) \/ OpenStep(p) \/ CallFails(p) \/ WriteFails(p)
        \/ Release(p) \/ ReleaseUnlinks(p) \/ Exit(p) \/ Crash(p)

Spec == Init /\ [][Next]_vars

\* A process that opens the store goes on.
FairSpec == Spec /\ \A p \in Procs : WF_vars(OpenStep(p))

(***************************************************************************)
(* Properties.                                                             *)
(***************************************************************************)
\* The store has one writer at a time (DS012: "An exclusive .userpersisto.writer.json lock
\* refuses a live or ambiguous second writer").
OneWriter ==
    \A p, q \in Procs : pc[p] = "writer" /\ pc[q] = "writer" => p = q

\* The lock of a process that runs is removed by its own release only
\* (durable-storage.mjs:80-153).
LiveLockStays ==
    [][\A p \in Procs : Mine(p) /\ file.full /\ Running(p) /\ file' # file =>
          pc[p] \in {"writing", "releasing"}]_vars

\* A file its creator did not finish is never taken away: it may be anybody's
\* (DS012: "A malformed lock ... remains fail-closed").
MalformedStays ==
    [][file # None /\ ~file.full /\ pc[file.owner] # "writing" => file' = file]_vars

\* A process alone before the complete record of a dead predecessor becomes the writer, unless
\* something fails again.
PredecessorReplaced ==
    \A p \in Procs :
        (/\ pc[p] = "open" /\ faults = MaxFaults
         /\ \A q \in Procs \ {p} : ~Running(q)
         /\ file # None /\ file.full /\ Predecessor(file.owner, p))
          ~> pc[p] = "writer" \/ \E q \in Procs \ {p} : Running(q)
=============================================================================
