----------------------------- MODULE SandboxPool ----------------------------
(***************************************************************************)
(* The sandbox of one chat and one file in it: internal/sandbox/           *)
(* lifecycle.go over a pool of Docker containers or of remote sandboxes    *)
(* (docker_executor.go, e2b_executor.go, boxlite_executor.go).             *)
(*                                                                         *)
(* The file may live in three places.  The workspace store is what the     *)
(* user and the file tools see.  A Docker container mounts a directory of  *)
(* the host, which is the store itself when the store is local and a       *)
(* second copy when it is S3.  A remote sandbox has a disk of its own,     *)
(* filled from the store when it is made and copied back after each exec.  *)
(* Between calls the sandbox is evicted once it has been idle; nothing     *)
(* counts the calls that still run in it.                                  *)
(*                                                                         *)
(* A content is the number of the write that made it, and its size: the    *)
(* copy back to the store skips a file whose size has not changed.         *)
(***************************************************************************)
EXTENDS Integers, FiniteSets

CONSTANTS
    Backings,      \* deployments: "mounted" (Docker and a local store),
                   \* "docker" (Docker and S3), "remote" (E2B, Boxlite)
    Callers,       \* tool calls at a time
    Sizes,         \* of contents
    MaxWrites,     \* bound on the writes
    MaxBoxes,      \* bound on the executors made
    MaxMishaps     \* bound on what is not a call or an eviction

ASSUME SandboxAssumption ==
    /\ Backings \subseteq {"mounted", "docker", "remote"}
    /\ Sizes \subseteq Nat \ {0}
    /\ {MaxWrites, MaxBoxes, MaxMishaps} \subseteq Nat

Boxes    == 1..MaxBoxes
Absent   == [write |-> 0, size |-> 0]
Contents == [write : 1..MaxWrites, size : Sizes] \cup {Absent}

VARIABLES
    backing,     \* the deployment
    stored,      \* the file in workspace.Store
    onHost,      \* in the mounted directory ("docker")
    inBox,       \* in each remote sandbox
    boxes,       \* executors made
    live,        \* those whose sandbox exists
    pooled,      \* the executor in the inner pool, or 0
    tracked,     \* the chat has an entry in lastUsed
    hydrated,    \* ... and in hydrated
    calls,       \* the calls
    evictor,     \* evictIdle, or an explicit Release
    newest,      \* what was written last
    setbacks,    \* bounded by MaxMishaps
    harm         \* what the file may not survive

sandboxVars == <<backing, stored, onHost, inBox, boxes, live, pooled, tracked,
                 hydrated, calls, evictor, newest, setbacks, harm>>

\* Harms tell the property when to hold; no action reads them.
\*   aside      a file tool wrote the store beside a copy that was in use
\*   sameSize   a copy back skipped a content of the size of the stored one
\*   inUse      an eviction, an expiry or a restart overlapped a call
\*   raced      a call wrote while another hydrated or carried a snapshot, or
\*              one that could not hydrate took the flag back beside another,
\*              or two calls made the same expired sandbox again
\*   failed     a copy to the store failed
\*   unflushed  a directory was left that the store does not have
Harms == {"aside", "sameSize", "inUse", "raced", "failed", "unflushed"}

Resting   == [at |-> "idle", box |-> 0, fresh |-> FALSE, file |-> Absent]
NoSweep  == [at |-> "idle", file |-> Absent]

SandboxType ==
    /\ backing \in Backings
    /\ {stored, onHost, newest} \subseteq Contents
    /\ inBox \in [Boxes -> Contents]
    /\ boxes \in 0..MaxBoxes /\ live \subseteq 1..boxes /\ pooled \in 0..boxes
    /\ tracked \in BOOLEAN /\ hydrated \in BOOLEAN
    /\ calls \in [Callers -> [at : {"idle", "entering", "hydrating", "copying", "ready",
                                    "gone", "retried", "snapping", "syncing", "mirroring"},
                              box : 0..boxes, fresh : BOOLEAN, file : Contents]]
    /\ evictor \in [at : {"idle", "flushing", "putting", "releasing"}, file : Contents]
    /\ setbacks \in 0..MaxMishaps
    /\ harm \subseteq Harms

SandboxInit ==
    /\ backing \in Backings
    /\ stored = Absent /\ onHost = Absent /\ newest = Absent
    /\ inBox = [b \in Boxes |-> Absent]
    /\ boxes = 0 /\ live = {} /\ pooled = 0
    /\ tracked = FALSE /\ hydrated = FALSE
    /\ calls = [c \in Callers |-> Resting]
    /\ evictor = NoSweep
    /\ setbacks = 0
    /\ harm = {}

Busy(S)  == \E c \in S : calls[c].at # "idle"
InUse    == IF Busy(Callers) THEN {"inUse"} ELSE {}
Copies   == <<stored, onHost, inBox>>
PoolSame == UNCHANGED <<boxes, live, pooled>>
MapsSame == UNCHANGED <<tracked, hydrated>>
Setback  == setbacks < MaxMishaps /\ setbacks' = setbacks + 1

CallGoes(c, new) == calls' = [calls EXCEPT ![c] = new]

\* What an executor reads and writes.
Sees(b) == CASE backing = "mounted" -> stored
             [] backing = "docker"  -> onHost
             [] backing = "remote"  -> inBox[b]

WriteInto(b, new) ==
    /\ stored' = IF backing = "mounted" THEN new ELSE stored
    /\ onHost' = IF backing = "docker" THEN new ELSE onHost
    /\ inBox'  = IF backing = "remote" THEN [inBox EXCEPT ![b] = new] ELSE inBox

\* The inner pool's Get: the pooled executor, or a new one.  A remote sandbox
\* is filled from the store before it is pooled.  (mutant: it is not filled)
PoolGetBare(b) ==
    \/ b = pooled /\ pooled # 0 /\ PoolSame /\ UNCHANGED inBox
    \/ /\ pooled = 0 /\ b = boxes + 1 /\ b \in Boxes
       /\ boxes' = b /\ pooled' = b /\ live' = live \cup {b}
       /\ UNCHANGED inBox
PoolGet(b) ==
    \/ b = pooled /\ pooled # 0 /\ PoolSame /\ UNCHANGED inBox
    \/ /\ pooled = 0 /\ b = boxes + 1 /\ b \in Boxes
       /\ boxes' = b /\ pooled' = b /\ live' = live \cup {b}
       /\ inBox' = IF backing = "remote" THEN [inBox EXCEPT ![b] = stored] ELSE inBox

\* syncSnapshot for one file: a file the store has in that size is skipped.
CopyBack(file) ==
    LET skip == file = Absent \/ file.size = stored.size
    IN /\ stored' = IF skip THEN stored ELSE file
       /\ harm' = IF file # Absent /\ skip /\ file # stored
                  THEN harm \cup {"sameSize"} ELSE harm
       /\ UNCHANGED setbacks

CopyFails ==
    /\ Setback
    /\ harm' = harm \cup {"failed"}
    /\ UNCHANGED stored
-----------------------------------------------------------------------------
\* getInner, under its lock: the chat counts as hydrated before it is.
CallEnters(c) ==
    /\ calls[c] = Resting
    /\ CallGoes(c, [Resting EXCEPT !.at = "entering", !.fresh = ~hydrated])
    /\ tracked' = TRUE /\ hydrated' = TRUE
    /\ harm' = IF evictor.at # "idle" THEN harm \cup {"inUse"} ELSE harm
    /\ PoolSame
    /\ UNCHANGED <<backing, Copies, evictor, newest, setbacks>>

\* ... and without it: the executor, or an error that takes the flag back.
CallGetsBox(c) ==
    /\ calls[c].at = "entering"
    /\ \E b \in Boxes :
          /\ PoolGet(b)
          /\ CallGoes(c, [calls[c] EXCEPT !.box = b,
                 !.at = IF calls[c].fresh /\ backing # "remote" /\ stored # Absent
                        THEN "hydrating" ELSE "ready"])
    /\ MapsSame
    /\ UNCHANGED <<backing, stored, onHost, evictor, newest, setbacks, harm>>

CallGetsNone(c) ==
    /\ calls[c].at = "entering" /\ pooled = 0
    /\ Setback
    /\ hydrated' = FALSE
    /\ CallGoes(c, Resting)
    /\ harm' = IF Busy(Callers \ {c}) THEN harm \cup {"raced"} ELSE harm
    /\ PoolSame
    /\ UNCHANGED <<backing, Copies, tracked, evictor, newest>>

\* hydrateWorkspace: the stored file is read,
HydrateReads(c) ==
    /\ calls[c].at = "hydrating"
    /\ CallGoes(c, [calls[c] EXCEPT !.at = "copying", !.file = stored])
    /\ PoolSame /\ MapsSame
    /\ UNCHANGED <<backing, Copies, evictor, newest, setbacks, harm>>

\* and written through the container, if that still runs.
HydrateWrites(c) ==
    /\ calls[c].at = "copying"
    /\ IF calls[c].box \in live THEN WriteInto(calls[c].box, calls[c].file)
                                ELSE UNCHANGED Copies
    /\ CallGoes(c, [calls[c] EXCEPT !.at = "ready", !.file = Absent])
    /\ PoolSame /\ MapsSame
    /\ UNCHANGED <<backing, evictor, newest, setbacks, harm>>

Raced(c) == IF \E d \in Callers \ {c} :
                  \/ calls[d].at \in {"hydrating", "copying", "syncing", "mirroring"}
                  \/ calls[d].at = "entering" /\ calls[d].fresh
            THEN {"raced"} ELSE {}

\* The executor runs a command, or a write of the file: a remote sandbox is
\* then copied back, respectively the one file mirrored.
CallWrites(c) ==
    /\ calls[c].at \in {"ready", "retried"} /\ calls[c].box \in live
    /\ newest.write < MaxWrites
    /\ \E size \in Sizes, then \in {"snapping", "mirroring"} :
          LET new == [write |-> newest.write + 1, size |-> size]
          IN /\ WriteInto(calls[c].box, new)
             /\ newest' = new
             /\ CallGoes(c, IF backing # "remote" THEN Resting
                            ELSE [calls[c] EXCEPT !.at = then,
                                     !.file = IF then = "mirroring" THEN new ELSE Absent])
    /\ harm' = harm \cup Raced(c)
    /\ PoolSame /\ MapsSame
    /\ UNCHANGED <<backing, evictor, setbacks>>

\* ... or a command that leaves the file alone.
CallReads(c) ==
    /\ calls[c].at \in {"ready", "retried"} /\ calls[c].box \in live
    /\ CallGoes(c, IF backing # "remote" THEN Resting
                   ELSE [calls[c] EXCEPT !.at = "snapping"])
    /\ PoolSame /\ MapsSame
    /\ UNCHANGED <<backing, Copies, evictor, newest, setbacks, harm>>

\* The sandbox is not there: an error, or a remote one is made again, once.
CallMisses(c) ==
    /\ calls[c].at \in {"ready", "retried"} /\ calls[c].box \notin live
    /\ CallGoes(c, IF backing = "remote" /\ calls[c].at = "ready"
                   THEN [calls[c] EXCEPT !.at = "gone"] ELSE Resting)
    /\ PoolSame /\ MapsSame
    /\ UNCHANGED <<backing, Copies, evictor, newest, setbacks, harm>>

\* recreate: under no lock, and also on an executor that has left the pool.
CallRecreates(c) ==
    /\ calls[c].at = "gone"
    /\ live' = live \cup {calls[c].box}
    /\ inBox' = [inBox EXCEPT ![calls[c].box] = stored]
    /\ CallGoes(c, [calls[c] EXCEPT !.at = "retried"])
    /\ harm' = IF calls[c].box \in live THEN harm \cup {"raced"} ELSE harm
    /\ MapsSame
    /\ UNCHANGED <<backing, stored, onHost, boxes, pooled, evictor, newest, setbacks>>

\* The copy back after an exec: a snapshot of the sandbox,
CallSnaps(c) ==
    /\ calls[c].at = "snapping"
    /\ CallGoes(c, IF calls[c].box \in live
                   THEN [calls[c] EXCEPT !.at = "syncing", !.file = Sees(calls[c].box)]
                   ELSE Resting)
    /\ PoolSame /\ MapsSame
    /\ UNCHANGED <<backing, Copies, evictor, newest, setbacks, harm>>

\* put where it differs in size; a mirrored write is put as it is.
CallPuts(c) ==
    /\ calls[c].at \in {"syncing", "mirroring"}
    /\ \/ calls[c].at = "syncing" /\ CopyBack(calls[c].file)
       \/ /\ calls[c].at = "mirroring"
          /\ stored' = calls[c].file
          /\ UNCHANGED <<setbacks, harm>>
       \/ CopyFails
    /\ CallGoes(c, Resting)
    /\ PoolSame /\ MapsSame
    /\ UNCHANGED <<backing, onHost, inBox, evictor, newest>>
-----------------------------------------------------------------------------
\* evictIdle: the last call entered too long ago, whether or not it has
\* returned.  The maps forget the chat under the lock,
EvictIdle ==
    /\ evictor = NoSweep /\ tracked
    /\ evictor' = [NoSweep EXCEPT !.at = "flushing"]
    /\ tracked' = FALSE /\ hydrated' = FALSE
    /\ harm' = harm \cup InUse
    /\ PoolSame
    /\ UNCHANGED <<backing, Copies, calls, newest, setbacks>>

\* outside it a snapshot is taken, of a new sandbox if need be,
EvictSnaps ==
    /\ evictor.at = "flushing"
    /\ \E b \in Boxes :
          /\ PoolGet(b)
          /\ evictor' = IF b \in live' \/ backing # "remote"
                        THEN [at |-> "putting",
                              file |-> IF backing = "remote" THEN inBox'[b] ELSE Sees(b)]
                        ELSE [NoSweep EXCEPT !.at = "releasing"]
    /\ MapsSame
    /\ UNCHANGED <<backing, stored, onHost, calls, newest, setbacks, harm>>

\* copied back,
EvictPuts ==
    /\ evictor.at = "putting"
    /\ CopyBack(evictor.file) \/ CopyFails
    /\ evictor' = [NoSweep EXCEPT !.at = "releasing"]
    /\ PoolSame /\ MapsSame
    /\ UNCHANGED <<backing, onHost, inBox, calls, newest>>

\* and whatever is in the pool by then is destroyed.
EvictReleases ==
    /\ evictor.at = "releasing"
    /\ evictor' = NoSweep
    /\ pooled' = 0 /\ live' = live \ {pooled}
    /\ harm' = harm \cup InUse
    /\ MapsSame
    /\ UNCHANGED <<backing, Copies, boxes, calls, newest, setbacks>>

Unflushed == IF backing = "docker" /\ onHost # stored THEN {"unflushed"} ELSE {}

\* Release, when the chat moves to another project: no copy back.
ReleaseChat ==
    /\ evictor = NoSweep
    /\ Setback
    /\ evictor' = [NoSweep EXCEPT !.at = "releasing"]
    /\ tracked' = FALSE /\ hydrated' = FALSE
    /\ harm' = harm \cup InUse \cup Unflushed
    /\ PoolSame
    /\ UNCHANGED <<backing, Copies, calls, newest>>

\* write_file and edit_file on a relative path: the store is written, and a
\* sandbox that exists is not told.
FileToolPuts ==
    /\ Setback
    /\ newest.write < MaxWrites
    /\ \E size \in Sizes :
          /\ newest' = [write |-> newest.write + 1, size |-> size]
          /\ stored' = newest'
    /\ harm' = harm
         \cup (IF backing # "mounted" /\ (pooled # 0 \/ onHost # Absent \/ Busy(Callers))
               THEN {"aside"} ELSE {})
         \cup (IF Busy(Callers) \/ evictor # NoSweep THEN {"raced"} ELSE {})
    /\ PoolSame /\ MapsSame
    /\ UNCHANGED <<backing, onHost, inBox, calls, evictor>>

\* A remote sandbox reaches the provider's limit.
Expires(b) ==
    /\ backing = "remote" /\ b \in live
    /\ Setback
    /\ live' = live \ {b}
    /\ harm' = harm \cup InUse
    /\ MapsSame
    /\ UNCHANGED <<backing, Copies, boxes, pooled, calls, evictor, newest>>

\* The gateway stops (CloseAll copies nothing back) and starts again.
RestartPool ==
    /\ boxes > 0
    /\ Setback
    /\ live' = {} /\ pooled' = 0
    /\ tracked' = FALSE /\ hydrated' = FALSE
    /\ calls' = [c \in Callers |-> Resting]
    /\ evictor' = NoSweep
    /\ harm' = harm \cup InUse \cup Unflushed
    /\ UNCHANGED <<backing, Copies, boxes, newest>>

SandboxNext ==
    \/ \E c \in Callers :
          \/ CallEnters(c) \/ CallGetsBox(c) \/ CallGetsNone(c)
          \/ HydrateReads(c) \/ HydrateWrites(c)
          \/ CallWrites(c) \/ CallReads(c) \/ CallMisses(c) \/ CallRecreates(c)
          \/ CallSnaps(c) \/ CallPuts(c)
    \/ EvictIdle \/ EvictSnaps \/ EvictPuts \/ EvictReleases
    \/ ReleaseChat
    \/ FileToolPuts
    \/ \E b \in Boxes : Expires(b)
    \/ RestartPool

SandboxSpec == SandboxInit /\ [][SandboxNext]_sandboxVars
-----------------------------------------------------------------------------
\* What the next call will find where the last one wrote.
Visible ==
    CASE backing = "mounted" -> stored
      [] backing = "docker"  -> IF hydrated \/ stored = Absent THEN onHost ELSE stored
      [] backing = "remote"  -> IF pooled \in live THEN inBox[pooled] ELSE stored

\* The last content written is what the next call finds, in every deployment,
\* through evictions, expiries and restarts between calls and through calls
\* that share a sandbox (getInner, evictIdle and syncSnapshot of
\* lifecycle.go:139-290), unless one of the harms above came to pass.
WorkSurvives ==
    harm = {} /\ ~Busy(Callers) /\ evictor = NoSweep => Visible = newest
=============================================================================
