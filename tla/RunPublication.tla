--------------------------- MODULE RunPublication ---------------------------
(***************************************************************************)
(* How digital-twin runs appear in the data root (orchestrator.py          *)
(* generate, _generation_lock; storage.py active run; api.py create_run,   *)
(* select_active_run, active_run).                                         *)
(*                                                                         *)
(* A run is built in a directory of its own and renamed into place, under  *)
(* a lock that is a directory too.  A lock older than 300 s is taken to be *)
(* abandoned.  The code compares neither the owner of the lock it removes  *)
(* nor that of the lock it releases.                                       *)
(*                                                                         *)
(* Every request is a process or thread of its own and may die; the name   *)
(* of a run stands for its configuration, of which it is a hash.           *)
(***************************************************************************)
EXTENDS Naturals, FiniteSets

CONSTANTS
  Runs,       \* run identifiers
  Workers,    \* processes that serve requests
  Slow,       \* a build may outlast the 300 s of its lock
  Gone,       \* an earlier process, whose lock is still there
  None

ASSUME NamesAssumption ==
  None \notin Runs \union Workers \union {Gone} /\ Gone \notin Workers
ASSUME SlowAssumption == Slow \in BOOLEAN

VARIABLES
  dir,        \* the run directories
  lock,       \* who made the lock directory of a run
  expired,    \* it is older than 300 s
  pointer,    \* active_run.json
  pc, run, kind,   \* of each worker: progress, and the request it serves
  reply,      \* the outcome it is about to report, then reported
  usurped     \* the lock of a living request was broken (for checking only)

disk == <<dir, lock, expired, pointer>>
call == <<run, kind>>
publication == <<disk, pc, call, reply, usurped>>

\* A directory without its catalog is "partial"; "torn" has the catalog and
\* misses other files; a "garbled" catalog does not parse.
Directories == {"absent", "partial", "torn", "garbled", "whole"}
Recorded(r) == dir[r] \in {"torn", "garbled", "whole"}
HasCatalog(r) == dir[r] \in {"torn", "whole"}

Kinds == {"create", "select", "show"}
Inside(r) ==
  {w \in Workers : run[w] = r /\ pc[w] \in {"locked", "inspecting", "clearing", "cleared",
                                            "building", "publishing", "releasing"}}
Alive(w) == w \in Workers /\ pc[w] # "lost"

PublicationInit ==
  /\ dir \in [Runs -> {"absent", "partial"}]
  /\ lock \in [Runs -> {None, Gone}]
  /\ expired = [r \in Runs |-> FALSE]
  /\ pointer = None
  /\ pc = [w \in Workers |-> "idle"]
  /\ run = [w \in Workers |-> None]
  /\ kind = [w \in Workers |-> "show"]
  /\ reply = [w \in Workers |-> "none"]
  /\ usurped = [r \in Runs |-> FALSE]

Goto(w, to) == pc' = [pc EXCEPT ![w] = to]
Tell(w, outcome) == reply' = [reply EXCEPT ![w] = outcome]
Moves(w, from, to) == pc[w] = from /\ Goto(w, to)

-----------------------------------------------------------------------------
(* Requests *)

\* generate returns a run that is there, or fails on a catalog it cannot parse;
\* otherwise it wants the lock.
Create(w, r) ==
  /\ pc[w] = "idle"
  /\ run' = [run EXCEPT ![w] = r] /\ kind' = [kind EXCEPT ![w] = "create"]
  /\ Tell(w, IF dir[r] = "garbled" THEN "failed" ELSE "ok")
  /\ Goto(w, IF HasCatalog(r) THEN "activating"
             ELSE IF Recorded(r) THEN "idle" ELSE "locking")
  /\ UNCHANGED <<disk, usurped>>

Select(w, r) ==
  /\ pc[w] = "idle"
  /\ run' = [run EXCEPT ![w] = r] /\ kind' = [kind EXCEPT ![w] = "select"]
  /\ Tell(w, "ok")
  /\ Goto(w, "activating")
  /\ UNCHANGED <<disk, usurped>>

\* get_active_run: the pointer if it names a run, or else the latest catalog,
\* which becomes the active run.  Live decisions rewrite catalogs: any may be
\* the latest.
Show(w) ==
  /\ pc[w] = "idle"
  /\ kind' = [kind EXCEPT ![w] = "show"]
  /\ IF pointer # None /\ HasCatalog(pointer)
     THEN /\ run' = [run EXCEPT ![w] = pointer]
          /\ Tell(w, "ok") /\ Goto(w, "idle")
     ELSE \/ /\ \A r \in Runs : ~HasCatalog(r)
             /\ run' = [run EXCEPT ![w] = None]
             /\ Tell(w, "failed") /\ Goto(w, "idle")
          \/ \E r \in Runs :
               /\ HasCatalog(r)
               /\ run' = [run EXCEPT ![w] = r]
               /\ Tell(w, "ok") /\ Goto(w, "activating")
  /\ UNCHANGED <<disk, usurped>>

-----------------------------------------------------------------------------
(* The lock *)

\* lock_path.mkdir()
TakeLock(w) ==
  /\ Moves(w, "locking", "locked")
  /\ lock[run[w]] = None
  /\ lock' = [lock EXCEPT ![run[w]] = w]
  /\ UNCHANGED <<dir, expired, pointer, call, reply, usurped>>

\* The directory is there, and older than 300 s when its time is read.
FindExpired(w) ==
  /\ Moves(w, "locking", "breaking")
  /\ lock[run[w]] # None /\ expired[run[w]]
  /\ UNCHANGED <<disk, call, reply, usurped>>

NoTimeOut(w) == FALSE       \* mutant: the wait has no deadline

\* The directory is there, younger, and 60 s have passed.
TimeOut(w) ==
  /\ Moves(w, "locking", "idle")
  /\ lock[run[w]] # None /\ ~expired[run[w]]
  /\ Tell(w, "failed")
  /\ UNCHANGED <<disk, call, usurped>>

Unlock(r) ==
  /\ lock' = [lock EXCEPT ![r] = None]
  /\ expired' = [expired EXCEPT ![r] = FALSE]

\* It removes whatever lock there is by now.
BreakLock(w) ==
  /\ Moves(w, "breaking", "locking")
  /\ Unlock(run[w])
  /\ usurped' = [usurped EXCEPT ![run[w]] =
                   @ \/ (lock[run[w]] # None /\ Alive(lock[run[w]]))]
  /\ UNCHANGED <<dir, pointer, call, reply>>

Release(w) ==
  /\ Moves(w, "releasing", IF reply[w] = "ok" THEN "activating" ELSE "idle")
  /\ Unlock(run[w])
  /\ UNCHANGED <<dir, pointer, call, reply, usurped>>

-----------------------------------------------------------------------------
(* Building and publishing *)

RecheckNothing(w) ==        \* mutant: no second look under the lock
  Moves(w, "locked", "inspecting") /\ UNCHANGED <<disk, call, reply, usurped>>

Recheck(w) ==
  /\ Moves(w, "locked", IF Recorded(run[w]) THEN "releasing" ELSE "inspecting")
  /\ Tell(w, IF dir[run[w]] = "garbled" THEN "failed" ELSE reply[w])
  /\ UNCHANGED <<disk, call, usurped>>

\* if final_run_path.exists()
Inspect(w) ==
  /\ Moves(w, "inspecting", IF dir[run[w]] = "absent" THEN "building" ELSE "clearing")
  /\ UNCHANGED <<disk, call, reply, usurped>>

\* rmtree takes the files away in any order ...
Clear(w) ==
  LET r == run[w]
  IN /\ Moves(w, "clearing", "cleared")
     /\ \E rest \in {"partial", "torn"} :
          /\ rest = "torn" => HasCatalog(r)
          /\ dir' = IF dir[r] = "absent" THEN dir ELSE [dir EXCEPT ![r] = rest]
     /\ UNCHANGED <<lock, expired, pointer, call, reply, usurped>>

\* ... and then the directory, which another request may have removed or
\* replaced in the meantime.
RemoveDirectory(w) ==
  LET r == run[w]
  IN /\ pc[w] = "cleared"
     /\ IF dir[r] \in {"partial", "torn"}
        THEN /\ dir' = [dir EXCEPT ![r] = "absent"]
             /\ Goto(w, "building") /\ UNCHANGED reply
        ELSE UNCHANGED dir /\ Tell(w, "failed") /\ Goto(w, "releasing")
     /\ UNCHANGED <<lock, expired, pointer, call, usurped>>

\* _generate_into fills a directory nobody else knows; the gate may refuse.
Build(w) ==
  \/ Moves(w, "building", "publishing") /\ UNCHANGED <<disk, call, reply, usurped>>
  \/ /\ Moves(w, "building", "releasing") /\ Tell(w, "failed")
     /\ UNCHANGED <<disk, call, usurped>>

\* os.replace puts the directory in place, unless one with content is there.
Publish(w) ==
  /\ Moves(w, "publishing", "releasing")
  /\ IF dir[run[w]] = "absent"
     THEN dir' = [dir EXCEPT ![run[w]] = "whole"] /\ UNCHANGED reply
     ELSE UNCHANGED dir /\ Tell(w, "failed")
  /\ UNCHANGED <<lock, expired, pointer, call, usurped>>

-----------------------------------------------------------------------------
(* The active run *)

ActivateUnchecked(w) ==     \* mutant: the name is written without a look
  Moves(w, "activating", "pointing") /\ UNCHANGED <<disk, call, reply, usurped>>

\* set_active_run reads the catalog; a repair that fails is ignored.
Activate(w) ==
  /\ pc[w] = "activating"
  /\ IF HasCatalog(run[w])
     THEN Goto(w, "pointing") /\ UNCHANGED reply
     ELSE Goto(w, "idle") /\ Tell(w, IF kind[w] = "show" THEN "ok" ELSE "failed")
  /\ UNCHANGED <<disk, call, usurped>>

Point(w) ==
  /\ Moves(w, "pointing", "idle")
  /\ pointer' = run[w]
  /\ UNCHANGED <<dir, lock, expired, call, reply, usurped>>

-----------------------------------------------------------------------------
(* The environment *)

Expire(r) ==
  /\ lock[r] # None /\ ~expired[r]
  /\ Slow \/ ~Alive(lock[r])
  /\ expired' = [expired EXCEPT ![r] = TRUE]
  /\ UNCHANGED <<dir, lock, pointer, pc, call, reply, usurped>>

\* A live decision rewrites the catalog in place, and may die before it has.
Rewrite(r) ==
  /\ \/ dir[r] = "whole" /\ dir' = [dir EXCEPT ![r] = "garbled"]
     \/ dir[r] = "garbled" /\ dir' = [dir EXCEPT ![r] = "whole"]
  /\ UNCHANGED <<lock, expired, pointer, pc, call, reply, usurped>>

\* The process of a request dies; what it has put on disk stays.
Die(w) ==
  /\ pc[w] \notin {"idle", "lost"}
  /\ Goto(w, "lost")
  /\ UNCHANGED <<disk, call, reply, usurped>>

Handle(w) ==
  \/ TakeLock(w) \/ FindExpired(w) \/ TimeOut(w) \/ BreakLock(w) \/ Release(w)
  \/ Recheck(w) \/ Inspect(w) \/ Clear(w) \/ RemoveDirectory(w) \/ Build(w)
  \/ Publish(w) \/ Activate(w) \/ Point(w)

Ask(w) == Show(w) \/ \E r \in Runs : Create(w, r) \/ Select(w, r)

PublicationNext ==
  \/ \E w \in Workers : Ask(w) \/ Handle(w) \/ Die(w)
  \/ \E r \in Runs : Expire(r) \/ Rewrite(r)

PublicationSpec == PublicationInit /\ [][PublicationNext]_publication

-----------------------------------------------------------------------------
(* Properties *)

\* Until the lock of a living request is broken, one request at a time is inside,
\* whoever dies and however many wait for a lock that was left behind.
LockIsExclusive ==
  \A r \in Runs : ~usurped[r] =>
    \A v, w \in Inside(r) : v = w

Published == {"whole", "garbled"}

\* A published run is never taken away or overwritten (docs/ARCHITECTURE.md:80
\* "Digital Twin immutable run"), as long as its lock was not broken under a
\* living request: one that has seen no catalog would remove it.
PublishedIsFinal ==
  [][\A r \in Runs :
       dir[r] \in Published /\ ~usurped'[r] => dir'[r] \in Published]_publication

\* A catalog is the mark of a complete run: what an interrupted removal leaves
\* behind is built again and never served
\* (test_digital_twin_p0.py test_35 "interrupted_run_recovers").
CatalogMeansWhole == \A r \in Runs : ~usurped[r] => dir[r] # "torn"

\* The active run is a published one, whatever selections, repairs of the pointer
\* and removals overlap.
ActiveRunIsPublished ==
  pointer # None /\ ~usurped[pointer] => dir[pointer] \in Published

\* Threads and processes keep running; nothing is assumed of clients.
FairSpec ==
  /\ PublicationSpec
  /\ \A w \in Workers : WF_publication(Handle(w))

\* Every request ends, or its process dies: no lock keeps one waiting for ever.
RequestsReturn == \A w \in Workers : (pc[w] # "idle") ~> (pc[w] \in {"idle", "lost"})
=============================================================================
