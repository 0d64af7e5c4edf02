---------------------------- MODULE PrivateFence ----------------------------
(***************************************************************************)
(* How local processes share the directories of private state              *)
(* (apps/importer/src/private-fence.ts).  A writer claims each of its       *)
(* roots; a backup seals its roots and waits until their claims are gone.   *)
(* Claims and seals are published under a mutex made of an exclusively      *)
(* created file; a second such file, the reaper, lets one process at a time *)
(* remove the mutex of a dead one.                                          *)
(*                                                                          *)
(* A task is one call; the tasks of one process die together and leave      *)
(* their files behind.  A task that died keeps its pc: that is how a mutex  *)
(* file without content is told from a written one.  Process identifiers    *)
(* are not used again.  Registration and provenance, which can only make a  *)
(* seal fail, are the choice of Refuse.                                     *)
(***************************************************************************)
EXTENDS Integers

CONSTANTS Tasks, Procs,
          Home,     \* the process of each task
          Roots,    \* private directories, numbered in the order of their paths
          NoTask,
          MaxRefs   \* bound on the nested activities of a scope

ASSUME FenceAssumption ==
    /\ Home \in [Tasks -> Procs]
    /\ Roots \subseteq Nat
    /\ Roots # {}
    /\ NoTask \notin Tasks
    /\ MaxRefs \in Nat

VARIABLES alive,   \* the processes that run
          pc,      \* where each task is
          kind,    \* what it is for: "write", "seal" or "unseal"
          todo,    \* the roots it has still to enter
          held,    \* the roots it has claimed or sealed
          root,    \* the root whose mutex it wants or has
          prev,    \* the owner it found dead
          clear,   \* the sealed roots it has found without live claims
          refs,    \* nested activities, by task and root
          lock,    \* mutex.json of each root: the task that created it
          reaper,  \* reaper.json of each root
          seal,    \* seal.json of each root
          claims   \* writer-*.json of each root: the tasks that wrote them

task == <<kind, todo, held, root, prev, clear, refs>>
files == <<lock, reaper, seal, claims>>
vars == <<alive, pc, task, files>>

Live(t) == Home[t] \in alive

At(t, where) == Live(t) /\ pc[t] \in where

Init ==
    /\ alive = Procs
    /\ pc = [t \in Tasks |-> "idle"]
    /\ kind = [t \in Tasks |-> "write"]
    /\ todo = [t \in Tasks |-> {}]
    /\ held = [t \in Tasks |-> {}]
    /\ root \in [Tasks -> {CHOOSE r \in Roots : TRUE}]
    /\ prev = [t \in Tasks |-> NoTask]
    /\ clear = [t \in Tasks |-> {}]
    /\ refs = [t \in Tasks |-> [r \in Roots |-> 0]]
    /\ lock = [r \in Roots |-> NoTask]
    /\ reaper = [r \in Roots |-> NoTask]
    /\ seal = [r \in Roots |-> NoTask]
    /\ claims = [r \in Roots |-> {}]

\* Roots are entered in their order and left in the reverse one.
First(r, S) == r \in S /\ \A q \in S : r <= q
Last(r, S) == r \in S /\ \A q \in S : q <= r

Goto(t, where) == pc' = [pc EXCEPT ![t] = where]

Crash(p) ==
    /\ p \in alive
    /\ alive' = alive \ {p}
    /\ UNCHANGED <<pc, task, files>>

----------------------------------------------------------------------------
(* withPrivateFilesystemMutex.                                             *)

\* The mutex file comes into being and is then filled.
CreateLock(t) ==
    /\ At(t, {"want"})
    /\ lock[root[t]] = NoTask
    /\ lock' = [lock EXCEPT ![root[t]] = t]
    /\ Goto(t, "locking")
    /\ UNCHANGED <<alive, task, reaper, seal, claims>>

WriteLock(t) ==
    /\ At(t, {"locking"})
    /\ Goto(t, "crit")
    /\ UNCHANGED <<alive, task, files>>

SeeStale(t) ==
    LET owner == lock[root[t]]
    IN  /\ At(t, {"want"})
        /\ owner # NoTask
        /\ pc[owner] # "locking"
        /\ ~Live(owner)
        /\ prev' = [prev EXCEPT ![t] = owner]
        /\ Goto(t, "stale")
        /\ UNCHANGED <<alive, kind, todo, held, root, clear, refs, files>>

CreateReaper(t) ==
    /\ At(t, {"stale"})
    /\ reaper[root[t]] = NoTask
    /\ reaper' = [reaper EXCEPT ![root[t]] = t]
    /\ Goto(t, "reaping")
    /\ UNCHANGED <<alive, task, lock, seal, claims>>

ReaperBusy(t) ==
    /\ At(t, {"stale"})
    /\ reaper[root[t]] # NoTask
    /\ Goto(t, "want")
    /\ UNCHANGED <<alive, task, files>>

CheckStale(t) ==
    /\ At(t, {"reaping"})
    /\ Goto(t, IF lock[root[t]] = prev[t] /\ ~Live(prev[t]) THEN "unlink" ELSE "unreap")
    /\ UNCHANGED <<alive, task, files>>

Unlink(t) ==
    /\ At(t, {"unlink"})
    /\ lock' = [lock EXCEPT ![root[t]] = NoTask]
    /\ Goto(t, "unreap")
    /\ UNCHANGED <<alive, task, reaper, seal, claims>>

Unreap(t) ==
    /\ At(t, {"unreap"})
    /\ reaper' = [reaper EXCEPT ![root[t]] = NoTask]
    /\ Goto(t, "want")
    /\ UNCHANGED <<alive, task, lock, seal, claims>>

----------------------------------------------------------------------------
(* What is done under the mutex.                                           *)

Begin(t, what, roots, r) ==
    /\ At(t, {"idle"})
    /\ First(r, roots)
    /\ kind' = [kind EXCEPT ![t] = what]
    /\ todo' = [todo EXCEPT ![t] = roots \ {r}]
    /\ root' = [root EXCEPT ![t] = r]
    /\ Goto(t, "want")
    /\ UNCHANGED <<alive, held, prev, clear, refs, files>>

\* A seal whose owner is dead is removed, a live one refuses the task.
DropSeal(t) ==
    LET owner == seal[root[t]]
    IN  /\ At(t, {"crit"})
        /\ kind[t] # "unseal"
        /\ owner # NoTask
        /\ ~Live(owner)
        /\ seal' = [seal EXCEPT ![root[t]] = NoTask]
        /\ UNCHANGED <<alive, pc, task, lock, reaper, claims>>

Unsealed(t) ==
    /\ At(t, {"crit"})
    /\ kind[t] # "unseal"
    /\ seal[root[t]] = NoTask
    /\ Goto(t, "cleared")
    /\ UNCHANGED <<alive, task, files>>

Refuse(t) ==
    /\ At(t, {"crit"})
    /\ kind[t] # "unseal"
    /\ \/ seal[root[t]] # NoTask /\ Live(seal[root[t]])
       \/ kind[t] = "seal"
    /\ Goto(t, "leave")
    /\ UNCHANGED <<alive, task, files>>

Publish(t) ==
    /\ At(t, {"cleared"})
    /\ claims' = [claims EXCEPT ![root[t]] = IF kind[t] = "write" THEN @ \cup {t} ELSE @]
    /\ seal' = [seal EXCEPT ![root[t]] = IF kind[t] = "write" THEN @ ELSE t]
    /\ held' = [held EXCEPT ![t] = @ \cup {root[t]}]
    /\ Goto(t, "published")
    /\ UNCHANGED <<alive, kind, todo, root, prev, clear, refs, lock, reaper>>

\* The mutex is given back; the task goes on to its next root or its work.
Proceed(t) ==
    /\ At(t, {"published"})
    /\ lock' = [lock EXCEPT ![root[t]] = NoTask]
    /\ \/ /\ todo[t] = {}
          /\ Goto(t, IF kind[t] = "write" THEN "work" ELSE "drain")
          /\ UNCHANGED <<todo, root>>
       \/ \E r \in Roots :
             /\ First(r, todo[t])
             /\ Goto(t, "want")
             /\ root' = [root EXCEPT ![t] = r]
             /\ todo' = [todo EXCEPT ![t] = @ \ {r}]
    /\ UNCHANGED <<alive, kind, held, prev, clear, refs, reaper, seal, claims>>

Backout(t) ==
    /\ At(t, {"leave"})
    /\ lock' = [lock EXCEPT ![root[t]] = NoTask]
    /\ Goto(t, "release")
    /\ UNCHANGED <<alive, task, reaper, seal, claims>>

\* The mutex could not be had in time; seals that were to be lifted stay for
\* as long as their process lives.
TimeOut(t) ==
    /\ At(t, {"want"})
    /\ Goto(t, IF kind[t] = "unseal" THEN "stuck" ELSE "release")
    /\ UNCHANGED <<alive, task, files>>

----------------------------------------------------------------------------
(* Writers.                                                                *)

\* A nested call of the task's work joins a scope that still accepts: every
\* held root but the one whose scope is closing.
Accepting(t, r) ==
    /\ r \in held[t]
    /\ pc[t] = "release" => ~Last(r, held[t])

Enter(t, r) ==
    /\ At(t, {"work", "release"})
    /\ kind[t] = "write"
    /\ Accepting(t, r)
    /\ refs[t][r] < MaxRefs
    /\ refs' = [refs EXCEPT ![t][r] = @ + 1]
    /\ UNCHANGED <<alive, pc, kind, todo, held, root, prev, clear, files>>

Leave(t, r) ==
    /\ Live(t)
    /\ refs[t][r] > 0
    /\ refs' = [refs EXCEPT ![t][r] = @ - 1]
    /\ UNCHANGED <<alive, pc, kind, todo, held, root, prev, clear, files>>

EndWork(t) ==
    /\ At(t, {"work"})
    /\ Goto(t, "release")
    /\ UNCHANGED <<alive, task, files>>

\* Mutant: does not wait for the nested activities.
UnclaimAtOnce(t) ==
    /\ At(t, {"release"})
    /\ kind[t] = "write"
    /\ \E r \in Roots :
          /\ Last(r, held[t])
          /\ claims' = [claims EXCEPT ![r] = @ \ {t}]
          /\ held' = [held EXCEPT ![t] = @ \ {r}]
    /\ UNCHANGED <<alive, pc, kind, todo, root, prev, clear, refs, lock, reaper, seal>>
\* The innermost claim goes once its scope has drained.
Unclaim(t) ==
    /\ At(t, {"release"})
    /\ kind[t] = "write"
    /\ \E r \in Roots :
          /\ Last(r, held[t])
          /\ refs[t][r] = 0
          /\ claims' = [claims EXCEPT ![r] = @ \ {t}]
          /\ held' = [held EXCEPT ![t] = @ \ {r}]
    /\ UNCHANGED <<alive, pc, kind, todo, root, prev, clear, refs, lock, reaper, seal>>

Released(t) ==
    /\ At(t, {"release"})
    /\ held[t] = {}
    /\ Goto(t, "idle")
    /\ clear' = [clear EXCEPT ![t] = {}]
    /\ UNCHANGED <<alive, kind, todo, held, root, prev, refs, files>>

----------------------------------------------------------------------------
(* Sealers.                                                                *)

DropClaim(t, r, u) ==
    /\ At(t, {"drain"})
    /\ r \in held[t]
    /\ u \in claims[r]
    /\ ~Live(u)
    /\ claims' = [claims EXCEPT ![r] = @ \ {u}]
    /\ UNCHANGED <<alive, pc, task, lock, reaper, seal>>

\* Roots are looked at one after the other.
Scan(t, r) ==
    /\ At(t, {"drain"})
    /\ r \in held[t] \ clear[t]
    /\ claims[r] = {}
    /\ clear' = [clear EXCEPT ![t] = @ \cup {r}]
    /\ UNCHANGED <<alive, pc, kind, todo, held, root, prev, refs, files>>

Drained(t) ==
    /\ At(t, {"drain"})
    /\ clear[t] = held[t]
    /\ Goto(t, "backup")
    /\ UNCHANGED <<alive, task, files>>

\* The drain times out or is cancelled, or the backup is done.
EndSeal(t) ==
    /\ At(t, {"drain", "backup"})
    /\ Goto(t, "release")
    /\ UNCHANGED <<alive, task, files>>

\* Seals are lifted in reverse order, each under the mutex of its root.
Reopen(t) ==
    /\ At(t, {"release"})
    /\ kind[t] \in {"seal", "unseal"}
    /\ \E r \in Roots : Last(r, held[t]) /\ root' = [root EXCEPT ![t] = r]
    /\ kind' = [kind EXCEPT ![t] = "unseal"]
    /\ Goto(t, "want")
    /\ UNCHANGED <<alive, todo, held, prev, clear, refs, files>>

Lift(t) ==
    /\ At(t, {"crit"})
    /\ kind[t] = "unseal"
    /\ seal' = [seal EXCEPT ![root[t]] = NoTask]
    /\ held' = [held EXCEPT ![t] = @ \ {root[t]}]
    /\ Goto(t, "leave")
    /\ UNCHANGED <<alive, kind, todo, root, prev, clear, refs, lock, reaper, claims>>

Mutex(t) ==
    \/ CreateLock(t) \/ WriteLock(t) \/ SeeStale(t) \/ CreateReaper(t) \/ ReaperBusy(t)
    \/ CheckStale(t) \/ Unlink(t) \/ Unreap(t) \/ TimeOut(t)

Section(t) ==
    DropSeal(t) \/ Unsealed(t) \/ Refuse(t) \/ Publish(t) \/ Proceed(t) \/ Backout(t)

Writer(t) ==
    \/ EndWork(t) \/ Unclaim(t) \/ Released(t)
    \/ \E r \in Roots : Enter(t, r) \/ Leave(t, r)

Sealer(t) ==
    \/ Drained(t) \/ EndSeal(t) \/ Reopen(t) \/ Lift(t)
    \/ \E r \in Roots : Scan(t, r) \/ \E u \in Tasks : DropClaim(t, r, u)

Next ==
    \/ \E p \in Procs : Crash(p)
    \/ \E t \in Tasks :
         \/ \E what \in {"write", "seal"}, roots \in SUBSET Roots, r \in Roots :
              Begin(t, what, roots, r)
         \/ Mutex(t) \/ Section(t) \/ Writer(t) \/ Sealer(t)

Spec == Init /\ [][Next]_vars

----------------------------------------------------------------------------
(* Properties.                                                             *)

TypeOK ==
    /\ alive \subseteq Procs
    /\ pc \in [Tasks -> {"idle", "want", "locking", "stale", "reaping", "unlink", "unreap", "crit",
                         "cleared", "published", "leave", "work", "release", "drain", "backup",
                         "stuck"}]
    /\ kind \in [Tasks -> {"write", "seal", "unseal"}]
    /\ todo \in [Tasks -> SUBSET Roots]
    /\ held \in [Tasks -> SUBSET Roots]
    /\ root \in [Tasks -> Roots]
    /\ prev \in [Tasks -> Tasks \cup {NoTask}]
    /\ clear \in [Tasks -> SUBSET Roots]
    /\ refs \in [Tasks -> [Roots -> 0..MaxRefs]]
    /\ lock \in [Roots -> Tasks \cup {NoTask}]
    /\ reaper \in [Roots -> Tasks \cup {NoTask}]
    /\ seal \in [Roots -> Tasks \cup {NoTask}]
    /\ claims \in [Roots -> SUBSET Tasks]

InSection == {"crit", "cleared", "published", "leave"}

\* Two live tasks are never inside the mutex of one root, also when several
\* have found the same dead owner (private-fence.ts:65-72).
MutexExclusive ==
    \A t, u \in Tasks :
        At(t, InSection) /\ At(u, InSection) /\ root[t] = root[u] => t = u

\* The task's work, or an activity it started, may write below the root.
Writing(t, r) ==
    /\ Live(t)
    /\ \/ pc[t] = "work" /\ r \in held[t]
       \/ refs[t][r] > 0

\* While a backup runs on drained roots, nothing writes below them: neither a
\* writer that entered before the seal nor one that slipped past it
\* (private-fence.ts:147-165).
DrainedQuiet ==
    \A t, u \in Tasks, r \in Roots :
        At(t, {"backup"}) /\ r \in held[t] => ~Writing(u, r)

\* What the fence promises its users: the mutex excludes although dead owners
\* are reaped, and a backup of drained roots copies what nobody writes
\* (private-fence.ts).
FenceHolds == MutexExclusive /\ DrainedQuiet
=============================================================================
