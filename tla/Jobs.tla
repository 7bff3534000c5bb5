---------------------------------- MODULE Jobs ---------------------------------
(*******************************************************************************)
(* The two sweeps over the orders (jobs/cancelTimedOutOrders.ts and            *)
(* jobs/autoCompleteShippedOrders.ts) under lib/advisoryLock.ts, in several    *)
(* processes, over the shop as Fulfilment promises it: a transition is one     *)
(* step, the lock is taken apart. PostgreSQL keeps a session-level advisory    *)
(* lock per connection and counts how often the same connection took it;       *)
(* Prisma runs each query on whichever connection of the process's pool is     *)
(* free at that moment. (No connection is closed while its process lives.)     *)
(*******************************************************************************)
EXTENDS Fulfilment

CONSTANTS Process, Conn,
          PoolOf,     \* the process whose pool a connection belongs to
          Run,        \* runs of the sweeps under way at once
          NoProcess

Job == {"cancelTimedOutOrders", "autoCompleteShippedOrders"}

ASSUME JobsConstants ==
    /\ PoolOf \in [Conn -> Process]
    /\ NoProcess \notin Process
    /\ IsFiniteSet(Run)

VARIABLES
    locks,      \* per connection and job, how often the connection took the lock of the job
    runs        \* per run, its process, its job, and the orders it still has to look at

jobVars == <<locks, runs>>
allVars == <<vars, jobVars>>

Idle == [pc |-> "idle", proc |-> NoProcess, job |-> "cancelTimedOutOrders", todo |-> {}]

JobsTypeOK ==
    /\ TypeOK
    /\ locks \in [Conn -> [Job -> Nat]]
    /\ runs \in [Run -> [pc : {"idle", "locked", "sweeping"}, proc : Process \cup {NoProcess},
                         job : Job, todo : SUBSET Order]]

JobsInit ==
    /\ locks = [c \in Conn |-> [j \in Job |-> 0]]
    /\ runs = [r \in Run |-> Idle]

From(j) == IF j = "cancelTimedOutOrders" THEN "PENDING" ELSE "SHIPPED"
To(j)   == IF j = "cancelTimedOutOrders" THEN "CANCELLED" ELSE "COMPLETED"

\* Faulty variant: the answer is not looked at.
Regardless(c, j) == TRUE
\* pg_try_advisory_lock on connection c: no other session holds the lock.
Free(c, j) == \A d \in Conn \ {c} : locks[d][j] = 0

\* The clock strikes in process p: cron starts the job, whatever became of the run before.
\* If the lock is not to be had, withAdvisoryLock returns null and nothing happens.
Strike(r, p, j) ==
    /\ runs[r] = Idle
    /\ \E c \in Conn :
          /\ PoolOf[c] = p /\ Free(c, j)
          /\ locks' = [locks EXCEPT ![c][j] = @ + 1]
    /\ runs' = [runs EXCEPT ![r] = [pc |-> "locked", proc |-> p, job |-> j, todo |-> {}]]
    /\ UNCHANGED vars

\* findMany: the orders in the status that are older than the cutoff.
List(r) ==
    /\ runs[r].pc = "locked"
    /\ \E due \in SUBSET {o \in Order : status[o] = From(runs[r].job)} :
          runs' = [runs EXCEPT ![r].pc = "sweeping", ![r].todo = due]
    /\ UNCHANGED <<vars, locks>>

Done(r, o) == runs' = [runs EXCEPT ![r].todo = @ \ {o}]
\* transitionOrder in a transaction of its own. An order that has moved on is refused, and any
\* failure is logged: the sweep goes on with the next.
Sweep(r, o) ==
    /\ runs[r].pc = "sweeping" /\ o \in runs[r].todo
    /\ Done(r, o)
    /\ \/ status[o] = From(runs[r].job) /\ Move(o) /\ status'[o] = To(runs[r].job)
       \/ UNCHANGED vars
    /\ UNCHANGED locks

\* pg_advisory_unlock: once; a warning if this session does not hold it.
Release(n) == IF n > 0 THEN n - 1 ELSE 0

\* The finally of withAdvisoryLock, on any connection of the pool.
Unlock(r) ==
    /\ runs[r].pc = "sweeping" /\ runs[r].todo = {}
    /\ \E c \in Conn :
          /\ PoolOf[c] = runs[r].proc
          /\ locks' = [locks EXCEPT ![c][runs[r].job] = Release(@)]
    /\ runs' = [runs EXCEPT ![r] = Idle]
    /\ UNCHANGED vars

\* The process ends, and its sessions with it.
Crash(p) ==
    /\ locks' = [c \in Conn |-> IF PoolOf[c] = p THEN [j \in Job |-> 0] ELSE locks[c]]
    /\ runs' = [r \in Run |-> IF runs[r].proc = p THEN Idle ELSE runs[r]]
    /\ UNCHANGED vars

JobsNext ==
    \/ Next /\ UNCHANGED jobVars
    \/ \E r \in Run :
          \/ \E p \in Process, j \in Job : Strike(r, p, j)
          \/ List(r) \/ Unlock(r)
          \/ \E o \in Order : Sweep(r, o)
    \/ \E p \in Process : Crash(p)

JobsSpec == Init /\ JobsInit /\ [][JobsNext]_allVars

--------------------------------------------------------------------------------
Running(j) == {r \in Run : runs[r].pc # "idle" /\ runs[r].job = j}

(* No two processes sweep the same orders at once, although a lock may be      *)
(* taken twice by one connection, given back on another that does not hold it, *)
(* and left behind.                                                            *)
OneProcessPerJob == \A j \in Job : \A q, r \in Running(j) : runs[q].proc = runs[r].proc
================================================================================
