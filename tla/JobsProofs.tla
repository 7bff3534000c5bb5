------------------------------- MODULE JobsProofs ------------------------------
(*******************************************************************************)
(* A theorem of Jobs, for any numbers of processes, connections and runs: the  *)
(* advisory lock keeps a job in one process. Of the lock, the invariant says   *)
(* that a single connection holds it and has taken it at least as often as     *)
(* there are runs: an unlock too many on that connection is what could break   *)
(* it.                                                                         *)
(*******************************************************************************)
EXTENDS Jobs, FiniteSetTheorems, TLAPS

RunType == [pc : {"idle", "locked", "sweeping"}, proc : Process \cup {NoProcess},
            job : Job, todo : SUBSET Order]
LockTypeOK ==
    /\ locks \in [Conn -> [Job -> Nat]]
    /\ runs \in [Run -> RunType]
    /\ \A r \in Run : runs[r].pc = "idle" => runs[r] = Idle

HeldByOne == \A j \in Job : \A c, d \in Conn : locks[c][j] > 0 /\ locks[d][j] > 0 => c = d

\* Connection c holds the lock of j on behalf of every run of j.
Covers(c, j) ==
    /\ locks[c][j] >= Cardinality(Running(j))
    /\ \A r \in Running(j) : runs[r].proc = PoolOf[c]
Covered == \A j \in Job : Running(j) # {} => \E c \in Conn : Covers(c, j)

IInv == LockTypeOK /\ HeldByOne /\ Covered

LEMMA IdleType == Idle \in RunType /\ Idle.pc = "idle" /\ Idle.proc = NoProcess
  BY DEF Idle, RunType, Job

LEMMA RunningFinite ==
    ASSUME NEW j
    PROVE  /\ IsFiniteSet(Running(j)) /\ Cardinality(Running(j)) \in Nat
           /\ Running(j) # {} => Cardinality(Running(j)) > 0
<1>1. IsFiniteSet(Running(j))
  BY JobsConstants, FS_Subset DEF Running
<1>2. Cardinality(Running(j)) \in Nat
  BY <1>1, FS_CardinalityType
<1>3. Running(j) # {} => Cardinality(Running(j)) # 0
  BY <1>1, FS_EmptySet
<1> QED
  BY <1>1, <1>2, <1>3

(* A step that keeps the locks and, for every run, whether it is idle, its     *)
(* process and its job.                                                        *)
LEMMA SameRuns ==
    ASSUME IInv, UNCHANGED locks, runs' \in [Run -> RunType],
           \A r \in Run : /\ runs'[r].pc = "idle" <=> runs[r].pc = "idle"
                          /\ runs'[r].pc = "idle" => runs'[r] = runs[r]
                          /\ runs'[r].proc = runs[r].proc /\ runs'[r].job = runs[r].job
    PROVE  IInv'
<1>1. ASSUME NEW j \in Job PROVE Running(j)' = Running(j)
  BY DEF Running
<1>2. LockTypeOK'
  BY DEF IInv, LockTypeOK
<1>3. HeldByOne'
  BY DEF IInv, HeldByOne
<1>4. ASSUME NEW j \in Job, Running(j)' # {} PROVE \E c \in Conn : Covers(c, j)'
  <2>1. PICK c \in Conn : Covers(c, j)
    BY <1>1, <1>4 DEF IInv, Covered
  <2>2. \A r \in Running(j)' : runs'[r].proc = PoolOf[c]
    BY <1>1, <2>1 DEF Covers, Running
  <2> QED
    BY <1>1, <2>1, <2>2 DEF Covers
<1> QED
  BY <1>2, <1>3, <1>4 DEF IInv, Covered

LEMMA StrikeIInv ==
    ASSUME IInv, NEW r \in Run, NEW p \in Process, NEW j \in Job, Strike(r, p, j)
    PROVE  IInv'
<1>1. PICK c \in Conn : /\ PoolOf[c] = p /\ Free(c, j)
                        /\ locks' = [locks EXCEPT ![c][j] = @ + 1]
  BY DEF Strike
<1> DEFINE started == [pc |-> "locked", proc |-> p, job |-> j, todo |-> {}]
<1>2. runs[r].pc = "idle" /\ runs' = [runs EXCEPT ![r] = started]
  BY IdleType DEF Strike
<1>3. started \in RunType /\ started.pc = "locked" /\ started.proc = p /\ started.job = j
  BY DEF RunType
<1> HIDE DEF started
<1>4. locks \in [Conn -> [Job -> Nat]] /\ runs \in [Run -> RunType]
  BY DEF IInv, LockTypeOK
<1>5. /\ locks' \in [Conn -> [Job -> Nat]]
      /\ locks'[c][j] = locks[c][j] + 1
      /\ \A d \in Conn, k \in Job : d # c \/ k # j => locks'[d][k] = locks[d][k]
  BY <1>1, <1>4
<1>6. LockTypeOK'
  BY <1>2, <1>3, <1>4, <1>5 DEF IInv, LockTypeOK
<1>7. \A d \in Conn : d # c => locks'[d][j] = 0
  BY <1>1, <1>5 DEF Free
<1>8. HeldByOne'
  BY <1>5, <1>7 DEF IInv, HeldByOne
<1>9. Running(j)' = Running(j) \cup {r} /\ r \notin Running(j)
  BY <1>2, <1>3, <1>4 DEF Running
<1>10. \A k \in Job \ {j} : Running(k)' = Running(k)
  BY <1>2, <1>3, <1>4 DEF Running
<1>11. Cardinality(Running(j)') = Cardinality(Running(j)) + 1
  BY <1>9, RunningFinite, FS_AddElement
<1>12. Covers(c, j)'
  <2>1. locks[c][j] >= Cardinality(Running(j)) /\ \A q \in Running(j) : runs[q].proc = p
    <3>1. CASE Running(j) = {}
      BY <1>4, <3>1, FS_EmptySet
    <3>2. CASE Running(j) # {}
      <4>1. PICK d \in Conn : Covers(d, j)
        BY <3>2 DEF IInv, Covered
      <4>2. locks[d][j] > 0
        BY <1>4, <3>2, <4>1, RunningFinite DEF Covers
      <4>3. d = c
        BY <1>1, <4>2 DEF Free
      <4> QED
        BY <1>1, <4>1, <4>3 DEF Covers
    <3> QED
      BY <3>1, <3>2
  <2>2. \A q \in Running(j)' : runs'[q].proc = PoolOf[c]
    BY <1>1, <1>2, <1>3, <1>4, <1>9, <2>1 DEF Running
  <2>3. locks'[c][j] >= Cardinality(Running(j)')
    BY <1>4, <1>5, <1>11, <2>1, RunningFinite
  <2> QED
    BY <2>2, <2>3 DEF Covers
<1>13. ASSUME NEW k \in Job \ {j}, Running(k)' # {} PROVE \E d \in Conn : Covers(d, k)'
  <2>1. PICK d \in Conn : Covers(d, k)
    BY <1>10, <1>13 DEF IInv, Covered
  <2>2. \A q \in Running(k) : runs'[q].proc = runs[q].proc
    BY <1>2, <1>4 DEF Running
  <2>3. \A q \in Running(k)' : runs'[q].proc = PoolOf[d]
    BY <1>10, <2>1, <2>2 DEF Covers
  <2>4. locks'[d][k] >= Cardinality(Running(k)')
    BY <1>5, <1>10, <2>1 DEF Covers
  <2> QED
    BY <2>3, <2>4 DEF Covers
<1> QED
  BY <1>6, <1>8, <1>12, <1>13 DEF IInv, Covered

LEMMA UnlockIInv ==
    ASSUME IInv, NEW r \in Run, Unlock(r)
    PROVE  IInv'
<1>. PICK j \in Job : j = runs[r].job
  BY DEF IInv, LockTypeOK, RunType
<1>1. PICK c \in Conn : locks' = [locks EXCEPT ![c][j] = Release(@)]
  BY DEF Unlock
<1>2. runs[r].pc = "sweeping" /\ runs' = [runs EXCEPT ![r] = Idle]
  BY DEF Unlock
<1>3. locks \in [Conn -> [Job -> Nat]] /\ runs \in [Run -> RunType]
  BY DEF IInv, LockTypeOK
<1>4. \A n \in Nat : Release(n) \in Nat /\ Release(n) <= n /\ Release(n) >= n - 1
  BY DEF Release
<1>5. locks' \in [Conn -> [Job -> Nat]]
  BY <1>1, <1>3, <1>4
<1>6. \A d \in Conn : locks'[d][j] <= locks[d][j] /\ locks'[d][j] >= locks[d][j] - 1
  <2> TAKE d \in Conn
  <2>1. CASE d = c
    <3>1. locks'[d][j] = Release(locks[d][j]) /\ locks[d][j] \in Nat
      BY <1>1, <1>3, <2>1
    <3> QED
      BY <1>4, <3>1
  <2>2. CASE d # c
    <3>1. locks'[d][j] = locks[d][j] /\ locks[d][j] \in Nat
      BY <1>1, <1>3, <2>2
    <3> QED
      BY <3>1
  <2> QED
    BY <2>1, <2>2
<1>7. \A d \in Conn, k \in Job : k # j => locks'[d][k] = locks[d][k]
  BY <1>1, <1>3
<1>8. LockTypeOK'
  BY <1>2, <1>3, <1>5, IdleType DEF IInv, LockTypeOK
<1>9. HeldByOne'
  <2> SUFFICES ASSUME NEW k \in Job, NEW a \in Conn, NEW b \in Conn, locks'[a][k] > 0, locks'[b][k] > 0
               PROVE  a = b
    BY DEF HeldByOne
  <2>1. locks[a][k] \in Nat /\ locks[b][k] \in Nat /\ locks'[a][k] \in Nat /\ locks'[b][k] \in Nat
    BY <1>3, <1>5
  <2>2. locks[a][k] > 0 /\ locks[b][k] > 0
    BY <1>6, <1>7, <2>1
  <2> QED
    BY <2>2 DEF IInv, HeldByOne
<1>10. r \in Running(j) /\ Running(j)' = Running(j) \ {r}
  BY <1>2, <1>3, IdleType DEF Running
<1>11. \A k \in Job \ {j} : Running(k)' = Running(k)
  BY <1>2, <1>3, IdleType DEF Running
<1>12. Cardinality(Running(j)') = Cardinality(Running(j)) - 1
  BY <1>10, RunningFinite, FS_RemoveElement, ZenonT(40)
<1>13. ASSUME NEW k \in Job, Running(k)' # {} PROVE \E d \in Conn : Covers(d, k)'
  <2>1. Running(k) # {}
    BY <1>10, <1>11, <1>13
  <2>2. PICK d \in Conn : Covers(d, k)
    BY <2>1 DEF IInv, Covered
  <2>3. \A q \in Running(k)' : q \in Running(k) /\ runs'[q] = runs[q]
    <3>1. \A q \in Running(k)' : q # r
      BY <1>2, <1>3, IdleType DEF Running
    <3> QED
      BY <1>2, <1>3, <1>10, <1>11, <3>1 DEF Running
  <2>4. \A q \in Running(k)' : runs'[q].proc = PoolOf[d]
    BY <2>2, <2>3 DEF Covers
  <2>5. locks'[d][k] >= Cardinality(Running(k)')
    <3>1. CASE k = j
      <4>1. /\ locks[d][k] \in Nat /\ locks'[d][k] \in Nat /\ Cardinality(Running(k)) \in Nat
            /\ locks'[d][k] >= locks[d][k] - 1
        BY <1>3, <1>5, <1>6, <3>1, RunningFinite
      <4> QED
        BY <1>12, <2>2, <3>1, <4>1 DEF Covers
    <3>2. CASE k # j
      BY <1>7, <1>11, <2>2, <3>2 DEF Covers
    <3> QED
      BY <3>1, <3>2
  <2> QED
    BY <2>4, <2>5 DEF Covers
<1> QED
  BY <1>8, <1>9, <1>13 DEF IInv, Covered

LEMMA CrashIInv == ASSUME IInv, NEW p \in Process, Crash(p) PROVE IInv'
<1>1. /\ locks' = [c \in Conn |-> IF PoolOf[c] = p THEN [j \in Job |-> 0] ELSE locks[c]]
      /\ runs' = [r \in Run |-> IF runs[r].proc = p THEN Idle ELSE runs[r]]
  BY DEF Crash
<1>2. LockTypeOK'
  BY <1>1, IdleType DEF IInv, LockTypeOK
<1>3. HeldByOne'
  BY <1>1 DEF IInv, HeldByOne, LockTypeOK
<1>4. ASSUME NEW k \in Job, Running(k)' # {} PROVE \E d \in Conn : Covers(d, k)'
  <2>1. \A q \in Running(k)' : q \in Running(k) /\ runs[q].proc # p /\ runs'[q] = runs[q]
    BY <1>1, IdleType DEF Running
  <2>2. PICK d \in Conn : Covers(d, k)
    BY <1>4, <2>1 DEF IInv, Covered
  <2>3. PoolOf[d] # p
    BY <1>4, <2>1, <2>2 DEF Covers
  <2>4. Running(k)' = Running(k)
    <3>1. \A q \in Running(k) : q \in Run /\ runs[q].proc # p
      BY <2>2, <2>3 DEF Covers, Running
    <3>2. \A q \in Running(k) : runs'[q] = runs[q]
      BY <1>1, <3>1
    <3>3. \A q \in Running(k) : q \in Running(k)'
      BY <3>1, <3>2 DEF Running
    <3> QED
      BY <2>1, <3>3
  <2>5. locks'[d] = locks[d]
    BY <1>1, <2>3
  <2> QED
    BY <2>1, <2>2, <2>4, <2>5 DEF Covers
<1> QED
  BY <1>2, <1>3, <1>4 DEF IInv, Covered

LEMMA SweepIInv ==
    ASSUME IInv, NEW r \in Run, List(r) \/ \E o \in Order : Sweep(r, o)
    PROVE  IInv'
<1>1. runs[r] \in RunType /\ runs \in [Run -> RunType]
  BY DEF IInv, LockTypeOK
<1>2. CASE List(r)
  <2>1. PICK due \in SUBSET Order : runs' = [runs EXCEPT ![r].pc = "sweeping", ![r].todo = due]
    BY <1>2 DEF List
  <2>2. [runs[r] EXCEPT !.pc = "sweeping", !.todo = due] \in RunType
    BY <1>1 DEF RunType
  <2>3. runs' = [runs EXCEPT ![r] = [runs[r] EXCEPT !.pc = "sweeping", !.todo = due]]
    BY <1>1, <2>1
  <2>4. /\ runs' \in [Run -> RunType] /\ \A q \in Run : q # r => runs'[q] = runs[q]
        /\ runs'[r] = [runs[r] EXCEPT !.pc = "sweeping", !.todo = due]
    BY <1>1, <2>2, <2>3
  <2>5. runs'[r].pc = "sweeping" /\ runs'[r].proc = runs[r].proc /\ runs'[r].job = runs[r].job
    BY <1>1, <2>4 DEF RunType
  <2>6. runs[r].pc = "locked" /\ locks' = locks
    BY <1>2 DEF List
  <2> QED
    BY <2>4, <2>5, <2>6, SameRuns
<1>3. CASE \E o \in Order : Sweep(r, o)
  <2>1. PICK o \in Order : /\ runs' = [runs EXCEPT ![r].todo = @ \ {o}] /\ locks' = locks
                           /\ runs[r].pc = "sweeping"
    BY <1>3 DEF Sweep, Done
  <2>2. [runs[r] EXCEPT !.todo = @ \ {o}] \in RunType
    BY <1>1 DEF RunType
  <2>3. /\ runs' \in [Run -> RunType] /\ \A q \in Run : q # r => runs'[q] = runs[q]
        /\ runs'[r] = [runs[r] EXCEPT !.todo = @ \ {o}]
    BY <1>1, <2>1, <2>2
  <2>4. runs'[r].pc = "sweeping" /\ runs'[r].proc = runs[r].proc /\ runs'[r].job = runs[r].job
    BY <1>1, <2>1, <2>3 DEF RunType
  <2> QED
    BY <2>1, <2>3, <2>4, SameRuns
<1> QED
  BY <1>2, <1>3

LEMMA JobsNextIInv == IInv /\ [JobsNext]_allVars => IInv'
<1> SUFFICES ASSUME IInv, [JobsNext]_allVars PROVE IInv'
  OBVIOUS
<1>1. CASE UNCHANGED jobVars
  BY <1>1, SameRuns DEF jobVars, IInv, LockTypeOK
<1>2. ASSUME NEW r \in Run, NEW p \in Process, NEW j \in Job, Strike(r, p, j) PROVE IInv'
  BY <1>2, StrikeIInv
<1>3. ASSUME NEW r \in Run, List(r) \/ Unlock(r) \/ \E o \in Order : Sweep(r, o) PROVE IInv'
  BY <1>3, UnlockIInv, SweepIInv
<1>4. ASSUME NEW p \in Process, Crash(p) PROVE IInv'
  BY <1>4, CrashIInv
<1> QED
  BY <1>1, <1>2, <1>3, <1>4 DEF JobsNext, allVars

(* However the pool hands out its connections, processes crash and unlocks get *)
(* lost: no two processes sweep for the same job at once.                      *)
THEOREM OneSweeper == JobsSpec => []OneProcessPerJob
<1>1. JobsInit => IInv
  <2> SUFFICES ASSUME JobsInit PROVE IInv
    OBVIOUS
  <2>1. LockTypeOK
    BY IdleType DEF JobsInit, LockTypeOK
  <2>2. HeldByOne
    BY DEF JobsInit, HeldByOne
  <2>3. \A j \in Job : Running(j) = {}
    BY IdleType DEF JobsInit, Running
  <2> QED
    BY <2>1, <2>2, <2>3 DEF IInv, Covered
<1>2. IInv => OneProcessPerJob
  BY DEF IInv, Covered, Covers, OneProcessPerJob
<1> QED
  BY <1>1, <1>2, JobsNextIInv, PTL DEF JobsSpec
===============================================================================
