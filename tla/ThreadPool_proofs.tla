-------------------------- MODULE ThreadPool_proofs --------------------------
(***************************************************************************)
(* Proofs about ThreadPool.  The rotation of the queues: whatever the      *)
(* submitters and the workers do, and although the order of the tree is    *)
(* stale, a queue is in one place and the last one is never lost.  The     *)
(* jobs: each is in one place, and the graceful destructor clears queues   *)
(* that hold none.  The counters: what they say is what there is.          *)
(***************************************************************************)
EXTENDS ThreadPool, FiniteSetTheorems, TLAPS

\* What the rotation consists of.
rotation == <<m_set, spc, squeue, spos, crashed>>

Holding == {"push", "locate", "link"}

RotationTypes ==
    /\ m_set \in Seq(Queues)
    /\ spc \in [Submitters -> SubmitterPc]
    /\ squeue \in [Submitters -> Queues \cup {Nobody}]
    /\ spos \in [Submitters -> Nat]

\* A submitter has a queue exactly while it stands between the extraction and
\* the link; one at a time is about to link, at a place the set has.
RotationLock ==
    /\ \A s \in Submitters : squeue[s] # Nobody <=> spc[s] \in Holding
    /\ \A s, r \in Submitters : spc[s] = "link" /\ spc[r] = "link" => s = r
    /\ \A s \in Submitters : spc[s] = "link" => spos[s] <= Len(m_set)

RotationInv ==
    /\ RotationTypes
    /\ RotationLock
    /\ RotationNeverEmpty
    /\ RotationHasNoDuplicates
    /\ SingleSubmitterIsSafe

-----------------------------------------------------------------------------
LEMMA QueuesExist == Cardinality(Queues) \in Nat /\ Cardinality(Queues) # 0
  BY FS_CardinalityType, FS_EmptySet, ThreadPoolAssumption DEF ThreadPoolAssumption

LEMMA RotationInit == Init => RotationInv
<1> SUFFICES ASSUME Init PROVE RotationInv
  OBVIOUS
<1> DEFINE n == Cardinality(Queues)
<1>1. n \in Nat /\ n # 0 /\ Queues \subseteq Nat /\ Nobody \notin Queues
  BY QueuesExist, ThreadPoolAssumption DEF ThreadPoolAssumption
<1>2. m_set \in [1..n -> Queues] /\ \A i, j \in 1..n : i < j => m_set[i] < m_set[j]
  BY DEF Init
<1> HIDE DEF n
<1>3. m_set \in Seq(Queues) /\ Len(m_set) = n /\ m_set # <<>>
  BY <1>1, <1>2
<1>4. RotationTypes
  BY <1>3 DEF Init, RotationTypes, SubmitterPc
<1>5. RotationLock
  BY DEF Init, RotationLock, Holding
<1>6. RotationNeverEmpty
  BY <1>3 DEF RotationNeverEmpty
<1>7. RotationHasNoDuplicates
  <2>1. ASSUME NEW i \in 1..Len(m_set), NEW j \in 1..Len(m_set), m_set[i] = m_set[j]
        PROVE  i = j
    <3>1. i \in 1..n /\ j \in 1..n /\ m_set[i] \in Nat /\ m_set[j] \in Nat
      BY <1>1, <1>2, <1>3
    <3>2. (i < j => m_set[i] < m_set[j]) /\ (j < i => m_set[j] < m_set[i])
      BY <1>2, <3>1
    <3> QED
      BY <2>1, <3>1, <3>2, <1>1
  <2>2. \A s \in Submitters : squeue[s] = Nobody
    BY DEF Init
  <2> QED
    BY <2>1, <2>2 DEF RotationHasNoDuplicates
<1>8. SingleSubmitterIsSafe
  BY DEF Init, SingleSubmitterIsSafe
<1> QED
  BY <1>4, <1>5, <1>6, <1>7, <1>8 DEF RotationInv

\* Only the submitters move queues.
LEMMA OthersLeaveRotation ==
  ASSUME Next
  PROVE  \/ UNCHANGED rotation
         \/ \E s \in Submitters : SubmitterStep(s) \/ \E j \in Jobs : SubmitJob(s, j)
<1>1. CASE Construct
  BY <1>1 DEF Construct, rotation, submitVars, dispatchVars
<1>2. CASE \E w \in Workers : WorkerStep(w)
  <2> PICK w \in Workers : WorkerStep(w)
    BY <1>2
  <2> QED
    BY DEF WorkerStep, Register, LoopHead, PauseTest, PauseBlock, PauseWake, PopTake, PopRefuse,
           PopTest, PopBlock, PopWake, JobUncount, JobStart, JobEnd, JobDiscount, JobNotify,
           rotation, submitVars, dispatchVars
<1>3. CASE \E w \in Workers : AsyncRun(w) \/ \E j \in NestedJobs : SubmitNested(w, j)
  BY <1>3 DEF AsyncRun, SubmitNested, rotation, submitVars, dispatchVars
<1>4. CASE Pause \/ ResumeStep
  BY <1>4 DEF Pause, ResumeStep, ResumeClear, ResumeNotify, rotation, submitVars, dispatchVars
<1>5. CASE Destroy \/ DestructorStep
  BY <1>5 DEF Destroy, DestructorStep, WaitTest, WaitBlock, WaitWake, WaitCheck, ShutDown,
              ClearBegin, ClearRaise, ClearNotify, ClearEnd, JoinAll,
              rotation, submitVars, dispatchVars
<1>6. CASE SpuriousWakeup
  BY <1>6 DEF SpuriousWakeup, rotation, submitVars
<1> QED
  BY <1>1, <1>2, <1>3, <1>4, <1>5, <1>6 DEF Next

LEMMA RotationUnchanged ==
  ASSUME RotationInv, UNCHANGED rotation
  PROVE  RotationInv'
BY DEF RotationInv, rotation, RotationTypes, RotationLock, RotationNeverEmpty,
       RotationHasNoDuplicates, SingleSubmitterIsSafe, Elements

-----------------------------------------------------------------------------
(* The steps of a submitter. *)

\* A submitter that neither gets nor gives up a queue.
LEMMA LabelStep ==
  ASSUME RotationInv, NEW s \in Submitters, NEW label \in SubmitterPc,
         spc[s] \in Holding <=> label \in Holding,
         spc[s] # "link", label # "link",
         spc' = [spc EXCEPT ![s] = label],
         UNCHANGED <<m_set, squeue, spos, crashed>>
  PROVE  RotationInv'
<1>1. RotationTypes'
  BY DEF RotationInv, RotationTypes
<1>2. RotationLock'
  BY DEF RotationInv, RotationTypes, RotationLock, Holding
<1>3. (RotationNeverEmpty /\ RotationHasNoDuplicates /\ SingleSubmitterIsSafe)'
  BY DEF RotationInv, RotationNeverEmpty, RotationHasNoDuplicates, SingleSubmitterIsSafe, Elements
<1> QED
  BY <1>1, <1>2, <1>3 DEF RotationInv

LEMMA ExtractKeeps ==
  ASSUME RotationInv, NEW s \in Submitters, ExtractLeastBusy(s)
  PROVE  RotationInv'
<1> DEFINE q == Head(m_set)
<1>0. /\ spc[s] = "extract" /\ squeue[s] = Nobody
      /\ \A r \in Submitters : spc[r] # "link"
      /\ spos' = spos
  BY DEF ExtractLeastBusy, SetIsFree, RotationInv, RotationLock, Holding, submitVars
<1>1. CASE m_set = <<>>
  <2>1. spc' = [spc EXCEPT ![s] = "lost"] /\ crashed' = TRUE /\ UNCHANGED <<m_set, squeue, spos>>
    BY <1>1 DEF ExtractLeastBusy, SGoto
  <2>2. Cardinality(Submitters) # 1
    <3> SUFFICES ASSUME Cardinality(Submitters) = 1 PROVE FALSE
      OBVIOUS
    <3>1. PICK x : Submitters = {x}
      BY FS_Singleton, ThreadPoolAssumption DEF ThreadPoolAssumption
    <3>2. PICK r \in Submitters : squeue[r] # Nobody
      BY <1>1 DEF RotationInv, RotationNeverEmpty
    <3> QED
      BY <1>0, <3>1, <3>2
  <2>3. RotationTypes' /\ RotationLock'
    BY <1>0, <2>1 DEF RotationInv, RotationTypes, RotationLock, Holding, SubmitterPc
  <2>4. (RotationNeverEmpty /\ RotationHasNoDuplicates)'
    BY <2>1 DEF RotationInv, RotationNeverEmpty, RotationHasNoDuplicates, Elements
  <2> QED
    BY <2>2, <2>3, <2>4 DEF RotationInv, SingleSubmitterIsSafe
<1>2. CASE m_set # <<>>
  <2>1. /\ spc' = [spc EXCEPT ![s] = "push"]
        /\ squeue' = [squeue EXCEPT ![s] = q]
        /\ m_set' = Tail(m_set)
        /\ UNCHANGED <<spos, crashed>>
    BY <1>2 DEF ExtractLeastBusy, SGoto
  <2>2. /\ m_set \in Seq(Queues) /\ m_set' \in Seq(Queues) /\ q \in Queues
        /\ Len(m_set) \in Nat /\ Len(m_set') = Len(m_set) - 1 /\ q = m_set[1]
        /\ \A i \in 1..Len(m_set') : m_set'[i] = m_set[i + 1] /\ i + 1 \in 1..Len(m_set)
    BY <1>2, <2>1 DEF RotationInv, RotationTypes
  <2>3. q # Nobody /\ 1 \in 1..Len(m_set)
    BY <1>2, <2>2, ThreadPoolAssumption DEF ThreadPoolAssumption
  <2>4. RotationTypes'
    BY <2>1, <2>2 DEF RotationInv, RotationTypes, SubmitterPc
  <2>5. RotationLock'
    BY <1>0, <2>1, <2>3 DEF RotationInv, RotationTypes, RotationLock, Holding
  <2>6. RotationNeverEmpty'
    BY <2>1, <2>3 DEF RotationInv, RotationTypes, RotationNeverEmpty
  <2>7. \A i, j \in 1..Len(m_set') : m_set'[i] = m_set'[j] => i = j
    BY <2>2 DEF RotationInv, RotationHasNoDuplicates
  <2>8. ASSUME NEW i \in 1..Len(m_set') PROVE m_set'[i] # q
    <3>1. m_set'[i] = m_set[i + 1] /\ i + 1 \in 1..Len(m_set) /\ i + 1 # 1
      BY <2>2
    <3> QED
      BY <2>2, <2>3, <3>1 DEF RotationInv, RotationHasNoDuplicates
  <2>9. ASSUME NEW r \in Submitters, squeue'[r] # Nobody
        PROVE  /\ squeue'[r] \notin Elements(m_set)'
               /\ \A t \in Submitters : squeue'[t] = squeue'[r] => t = r
    <3>1. \A t \in Submitters : t # s => squeue'[t] = squeue[t]
      BY <2>1 DEF RotationInv, RotationTypes
    <3>2. squeue'[s] = q /\ q \in Elements(m_set)
      BY <2>1, <2>2, <2>3 DEF RotationInv, RotationTypes, Elements
    <3>3. \A t \in Submitters : t # s /\ squeue[t] # Nobody => squeue[t] \notin Elements(m_set)
      BY DEF RotationInv, RotationHasNoDuplicates
    <3>4. Elements(m_set)' \subseteq Elements(m_set) \ {q}
      BY <2>2, <2>8 DEF Elements
    <3>5. CASE r = s
      BY <2>3, <3>1, <3>2, <3>3, <3>4, <3>5
    <3>6. CASE r # s
      <4>1. squeue[r] # Nobody /\ squeue[r] \notin Elements(m_set)
        BY <2>9, <3>1, <3>3, <3>6
      <4>2. \A t \in Submitters : squeue[t] = squeue[r] => t = r
        BY <4>1 DEF RotationInv, RotationHasNoDuplicates
      <4> QED
        BY <3>1, <3>2, <3>4, <3>6, <4>1, <4>2
    <3> QED
      BY <3>5, <3>6
  <2>10. RotationHasNoDuplicates'
    BY <2>7, <2>9 DEF RotationHasNoDuplicates
  <2> QED
    BY <2>1, <2>4, <2>5, <2>6, <2>10 DEF RotationInv, SingleSubmitterIsSafe
<1> QED
  BY <1>1, <1>2

LEMMA LocateKeeps ==
  ASSUME RotationInv, NEW s \in Submitters, InsertLocate(s)
  PROVE  RotationInv'
<1>1. /\ spc[s] = "locate" /\ spc' = [spc EXCEPT ![s] = "link"]
      /\ \A r \in Submitters : spc[r] # "link"
      /\ UNCHANGED <<m_set, squeue, crashed>>
  BY DEF InsertLocate, SetIsFree, SGoto, dispatchVars
<1>2. PICK i \in 0..Len(m_set) : spos' = [spos EXCEPT ![s] = i]
  BY DEF InsertLocate
<1>3. i \in Nat /\ i <= Len(m_set)
  BY DEF RotationInv, RotationTypes
<1>4. RotationTypes'
  BY <1>1, <1>2, <1>3 DEF RotationInv, RotationTypes, SubmitterPc
<1>5. RotationLock'
  BY <1>1, <1>2, <1>3 DEF RotationInv, RotationTypes, RotationLock, Holding
<1>6. (RotationNeverEmpty /\ RotationHasNoDuplicates /\ SingleSubmitterIsSafe)'
  BY <1>1 DEF RotationInv, RotationNeverEmpty, RotationHasNoDuplicates,
              SingleSubmitterIsSafe, Elements
<1> QED
  BY <1>4, <1>5, <1>6 DEF RotationInv

\* The sequence with one element more.
Inserted(seq, i, x) == SubSeq(seq, 1, i) \o <<x>> \o SubSeq(seq, i + 1, Len(seq))

LEMMA InsertedElements ==
  ASSUME NEW seq \in Seq(Queues), NEW i \in 0..Len(seq), NEW x \in Queues
  PROVE  /\ Inserted(seq, i, x) \in Seq(Queues)
         /\ Len(Inserted(seq, i, x)) = Len(seq) + 1
         /\ \A k \in 1..i : Inserted(seq, i, x)[k] = seq[k]
         /\ Inserted(seq, i, x)[i + 1] = x
         /\ \A k \in (i + 2)..(Len(seq) + 1) : Inserted(seq, i, x)[k] = seq[k - 1]
<1> DEFINE low == SubSeq(seq, 1, i)
           mid == low \o <<x>>
           high == SubSeq(seq, i + 1, Len(seq))
<1>1. low \in Seq(Queues) /\ Len(low) = i /\ \A k \in 1..i : low[k] = seq[k]
  OBVIOUS
<1>2. /\ high \in Seq(Queues) /\ Len(high) = Len(seq) - i
      /\ \A k \in 1..(Len(seq) - i) : high[k] = seq[i + k]
  OBVIOUS
<1> HIDE DEF low, high
<1>3. /\ mid \in Seq(Queues) /\ Len(mid) = i + 1
      /\ \A k \in 1..(i + 1) : mid[k] = IF k <= i THEN seq[k] ELSE x
  BY <1>1
<1> HIDE DEF mid
<1>4. mid \o high \in Seq(Queues) /\ Len(mid \o high) = Len(seq) + 1
  BY <1>2, <1>3
<1>5. ASSUME NEW k \in 1..i PROVE (mid \o high)[k] = seq[k]
  <2>1. k \in 1..(i + 1) /\ k <= i /\ (mid \o high)[k] = mid[k]
    BY <1>2, <1>3
  <2> QED
    BY <1>3, <2>1
<1>7. (mid \o high)[i + 1] = x
  <2>1. i + 1 \in 1..(i + 1) /\ ~(i + 1 <= i) /\ (mid \o high)[i + 1] = mid[i + 1]
    BY <1>2, <1>3
  <2> QED
    BY <1>3, <2>1
<1>8. ASSUME NEW k \in (i + 2)..(Len(seq) + 1) PROVE (mid \o high)[k] = seq[k - 1]
  <2>1. k - (i + 1) \in 1..(Len(seq) - i) /\ i + (k - (i + 1)) = k - 1
    OBVIOUS
  <2>2. (mid \o high)[k] = high[k - (i + 1)]
    BY <1>2, <1>3
  <2>3. high[k - (i + 1)] = seq[i + (k - (i + 1))]
    BY <1>2, <2>1
  <2> QED
    BY <2>1, <2>2, <2>3
<1>6. Inserted(seq, i, x) = mid \o high
  BY DEF Inserted, low, mid, high
<1> QED
  BY <1>4, <1>5, <1>6, <1>7, <1>8

LEMMA LinkKeeps ==
  ASSUME RotationInv, NEW s \in Submitters, InsertLink(s)
  PROVE  RotationInv'
<1> DEFINE q == squeue[s]
           i == spos[s]
<1>0. /\ spc[s] = "link" /\ spc' = [spc EXCEPT ![s] = "out"]
      /\ squeue' = [squeue EXCEPT ![s] = Nobody] /\ spos' = [spos EXCEPT ![s] = 0]
      /\ m_set' = IF IsUnique(q, i) THEN Inserted(m_set, i, q) ELSE m_set
      /\ crashed' = crashed
  BY DEF InsertLink, SGoto, Inserted
<1>1. /\ m_set \in Seq(Queues) /\ Len(m_set) \in Nat /\ i \in 0..Len(m_set)
      /\ q \in Queues /\ q # Nobody /\ Nobody \notin Queues
      /\ \A r \in Submitters : r # s => spc[r] # "link"
  BY <1>0, ThreadPoolAssumption
     DEF RotationInv, RotationTypes, RotationLock, Holding, ThreadPoolAssumption
<1>2. q \notin Elements(m_set) /\ \A r \in Submitters : squeue[r] = q => r = s
  BY <1>1 DEF RotationInv, RotationHasNoDuplicates
<1>3. /\ \A r \in Submitters : r # s => squeue'[r] = squeue[r]
      /\ squeue'[s] = Nobody
  BY <1>0 DEF RotationInv, RotationTypes
<1>4. ASSUME IsUnique(q, i)
      PROVE  m_set' \in Seq(Queues) /\ RotationHasNoDuplicates' /\ RotationNeverEmpty'
  <2>0. m_set' = Inserted(m_set, i, q)
    BY <1>0, <1>4
  <2>1. /\ m_set' \in Seq(Queues) /\ Len(m_set') = Len(m_set) + 1
        /\ \A k \in 1..i : m_set'[k] = m_set[k]
        /\ m_set'[i + 1] = q
        /\ \A k \in (i + 2)..(Len(m_set) + 1) : m_set'[k] = m_set[k - 1]
    <3>1. m_set \in Seq(Queues) /\ i \in 0..Len(m_set) /\ q \in Queues
      BY <1>1
    <3>2. /\ Inserted(m_set, i, q) \in Seq(Queues)
          /\ Len(Inserted(m_set, i, q)) = Len(m_set) + 1
          /\ \A k \in 1..i : Inserted(m_set, i, q)[k] = m_set[k]
          /\ Inserted(m_set, i, q)[i + 1] = q
          /\ \A k \in (i + 2)..(Len(m_set) + 1) : Inserted(m_set, i, q)[k] = m_set[k - 1]
      BY <3>1, InsertedElements, Zenon
    <3> QED
      BY <2>0, <3>2, Zenon
  <2> DEFINE from(k) == IF k <= i THEN k ELSE k - 1
  <2>2. ASSUME NEW k \in 1..Len(m_set')
        PROVE  /\ k = i + 1 => m_set'[k] = q
               /\ k # i + 1 => from(k) \in 1..Len(m_set) /\ m_set'[k] = m_set[from(k)]
    <3>1. k \in 1..(Len(m_set) + 1)
      BY <2>1
    <3>2. CASE k <= i
      BY <1>1, <2>1, <3>1, <3>2
    <3>3. CASE k = i + 1
      BY <1>1, <2>1, <3>1, <3>3
    <3>4. CASE k > i + 1
      <4>1. k \in (i + 2)..(Len(m_set) + 1) /\ from(k) = k - 1 /\ k - 1 \in 1..Len(m_set)
        BY <1>1, <3>1, <3>4
      <4>2. m_set'[k] = m_set[k - 1]
        BY <2>1, <4>1
      <4> QED
        BY <3>4, <4>1, <4>2
    <3> QED
      BY <1>1, <3>2, <3>3, <3>4
  <2>3. Elements(m_set)' \subseteq Elements(m_set) \cup {q}
    BY <2>2 DEF Elements
  <2>4. ASSUME NEW j \in 1..Len(m_set'), NEW k \in 1..Len(m_set'), m_set'[j] = m_set'[k]
        PROVE  j = k
    <3>1. CASE j = i + 1 \/ k = i + 1
      <4>1. j = i + 1 /\ k = i + 1
        BY <1>2, <2>2, <2>4, <3>1 DEF Elements
      <4> QED
        BY <4>1
    <3>2. CASE j # i + 1 /\ k # i + 1
      <4>1. from(j) = from(k)
        BY <2>2, <2>4, <3>2 DEF RotationInv, RotationHasNoDuplicates
      <4> QED
        BY <1>1, <3>2, <4>1
    <3> QED
      BY <3>1, <3>2
  <2>5. ASSUME NEW r \in Submitters, squeue'[r] # Nobody
        PROVE  /\ squeue'[r] \notin Elements(m_set)'
               /\ \A t \in Submitters : squeue'[t] = squeue'[r] => t = r
    <3>1. r # s /\ squeue'[r] = squeue[r] /\ squeue[r] # q
      BY <1>2, <1>3, <2>5
    <3>2. squeue[r] \notin Elements(m_set)
      BY <2>5, <3>1 DEF RotationInv, RotationHasNoDuplicates
    <3>3. \A t \in Submitters : squeue[t] = squeue[r] => t = r
      BY <2>5, <3>1 DEF RotationInv, RotationHasNoDuplicates
    <3> QED
      BY <1>3, <2>3, <2>5, <3>1, <3>2, <3>3
  <2>6. RotationHasNoDuplicates'
    BY <2>4, <2>5 DEF RotationHasNoDuplicates
  <2>7. RotationNeverEmpty'
    BY <1>1, <2>1 DEF RotationNeverEmpty
  <2> QED
    BY <2>1, <2>6, <2>7
<1>5. ASSUME ~IsUnique(q, i)
      PROVE  m_set' \in Seq(Queues) /\ RotationHasNoDuplicates' /\ RotationNeverEmpty'
  <2>1. m_set' = m_set
    BY <1>0, <1>5
  <2>2. m_set # <<>>
    BY <1>1, <1>5 DEF IsUnique
  <2>3. m_set' \in Seq(Queues) /\ RotationNeverEmpty'
    BY <1>1, <2>1, <2>2 DEF RotationNeverEmpty
  <2>4. ASSUME NEW r \in Submitters, squeue'[r] # Nobody
        PROVE  r # s /\ squeue'[r] = squeue[r]
    BY <1>3, <2>4
  <2>5. RotationHasNoDuplicates'
    BY <1>3, <2>1, <2>4 DEF RotationInv, RotationHasNoDuplicates, Elements
  <2> QED
    BY <2>3, <2>5
<1>6. m_set' \in Seq(Queues) /\ RotationHasNoDuplicates' /\ RotationNeverEmpty'
  BY <1>4, <1>5
<1>7. RotationTypes'
  BY <1>0, <1>6 DEF RotationInv, RotationTypes, SubmitterPc
<1>8. RotationLock'
  BY <1>0, <1>1 DEF RotationInv, RotationTypes, RotationLock, Holding
<1> QED
  BY <1>0, <1>6, <1>7, <1>8 DEF RotationInv, SingleSubmitterIsSafe

-----------------------------------------------------------------------------
LEMMA RotationStep == RotationInv /\ [Next]_vars => RotationInv'
<1> SUFFICES ASSUME RotationInv, [Next]_vars PROVE RotationInv'
  OBVIOUS
<1>1. CASE UNCHANGED rotation
  BY <1>1, RotationUnchanged
<1>2. ASSUME NEW s \in Submitters, SubmitterStep(s) PROVE RotationInv'
  <2>1. CASE SubmitCount(s)
    <3>1. /\ spc[s] = "count" /\ spc' = [spc EXCEPT ![s] = "extract"]
          /\ UNCHANGED <<m_set, squeue, spos, crashed>>
      BY <2>1 DEF SubmitCount, SGoto, dispatchVars
    <3> QED
      BY <3>1, LabelStep DEF Holding, SubmitterPc
  <2>2. CASE ExtractLeastBusy(s)
    BY <2>2, ExtractKeeps
  <2>3. CASE PushJob(s)
    <3>1. /\ spc[s] = "push" /\ spc' = [spc EXCEPT ![s] = "locate"]
          /\ UNCHANGED <<m_set, squeue, spos, crashed>>
      BY <2>3 DEF PushJob, SGoto
    <3> QED
      BY <3>1, LabelStep DEF Holding, SubmitterPc
  <2>4. CASE InsertLocate(s)
    BY <2>4, LocateKeeps
  <2>5. CASE InsertLink(s)
    BY <2>5, LinkKeeps
  <2> QED
    BY <1>2, <2>1, <2>2, <2>3, <2>4, <2>5 DEF SubmitterStep
<1>3. ASSUME NEW s \in Submitters, NEW j \in Jobs, SubmitJob(s, j) PROVE RotationInv'
  <2>1. /\ spc[s] = "out" /\ spc' = [spc EXCEPT ![s] = "count"]
        /\ UNCHANGED <<m_set, squeue, spos, crashed>>
    BY <1>3 DEF SubmitJob, SGoto, dispatchVars
  <2> QED
    BY <2>1, LabelStep DEF Holding, SubmitterPc
<1>4. CASE UNCHANGED vars
  BY <1>1, <1>4 DEF vars, rotation, dispatchVars, submitVars
<1> QED
  BY <1>1, <1>2, <1>3, <1>4, OthersLeaveRotation

\* Every reachable state of the pool keeps the inductive invariant of the
\* rotation.
THEOREM RotationCorrect == Spec => []RotationInv
BY RotationInit, RotationStep, PTL DEF Spec

\* The last queue is never lost and no queue is in two places, for any number
\* of queues, workers and submitters and however stale the order of the tree
\* (dispatch.cpp:58-76).
THEOREM RotationKept == Spec => []RotationIsSound
<1>1. RotationInv => RotationIsSound
  BY DEF RotationInv, RotationIsSound
<1> QED
  BY <1>1, RotationCorrect, PTL

\* One thread that submits never extracts from an empty set.
THEOREM SingleSubmitterSafe == Spec => []SingleSubmitterIsSafe
<1>1. RotationInv => SingleSubmitterIsSafe
  BY DEF RotationInv
<1> QED
  BY <1>1, RotationCorrect, PTL

-----------------------------------------------------------------------------
(* Where the jobs are.  A job is in the hand of a thread exactly while that *)
(* thread stands between two points of its code, and two places never hold  *)
(* the same job.                                                            *)

places == <<tasks, sjob, job, child, fresh, ran, dropped>>

PlaceTypes ==
    /\ tasks \in [Queues -> Seq(Jobs)]
    /\ wpc \in [Workers -> WorkerPc]
    /\ job \in [Workers -> Jobs \cup {Nobody}]
    /\ child \in [Workers -> NestedJobs \cup {Nobody}]
    /\ sjob \in [Submitters -> Jobs \cup {Nobody}]
    /\ fresh \subseteq AllJobs /\ ran \subseteq AllJobs /\ dropped \subseteq NestedJobs

Hands ==
    /\ \A s \in Submitters : sjob[s] # Nobody <=> spc[s] \in {"count", "extract", "push", "lost"}
    /\ \A w \in Workers : job[w] # Nobody <=> wpc[w] \in {"got", "uncounted", "running"}
    /\ \A w \in Workers : child[w] # Nobody => wpc[w] = "running"

\* The jobs that are in nobody's hand.
Gone == fresh \cup ran \cup dropped

SubmittersApart ==
    \A s \in Submitters : sjob[s] # Nobody =>
        /\ sjob[s] \notin Gone
        /\ \A r \in Submitters : sjob[r] = sjob[s] => r = s
        /\ \A w \in Workers : job[w] # sjob[s]

WorkersApart ==
    \A w \in Workers :
        /\ job[w] # Nobody => job[w] \notin Gone /\ \A v \in Workers : job[v] = job[w] => v = w
        /\ child[w] # Nobody => child[w] \notin Gone /\ \A v \in Workers : child[v] = child[w] => v = w

QueuesApart ==
    \A q \in Queues : \A i \in 1..Len(tasks[q]) :
        /\ tasks[q][i] \notin Gone
        /\ \A s \in Submitters : sjob[s] # tasks[q][i]
        /\ \A w \in Workers : job[w] # tasks[q][i]
        /\ \A r \in Queues : \A k \in 1..Len(tasks[r]) : tasks[r][k] = tasks[q][i] => r = q /\ k = i

Apart ==
    /\ fresh \cap ran = {} /\ dropped \cap (fresh \cup ran) = {}
    /\ SubmittersApart /\ WorkersApart /\ QueuesApart

Covered ==
    \A j \in AllJobs :
        \/ j \in Gone
        \/ \E s \in Submitters : sjob[s] = j
        \/ \E w \in Workers : job[w] = j \/ child[w] = j
        \/ \E q \in Queues : \E i \in 1..Len(tasks[q]) : tasks[q][i] = j

SlotSet == {x \in Queues \X (1..Cardinality(Jobs)) : x[2] <= Len(tasks[x[1]])}
Submitting == {s \in Submitters : sjob[s] # Nobody}
Busy == {w \in Workers : job[w] # Nobody}
Parents == {w \in Workers : child[w] # Nobody}

JobAccount ==
    /\ \A q \in Queues : Len(tasks[q]) <= Cardinality(Jobs)
    /\ Cardinality(fresh \cap Jobs) + Cardinality(ran \cap Jobs) + Cardinality(Submitting)
         + Cardinality(Busy) + Cardinality(SlotSet) = Cardinality(Jobs)

NestedAccount ==
    Cardinality(fresh \cap NestedJobs) + Cardinality(ran \cap NestedJobs) + Cardinality(dropped)
        + Cardinality(Parents) = Cardinality(NestedJobs)

LEMMA JobsAreApart ==
    /\ Jobs \cap NestedJobs = {} /\ Nobody \notin AllJobs /\ Nobody \notin Queues
    /\ Jobs \subseteq AllJobs /\ NestedJobs \subseteq AllJobs
BY ThreadPoolAssumption DEF ThreadPoolAssumption, AllJobs

LEMMA OthersLeaveJobs ==
    ASSUME Construct \/ Pause \/ ResumeStep \/ Destroy \/ DestructorStep \/ SpuriousWakeup
           \/ UNCHANGED vars
    PROVE  UNCHANGED <<places, spc, wpc, squeue>>
BY DEF Construct, Pause, ResumeStep, ResumeClear, ResumeNotify, Destroy, DestructorStep, WaitTest,
   WaitBlock, WaitWake, WaitCheck, ShutDown, ClearBegin, ClearRaise, ClearNotify, ClearEnd, JoinAll,
   SpuriousWakeup, vars, places, dispatchVars, workerVars, submitVars, jobVars

\* A worker that looks for a job.
Searches(w) ==
    \/ Register(w) \/ LoopHead(w) \/ PauseTest(w) \/ PauseBlock(w) \/ PauseWake(w) \/ PopRefuse(w)
    \/ PopTest(w) \/ PopBlock(w) \/ PopWake(w) \/ JobDiscount(w) \/ JobNotify(w)

LEMMA HandsInit == Init => PlaceTypes /\ Hands
BY DEF Init, PlaceTypes, Hands, WorkerPc

LEMMA SubmitterHands ==
    ASSUME RotationInv, PlaceTypes, Hands, NEW s \in Submitters,
           SubmitterStep(s) \/ \E j \in Jobs : SubmitJob(s, j)
    PROVE  PlaceTypes' /\ Hands'
<1> USE JobsAreApart DEF RotationInv, RotationTypes, SGoto, dispatchVars, workerVars, jobVars
<1>1. CASE SubmitCount(s) \/ ExtractLeastBusy(s) \/ InsertLocate(s) \/ InsertLink(s)
  BY <1>1 DEF SubmitCount, ExtractLeastBusy, InsertLocate, InsertLink, PlaceTypes, Hands, submitVars
<1>2. CASE PushJob(s)
  <2>1. sjob[s] \in Jobs /\ spc[s] = "push"
    BY <1>2 DEF PushJob, PlaceTypes, Hands
  <2>2. PlaceTypes'
    <3>1. squeue[s] \in Queues
      BY <2>1 DEF RotationLock, Holding
    <3>2. tasks' = [tasks EXCEPT ![squeue[s]] = Append(tasks[squeue[s]], sjob[s])]
      BY <1>2 DEF PushJob
    <3>3. tasks' \in [Queues -> Seq(Jobs)]
      BY <2>1, <3>1, <3>2 DEF PlaceTypes
    <3> QED
      BY <1>2, <3>3 DEF PushJob, PlaceTypes
  <2>3. Hands'
    BY <1>2, <2>1 DEF PushJob, PlaceTypes, Hands
  <2> QED
    BY <2>2, <2>3
<1>3. ASSUME NEW j \in Jobs, SubmitJob(s, j) PROVE PlaceTypes' /\ Hands'
  BY <1>3 DEF SubmitJob, PlaceTypes, Hands
<1> QED
  BY <1>1, <1>2, <1>3 DEF SubmitterStep

LEMMA WorkerHands ==
    ASSUME RotationInv, PlaceTypes, Hands, NEW w \in Workers,
           WorkerStep(w) \/ AsyncRun(w) \/ \E j \in NestedJobs : SubmitNested(w, j)
    PROVE  PlaceTypes' /\ Hands'
<1> USE JobsAreApart DEF RotationInv, RotationTypes, WGoto, dispatchVars, submitVars, jobVars
<1>1. CASE Searches(w)
  BY <1>1 DEF Searches, Register, LoopHead, PauseTest, PauseBlock, PauseWake, PopRefuse, PopTest,
     PopBlock, PopWake, JobDiscount, JobNotify, PlaceTypes, Hands, WorkerPc
<1>2. CASE PopTake(w)
  <2>1. QueueOf[w] \in Queues
    BY ThreadPoolAssumption DEF ThreadPoolAssumption
  <2>2. PlaceTypes'
    BY <1>2, <2>1 DEF PopTake, PlaceTypes, WorkerPc
  <2>3. job'[w] # Nobody
    BY <1>2, <2>1 DEF PopTake, PlaceTypes
  <2>4. Hands'
    BY <1>2, <2>3 DEF PopTake, PlaceTypes, Hands
  <2> QED
    BY <2>2, <2>4
<1>3. CASE JobUncount(w) \/ JobStart(w)
  BY <1>3 DEF JobUncount, JobStart, PlaceTypes, Hands, WorkerPc
<1>4. CASE JobEnd(w)
  <2>1. job[w] \in Jobs
    BY <1>4 DEF JobEnd, PlaceTypes, Hands
  <2> QED
    BY <1>4, <2>1 DEF JobEnd, PlaceTypes, Hands, WorkerPc
<1>5. CASE AsyncRun(w)
  <2>1. child[w] \in NestedJobs
    BY <1>5 DEF AsyncRun, PlaceTypes
  <2> QED
    BY <1>5, <2>1 DEF AsyncRun, PlaceTypes, Hands
<1>6. ASSUME NEW j \in NestedJobs, SubmitNested(w, j) PROVE PlaceTypes' /\ Hands'
  <2>1. /\ fresh' = fresh \ {j} /\ wpc[w] = "running"
        /\ UNCHANGED <<tasks, wpc, job, spc, sjob, ran>>
        /\ child' = child \/ child' = [child EXCEPT ![w] = j]
        /\ dropped' = dropped \/ dropped' = dropped \cup {j}
    BY <1>6 DEF SubmitNested
  <2>2. PlaceTypes'
    BY <2>1 DEF PlaceTypes
  <2>3. Hands'
    BY <2>1 DEF PlaceTypes, Hands
  <2> QED
    BY <2>2, <2>3
<1> QED
  BY <1>1, <1>2, <1>3, <1>4, <1>5, <1>6 DEF WorkerStep, Searches

LEMMA HandsStep == RotationInv /\ PlaceTypes /\ Hands /\ [Next]_vars => PlaceTypes' /\ Hands'
<1> SUFFICES ASSUME RotationInv, PlaceTypes, Hands, [Next]_vars PROVE PlaceTypes' /\ Hands'
  OBVIOUS
<1>1. CASE UNCHANGED <<places, spc, wpc, squeue>>
  BY <1>1 DEF places, PlaceTypes, Hands
<1> QED
  BY <1>1, OthersLeaveJobs, SubmitterHands, WorkerHands DEF Next

-----------------------------------------------------------------------------
(* The six steps that move a job. *)

PlacesInv == RotationInv /\ PlaceTypes /\ Hands /\ Apart /\ Covered

LEMMA SubmitJobApart ==
    ASSUME PlacesInv, NEW s \in Submitters, NEW j \in Jobs, SubmitJob(s, j)
    PROVE  Apart' /\ Covered'
<1> USE JobsAreApart DEF PlacesInv
<1>1. /\ j \in fresh /\ fresh' = fresh \ {j} /\ sjob' = [sjob EXCEPT ![s] = j] /\ sjob[s] = Nobody
      /\ UNCHANGED <<tasks, job, child, ran, dropped>>
  BY DEF SubmitJob, Hands, dispatchVars, workerVars
<1>2. j \in Gone /\ j \notin ran /\ j \notin dropped /\ Gone' = Gone \ {j}
  BY <1>1 DEF Gone, Apart, PlaceTypes
<1>3. SubmittersApart'
  BY <1>1, <1>2 DEF PlaceTypes, Apart, SubmittersApart, WorkersApart
<1>4. WorkersApart'
  BY <1>1, <1>2 DEF PlaceTypes, Apart, WorkersApart
<1>5. QueuesApart'
  BY <1>1, <1>2 DEF PlaceTypes, Apart, QueuesApart
<1>6. Covered'
  BY <1>1, <1>2 DEF PlaceTypes, Covered
<1> QED
  BY <1>1, <1>3, <1>4, <1>5, <1>6 DEF Apart

LEMMA PushJobApart ==
    ASSUME PlacesInv, NEW s \in Submitters, PushJob(s)
    PROVE  Apart' /\ Covered'
<1> USE JobsAreApart DEF PlacesInv
<1>1. PICK q \in Queues : q = squeue[s]
  BY DEF PushJob, RotationInv, RotationTypes, RotationLock, Holding
<1>2. PICK x \in Jobs : x = sjob[s]
  BY DEF PushJob, PlaceTypes, Hands
<1>3. /\ tasks' = [tasks EXCEPT ![q] = Append(tasks[q], x)] /\ sjob' = [sjob EXCEPT ![s] = Nobody]
      /\ UNCHANGED <<job, child, fresh, ran, dropped>>
  BY <1>1, <1>2 DEF PushJob, workerVars, jobVars
<1>4. PICK n \in Nat : n = Len(tasks[q])
  BY DEF PlaceTypes
<1>5. /\ \A r \in Queues : r # q => tasks'[r] = tasks[r]
      /\ Len(tasks'[q]) = n + 1 /\ tasks'[q][n + 1] = x
      /\ \A k \in 1..n : tasks'[q][k] = tasks[q][k]
  BY <1>3, <1>4 DEF PlaceTypes
<1>6. \A r \in Queues : \A k \in 1..Len(tasks'[r]) :
         \/ k \in 1..Len(tasks[r]) /\ tasks'[r][k] = tasks[r][k]
         \/ r = q /\ k = n + 1 /\ tasks'[r][k] = x
  BY <1>4, <1>5
<1>7. /\ x \notin Gone /\ \A r \in Submitters : sjob'[r] # x
      /\ \A w \in Workers : job[w] # x
      /\ \A r \in Queues : \A k \in 1..Len(tasks[r]) : tasks[r][k] # x
  BY <1>2, <1>3 DEF PlaceTypes, Apart, SubmittersApart, QueuesApart
<1>8. Gone' = Gone
  BY <1>3 DEF Gone
<1>9. SubmittersApart' /\ WorkersApart'
  BY <1>3, <1>8 DEF PlaceTypes, Apart, SubmittersApart, WorkersApart
<1>10. QueuesApart'
  <2>1. ASSUME NEW r \in Queues, NEW k \in 1..Len(tasks'[r])
        PROVE  /\ tasks'[r][k] \notin Gone /\ (\A t \in Submitters : sjob'[t] # tasks'[r][k])
               /\ \A w \in Workers : job[w] # tasks'[r][k]
    <3>1. CASE k \in 1..Len(tasks[r]) /\ tasks'[r][k] = tasks[r][k]
      <4>1. tasks[r][k] \in Jobs
        BY <3>1 DEF PlaceTypes
      <4> QED
        BY <1>3, <3>1, <4>1 DEF PlaceTypes, Apart, QueuesApart
    <3> QED
      BY <1>6, <1>7, <3>1
  <2>2. ASSUME NEW r \in Queues, NEW k \in 1..Len(tasks'[r]),
               NEW u \in Queues, NEW i \in 1..Len(tasks'[u]), tasks'[r][k] = tasks'[u][i]
        PROVE  r = u /\ k = i
    BY <1>6, <1>7, <2>2 DEF Apart, QueuesApart
  <2> QED
    BY <1>3, <1>8, <2>1, <2>2 DEF QueuesApart
<1>11. Covered'
  <2> SUFFICES ASSUME NEW j \in AllJobs, j \notin Gone, \A t \in Submitters : sjob'[t] # j,
                      \A w \in Workers : job[w] # j /\ child[w] # j
               PROVE  \E r \in Queues : \E k \in 1..Len(tasks'[r]) : tasks'[r][k] = j
    BY <1>3, <1>8 DEF Covered
  <2>1. CASE j = x
    <3>1. n + 1 \in 1..Len(tasks'[q])
      BY <1>5
    <3> QED
      BY <1>5, <2>1, <3>1
  <2>2. CASE j # x
    <3>1. \A t \in Submitters : sjob[t] # j
      BY <1>2, <1>3, <2>2 DEF PlaceTypes
    <3>2. PICK r \in Queues : \E i \in 1..Len(tasks[r]) : tasks[r][i] = j
      BY <3>1 DEF Covered
    <3>3. PICK k \in 1..Len(tasks[r]) : tasks[r][k] = j
      BY <3>2
    <3>4. k \in 1..Len(tasks'[r]) /\ tasks'[r][k] = j
      BY <1>4, <1>5, <3>3
    <3> QED
      BY <3>4
  <2> QED
    BY <2>1, <2>2
<1> QED
  BY <1>3, <1>9, <1>10, <1>11 DEF Apart

LEMMA PopTakeApart ==
    ASSUME PlacesInv, NEW w \in Workers, PopTake(w)
    PROVE  Apart' /\ Covered'
<1> USE JobsAreApart DEF PlacesInv
<1>1. PICK q \in Queues : q = QueueOf[w]
  BY ThreadPoolAssumption DEF ThreadPoolAssumption
<1>2. PICK n \in Nat : Len(tasks[q]) = n + 1
  <2>1. tasks[q] \in Seq(Jobs) /\ tasks[q] # <<>>
    BY <1>1 DEF PopTake, PlaceTypes
  <2>2. Len(tasks[q]) \in Nat /\ Len(tasks[q]) # 0
    BY <2>1
  <2>3. Len(tasks[q]) - 1 \in Nat /\ Len(tasks[q]) = (Len(tasks[q]) - 1) + 1
    BY <2>2
  <2> QED
    BY <2>3
<1>3. PICK x \in Jobs : x = tasks[q][1]
  BY <1>2 DEF PlaceTypes
<1>4. /\ tasks' = [tasks EXCEPT ![q] = Tail(tasks[q])] /\ job' = [job EXCEPT ![w] = x]
      /\ job[w] = Nobody
      /\ UNCHANGED <<sjob, child, fresh, ran, dropped>>
  BY <1>1, <1>3 DEF PopTake, PlaceTypes, Hands, submitVars, jobVars
<1>5. /\ \A r \in Queues : r # q => tasks'[r] = tasks[r]
      /\ Len(tasks'[q]) = n
      /\ \A k \in 1..n : tasks'[q][k] = tasks[q][k + 1]
  BY <1>2, <1>4 DEF PlaceTypes
<1>6. \A r \in Queues : \A k \in 1..Len(tasks'[r]) :
         \/ r # q /\ k \in 1..Len(tasks[r]) /\ tasks'[r][k] = tasks[r][k]
         \/ r = q /\ k + 1 \in 1..Len(tasks[r]) /\ k + 1 # 1 /\ tasks'[r][k] = tasks[r][k + 1]
  BY <1>2, <1>5
<1>7. 1 \in 1..Len(tasks[q])
  BY <1>2
<1>8. /\ x \notin Gone /\ \A s \in Submitters : sjob[s] # x
      /\ \A v \in Workers : job[v] # x
      /\ \A r \in Queues : \A k \in 1..Len(tasks[r]) : tasks[r][k] = x => r = q /\ k = 1
  BY <1>3, <1>7 DEF Apart, QueuesApart
<1>9. Gone' = Gone
  BY <1>4 DEF Gone
<1>10. SubmittersApart' /\ WorkersApart'
  BY <1>4, <1>8, <1>9 DEF PlaceTypes, Apart, SubmittersApart, WorkersApart
<1>11. QueuesApart'
  <2>1. ASSUME NEW r \in Queues, NEW k \in 1..Len(tasks'[r])
        PROVE  \E i \in 1..Len(tasks[r]) : /\ tasks'[r][k] = tasks[r][i] /\ tasks[r][i] # x
                                           /\ i = IF r = q THEN k + 1 ELSE k
    BY <1>6, <1>8
  <2>2. ASSUME NEW r \in Queues, NEW k \in 1..Len(tasks'[r])
        PROVE  /\ tasks'[r][k] \notin Gone /\ (\A s \in Submitters : sjob[s] # tasks'[r][k])
               /\ \A v \in Workers : job'[v] # tasks'[r][k]
    <3>1. PICK i \in 1..Len(tasks[r]) : tasks'[r][k] = tasks[r][i] /\ tasks[r][i] # x
      BY <2>1
    <3>2. \A v \in Workers : job'[v] = x \/ job'[v] = job[v]
      BY <1>4 DEF PlaceTypes
    <3> QED
      BY <3>1, <3>2 DEF Apart, QueuesApart
  <2>3. ASSUME NEW r \in Queues, NEW k \in 1..Len(tasks'[r]),
               NEW u \in Queues, NEW i \in 1..Len(tasks'[u]), tasks'[r][k] = tasks'[u][i]
        PROVE  r = u /\ k = i
    <3>1. PICK a \in 1..Len(tasks[r]) : tasks'[r][k] = tasks[r][a] /\ a = IF r = q THEN k + 1 ELSE k
      BY <2>1
    <3>2. PICK b \in 1..Len(tasks[u]) : tasks'[u][i] = tasks[u][b] /\ b = IF u = q THEN i + 1 ELSE i
      BY <2>1
    <3>0. tasks[r][a] = tasks[u][b]
      BY <2>3, <3>1, <3>2
    <3>3. r = u /\ a = b
      BY <3>0, Zenon DEF Apart, QueuesApart
    <3>4. k \in Int /\ i \in Int
      OBVIOUS
    <3> QED
      BY <3>1, <3>2, <3>3, <3>4
  <2> QED
    <3>1. sjob' = sjob
      BY <1>4
    <3>2. \A r \in Queues : \A k \in 1..Len(tasks'[r]) :
             /\ tasks'[r][k] \notin Gone'
             /\ \A s \in Submitters : sjob'[s] # tasks'[r][k]
             /\ \A v \in Workers : job'[v] # tasks'[r][k]
      BY <1>9, <2>2, <3>1
    <3>3. \A r \in Queues : \A k \in 1..Len(tasks'[r]) :
             \A u \in Queues : \A i \in 1..Len(tasks'[u]) :
                tasks'[u][i] = tasks'[r][k] => u = r /\ i = k
      BY <2>3
    <3> QED
      BY <3>2, <3>3, Zenon DEF QueuesApart
<1>12. Covered'
  <2> SUFFICES ASSUME NEW j \in AllJobs, j \notin Gone, \A s \in Submitters : sjob[s] # j,
                      \A v \in Workers : job'[v] # j /\ child[v] # j
               PROVE  \E r \in Queues : \E k \in 1..Len(tasks'[r]) : tasks'[r][k] = j
    BY <1>4, <1>9 DEF Covered
  <2>1. j # x /\ \A v \in Workers : job[v] # j
    BY <1>4 DEF PlaceTypes
  <2>2. PICK r \in Queues : \E i \in 1..Len(tasks[r]) : tasks[r][i] = j
    BY <2>1 DEF Covered
  <2>3. PICK k \in 1..Len(tasks[r]) : tasks[r][k] = j
    BY <2>2
  <2>4. CASE r = q
    <3>0. k # 1 /\ k \in 1..(n + 1)
      BY <1>2, <1>3, <2>1, <2>3, <2>4
    <3>1. k - 1 \in 1..n /\ (k - 1) + 1 = k
      BY <3>0
    <3>2. tasks'[q][k - 1] = j /\ k - 1 \in 1..Len(tasks'[q])
      BY <1>5, <2>3, <2>4, <3>1
    <3> QED
      BY <3>2
  <2>5. CASE r # q
    BY <1>5, <2>3, <2>5
  <2> QED
    BY <2>4, <2>5
<1> QED
  BY <1>4, <1>10, <1>11, <1>12 DEF Apart

\* A job that ends is run.
LEMMA JobEndApart ==
    ASSUME PlacesInv, NEW w \in Workers, JobEnd(w)
    PROVE  Apart' /\ Covered'
<1> USE JobsAreApart DEF PlacesInv
<1>1. PICK x \in Jobs : x = job[w]
  BY DEF JobEnd, PlaceTypes, Hands
<1>2. /\ ran' = ran \cup {x} /\ job' = [job EXCEPT ![w] = Nobody]
      /\ UNCHANGED <<tasks, sjob, child, fresh, dropped>>
  BY <1>1 DEF JobEnd, dispatchVars, submitVars
<1>3. /\ x \notin Gone /\ Gone' = Gone \cup {x}
      /\ \A v \in Workers : job'[v] # x /\ child[v] # x
      /\ \A s \in Submitters : sjob[s] # x
      /\ \A q \in Queues : \A i \in 1..Len(tasks[q]) : tasks[q][i] # x
  BY <1>1, <1>2 DEF Gone, PlaceTypes, Apart, SubmittersApart, WorkersApart, QueuesApart
<1>4. SubmittersApart'
  BY <1>2, <1>3 DEF PlaceTypes, Apart, SubmittersApart
<1>5. WorkersApart'
  BY <1>2, <1>3 DEF PlaceTypes, Apart, WorkersApart
<1>6. QueuesApart'
  <2>1. \A q \in Queues : \A i \in 1..Len(tasks[q]) : tasks[q][i] \in Jobs
    BY DEF PlaceTypes
  <2>2. \A v \in Workers : job'[v] = Nobody \/ job'[v] = job[v]
    BY <1>2 DEF PlaceTypes
  <2> QED
    BY <1>2, <1>3, <2>1, <2>2 DEF Apart, QueuesApart
<1>7. Covered'
  BY <1>1, <1>2, <1>3 DEF PlaceTypes, Covered
<1>8. fresh \cap ran' = {} /\ dropped \cap (fresh \cup ran') = {}
  BY <1>2, <1>3 DEF Gone, Apart
<1> QED
  BY <1>2, <1>4, <1>5, <1>6, <1>7, <1>8 DEF Apart

LEMMA SubmitNestedApart ==
    ASSUME PlacesInv, NEW w \in Workers, NEW j \in NestedJobs, SubmitNested(w, j)
    PROVE  Apart' /\ Covered'
<1> USE JobsAreApart DEF PlacesInv
<1>1. /\ j \in fresh /\ fresh' = fresh \ {j} /\ child[w] = Nobody
      /\ UNCHANGED <<tasks, sjob, job, ran>>
      /\ \/ dropped' = dropped \cup {j} /\ child' = child
         \/ dropped' = dropped /\ child' = [child EXCEPT ![w] = j]
  BY DEF SubmitNested, dispatchVars, submitVars
<1>2. /\ j \notin ran /\ j \notin dropped
      /\ \A v \in Workers : child[v] # j
  BY <1>1 DEF Gone, PlaceTypes, Apart, WorkersApart
<1>3. Gone' \subseteq Gone /\ Gone \subseteq Gone' \cup {j}
  BY <1>1 DEF Gone
<1>4. SubmittersApart' /\ QueuesApart'
  BY <1>1, <1>3 DEF Apart, SubmittersApart, QueuesApart
<1>5. WorkersApart'
  <2>1. CASE dropped' = dropped \cup {j} /\ child' = child
    BY <1>1, <1>3, <2>1 DEF Apart, WorkersApart
  <2>2. CASE dropped' = dropped /\ child' = [child EXCEPT ![w] = j]
    <3>1. j \notin Gone'
      BY <1>1, <1>2, <2>2 DEF Gone
    <3> QED
      BY <1>1, <1>2, <1>3, <2>2, <3>1 DEF PlaceTypes, Apart, WorkersApart
  <2> QED
    BY <1>1, <2>1, <2>2
<1>6. Covered'
  <2>1. j \in Gone' \/ child'[w] = j
    BY <1>1 DEF Gone, PlaceTypes
  <2>2. \A v \in Workers : child[v] # Nobody => child'[v] = child[v]
    BY <1>1 DEF PlaceTypes
  <2> QED
    BY <1>1, <1>3, <2>1, <2>2 DEF Covered
<1>7. fresh' \cap ran = {} /\ dropped' \cap (fresh' \cup ran) = {}
  BY <1>1, <1>2 DEF Apart
<1> QED
  BY <1>1, <1>4, <1>5, <1>6, <1>7 DEF Apart

LEMMA AsyncRunApart ==
    ASSUME PlacesInv, NEW w \in Workers, AsyncRun(w)
    PROVE  Apart' /\ Covered'
<1> USE JobsAreApart DEF PlacesInv
<1>1. PICK x \in NestedJobs : x = child[w]
  BY DEF AsyncRun, PlaceTypes
<1>2. /\ ran' = ran \cup {x} /\ child' = [child EXCEPT ![w] = Nobody]
      /\ UNCHANGED <<tasks, sjob, job, fresh, dropped>>
  BY <1>1 DEF AsyncRun, dispatchVars, submitVars
<1>3. /\ x \notin Gone /\ Gone' = Gone \cup {x} /\ x \notin Jobs
      /\ \A v \in Workers : child'[v] # x
  BY <1>1, <1>2 DEF Gone, PlaceTypes, Apart, WorkersApart
<1>4. SubmittersApart'
  BY <1>2, <1>3 DEF PlaceTypes, Apart, SubmittersApart
<1>5. WorkersApart'
  BY <1>2, <1>3 DEF PlaceTypes, Apart, WorkersApart
<1>6. QueuesApart'
  <2>1. \A q \in Queues : \A i \in 1..Len(tasks[q]) : tasks[q][i] \in Jobs
    BY DEF PlaceTypes
  <2> QED
    BY <1>2, <1>3, <2>1 DEF Apart, QueuesApart
<1>7. Covered'
  BY <1>1, <1>2, <1>3 DEF PlaceTypes, Covered
<1>8. fresh \cap ran' = {} /\ dropped \cap (fresh \cup ran') = {}
  BY <1>2, <1>3 DEF Gone, Apart
<1> QED
  BY <1>2, <1>4, <1>5, <1>6, <1>7, <1>8 DEF Apart

LEMMA OnlyMovesMove ==
    ASSUME [Next]_vars
    PROVE  \/ UNCHANGED places
           \/ \E s \in Submitters : PushJob(s) \/ \E j \in Jobs : SubmitJob(s, j)
           \/ \E w \in Workers : \/ PopTake(w) \/ JobEnd(w) \/ AsyncRun(w)
                                 \/ \E j \in NestedJobs : SubmitNested(w, j)
<1>1. ASSUME NEW s \in Submitters,
             SubmitCount(s) \/ ExtractLeastBusy(s) \/ InsertLocate(s) \/ InsertLink(s)
      PROVE  UNCHANGED places
  BY <1>1 DEF SubmitCount, ExtractLeastBusy, InsertLocate, InsertLink, places, dispatchVars,
     workerVars, jobVars
<1>2. ASSUME NEW w \in Workers, Searches(w) \/ JobUncount(w) \/ JobStart(w)
      PROVE  UNCHANGED places
  BY <1>2 DEF Searches, Register, LoopHead, PauseTest, PauseBlock, PauseWake, PopRefuse, PopTest,
     PopBlock, PopWake, JobDiscount, JobNotify, JobUncount, JobStart, places, dispatchVars,
     submitVars, jobVars
<1> QED
  BY <1>1, <1>2, OthersLeaveJobs DEF Next, SubmitterStep, WorkerStep, Searches

LEMMA PlacesInit == Init => PlacesInv
<1> SUFFICES ASSUME Init PROVE Apart /\ Covered
  BY RotationInit, HandsInit DEF PlacesInv
<1>1. Apart
  BY DEF Init, Apart, SubmittersApart, WorkersApart, QueuesApart
<1>2. Covered
  BY DEF Init, Covered, Gone
<1> QED
  BY <1>1, <1>2

LEMMA PlacesStep == PlacesInv /\ [Next]_vars => PlacesInv'
<1> SUFFICES ASSUME PlacesInv, [Next]_vars PROVE Apart' /\ Covered'
  BY RotationStep, HandsStep DEF PlacesInv
<1>1. CASE UNCHANGED places
  BY <1>1 DEF PlacesInv, places, Apart, Covered, Gone, SubmittersApart, WorkersApart, QueuesApart
<1> QED
  BY <1>1, OnlyMovesMove, SubmitJobApart, PushJobApart, PopTakeApart, JobEndApart,
     SubmitNestedApart, AsyncRunApart

-----------------------------------------------------------------------------
(* The numbers of the jobs in each place. *)

LEMMA AddOne ==
    ASSUME NEW S, NEW x, IsFiniteSet(S), x \notin S
    PROVE  Cardinality(S \cup {x}) = Cardinality(S) + 1
BY FS_AddElement

LEMMA DropOne ==
    ASSUME NEW S, NEW x \in S, IsFiniteSet(S)
    PROVE  Cardinality(S \ {x}) = Cardinality(S) - 1
BY FS_RemoveElement

LEMMA PartsAreFinite ==
    ASSUME PlaceTypes
    PROVE  /\ IsFiniteSet(fresh \cap Jobs) /\ Cardinality(fresh \cap Jobs) \in Nat
           /\ IsFiniteSet(ran \cap Jobs) /\ Cardinality(ran \cap Jobs) \in Nat
           /\ IsFiniteSet(fresh \cap NestedJobs) /\ Cardinality(fresh \cap NestedJobs) \in Nat
           /\ IsFiniteSet(ran \cap NestedJobs) /\ Cardinality(ran \cap NestedJobs) \in Nat
           /\ IsFiniteSet(dropped) /\ Cardinality(dropped) \in Nat
           /\ IsFiniteSet(Submitting) /\ Cardinality(Submitting) \in Nat
           /\ IsFiniteSet(Busy) /\ Cardinality(Busy) \in Nat
           /\ IsFiniteSet(Parents) /\ Cardinality(Parents) \in Nat
           /\ IsFiniteSet(SlotSet) /\ Cardinality(SlotSet) \in Nat
           /\ Cardinality(Jobs) \in Nat /\ Cardinality(NestedJobs) \in Nat
<1>1. \A S \in SUBSET Jobs : IsFiniteSet(S) /\ Cardinality(S) \in Nat
  BY FS_Subset, FS_CardinalityType, ThreadPoolAssumption DEF ThreadPoolAssumption
<1>2. \A S \in SUBSET NestedJobs : IsFiniteSet(S) /\ Cardinality(S) \in Nat
  BY FS_Subset, FS_CardinalityType, ThreadPoolAssumption DEF ThreadPoolAssumption
<1>3. \A S \in SUBSET Workers : IsFiniteSet(S) /\ Cardinality(S) \in Nat
  BY FS_Subset, FS_CardinalityType, ThreadPoolAssumption DEF ThreadPoolAssumption
<1>4. \A S \in SUBSET Submitters : IsFiniteSet(S) /\ Cardinality(S) \in Nat
  BY FS_Subset, FS_CardinalityType, ThreadPoolAssumption DEF ThreadPoolAssumption
<1>5. IsFiniteSet(SlotSet) /\ Cardinality(SlotSet) \in Nat
  <2>1. IsFiniteSet(Queues) /\ IsFiniteSet(1..Cardinality(Jobs))
    BY <1>1, FS_Interval, ThreadPoolAssumption DEF ThreadPoolAssumption
  <2>2. IsFiniteSet(Queues \X (1..Cardinality(Jobs)))
    BY <2>1, FS_Product
  <2> QED
    BY <2>2, FS_Subset, FS_CardinalityType DEF SlotSet
<1>6. IsFiniteSet(Submitting) /\ Cardinality(Submitting) \in Nat
  BY <1>4 DEF Submitting
<1>7. /\ IsFiniteSet(Busy) /\ Cardinality(Busy) \in Nat
      /\ IsFiniteSet(Parents) /\ Cardinality(Parents) \in Nat
  BY <1>3 DEF Busy, Parents
<1>8. /\ IsFiniteSet(fresh \cap Jobs) /\ Cardinality(fresh \cap Jobs) \in Nat
      /\ IsFiniteSet(ran \cap Jobs) /\ Cardinality(ran \cap Jobs) \in Nat
      /\ Cardinality(Jobs) \in Nat
  BY <1>1
<1>9. /\ IsFiniteSet(fresh \cap NestedJobs) /\ Cardinality(fresh \cap NestedJobs) \in Nat
      /\ IsFiniteSet(ran \cap NestedJobs) /\ Cardinality(ran \cap NestedJobs) \in Nat
      /\ IsFiniteSet(dropped) /\ Cardinality(dropped) \in Nat
      /\ Cardinality(NestedJobs) \in Nat
  BY <1>2 DEF PlaceTypes
<1> QED
  BY <1>5, <1>6, <1>7, <1>8, <1>9

\* A queue never holds more jobs than there are.
LEMMA QueueIsShort ==
    ASSUME PlaceTypes, JobAccount, NEW q \in Queues
    PROVE  /\ Len(tasks[q]) <= Cardinality(SlotSet)
           /\ Submitting # {} => Len(tasks[q]) < Cardinality(Jobs)
<1> DEFINE n == Len(tasks[q])
           T == {q} \X (1..n)
<1>1. n \in Nat /\ n <= Cardinality(Jobs)
  BY DEF PlaceTypes, JobAccount
<1> HIDE DEF n
<1>2. T \subseteq SlotSet
  BY <1>1, PartsAreFinite DEF SlotSet, n
<1>3. IsFiniteSet(T) /\ Cardinality(T) = n
  <2>1. IsFiniteSet({q}) /\ Cardinality({q}) = 1
    BY FS_Singleton
  <2>2. IsFiniteSet(1..n) /\ Cardinality(1..n) = n
    BY <1>1, FS_Interval
  <2>3. IsFiniteSet(T) /\ Cardinality(T) = Cardinality({q}) * Cardinality(1..n)
    BY <2>1, <2>2, FS_Product
  <2> QED
    BY <1>1, <2>1, <2>2, <2>3
<1>4. n <= Cardinality(SlotSet)
  BY <1>2, <1>3, PartsAreFinite, FS_Subset
<1>5. Submitting # {} => Cardinality(Submitting) # 0
  BY PartsAreFinite, FS_EmptySet
<1>6. Submitting # {} => n < Cardinality(Jobs)
  BY <1>1, <1>4, <1>5, PartsAreFinite DEF JobAccount
<1> QED
  BY <1>4, <1>6 DEF n

Accounts == JobAccount /\ NestedAccount

LEMMA SubmitJobAccounts ==
    ASSUME PlacesInv, Accounts, NEW s \in Submitters, NEW j \in Jobs, SubmitJob(s, j)
    PROVE  Accounts'
<1> USE JobsAreApart DEF PlacesInv, Accounts
<1>1. /\ j \in fresh /\ fresh' = fresh \ {j} /\ sjob' = [sjob EXCEPT ![s] = j] /\ sjob[s] = Nobody
      /\ UNCHANGED <<tasks, job, child, ran, dropped>>
  BY DEF SubmitJob, Hands, dispatchVars, workerVars
<1>2. Cardinality(fresh' \cap Jobs) = Cardinality(fresh \cap Jobs) - 1
  <2>1. fresh' \cap Jobs = (fresh \cap Jobs) \ {j} /\ j \in fresh \cap Jobs
    BY <1>1
  <2> QED
    BY <2>1, DropOne, PartsAreFinite
<1>3. Cardinality(Submitting') = Cardinality(Submitting) + 1
  <2>1. Submitting' = Submitting \cup {s} /\ s \notin Submitting
    BY <1>1 DEF Submitting, PlaceTypes
  <2> QED
    BY <2>1, AddOne, PartsAreFinite
<1>4. /\ Busy' = Busy /\ Parents' = Parents /\ SlotSet' = SlotSet
      /\ fresh' \cap NestedJobs = fresh \cap NestedJobs
  BY <1>1 DEF Busy, Parents, SlotSet
<1>5. JobAccount'
  BY <1>1, <1>2, <1>3, <1>4, PartsAreFinite DEF JobAccount
<1>6. NestedAccount'
  BY <1>1, <1>4 DEF NestedAccount
<1> QED
  BY <1>5, <1>6

\* A push fills one more place of a queue ...
LEMMA PushFillsSlot ==
    ASSUME PlacesInv, Accounts, NEW s \in Submitters, PushJob(s)
    PROVE  /\ Cardinality(SlotSet') = Cardinality(SlotSet) + 1
           /\ \A q \in Queues : Len(tasks'[q]) <= Cardinality(Jobs)
<1> USE JobsAreApart DEF PlacesInv, Accounts
<1>1. PICK q \in Queues : q = squeue[s]
  BY DEF PushJob, RotationInv, RotationTypes, RotationLock, Holding
<1>2. PICK n \in Nat : n = Len(tasks[q])
  BY DEF PlaceTypes
<1>3. sjob[s] \in Jobs /\ s \in Submitting
  BY DEF PushJob, PlaceTypes, Hands, Submitting
<1>4. /\ \A r \in Queues : r # q => tasks'[r] = tasks[r]
      /\ Len(tasks'[q]) = n + 1
  BY <1>1, <1>2, <1>3 DEF PushJob, PlaceTypes
<1>5. PICK max \in Nat : max = Cardinality(Jobs)
  BY PartsAreFinite
<1>6. n < max /\ \A r \in Queues : Len(tasks[r]) \in Nat /\ Len(tasks[r]) <= max
  BY <1>2, <1>3, <1>5, QueueIsShort DEF PlaceTypes, JobAccount
<1>7. <<q, n + 1>> \in Queues \X (1..max) /\ <<q, n + 1>> \notin SlotSet
  BY <1>2, <1>6 DEF SlotSet
<1>8. SlotSet' = SlotSet \cup {<<q, n + 1>>}
  <2>1. SlotSet' = {x \in Queues \X (1..max) : x[2] <= Len(tasks'[x[1]])}
    BY <1>5 DEF SlotSet
  <2>2. SlotSet = {x \in Queues \X (1..max) : x[2] <= Len(tasks[x[1]])}
    BY <1>5 DEF SlotSet
  <2>3. ASSUME NEW r \in Queues, NEW k \in 1..max
        PROVE  k <= Len(tasks'[r]) <=> k <= Len(tasks[r]) \/ <<r, k>> = <<q, n + 1>>
    BY <1>2, <1>4
  <2> QED
    BY <1>7, <2>1, <2>2, <2>3
<1>9. Cardinality(SlotSet') = Cardinality(SlotSet) + 1
  BY <1>7, <1>8, AddOne, PartsAreFinite
<1>10. ASSUME NEW r \in Queues PROVE Len(tasks'[r]) <= max
  BY <1>2, <1>4, <1>6
<1> QED
  BY <1>5, <1>9, <1>10

\* ... and a pop empties one.
LEMMA PopFreesSlot ==
    ASSUME PlacesInv, Accounts, NEW w \in Workers, PopTake(w)
    PROVE  /\ Cardinality(SlotSet') = Cardinality(SlotSet) - 1
           /\ \A q \in Queues : Len(tasks'[q]) <= Cardinality(Jobs)
<1> USE JobsAreApart DEF PlacesInv, Accounts
<1>1. PICK q \in Queues : q = QueueOf[w]
  BY ThreadPoolAssumption DEF ThreadPoolAssumption
<1>2. PICK n \in Nat : Len(tasks[q]) = n + 1
  <2>1. tasks[q] \in Seq(Jobs) /\ tasks[q] # <<>>
    BY <1>1 DEF PopTake, PlaceTypes
  <2>2. Len(tasks[q]) \in Nat /\ Len(tasks[q]) # 0
    BY <2>1
  <2>3. Len(tasks[q]) - 1 \in Nat /\ Len(tasks[q]) = (Len(tasks[q]) - 1) + 1
    BY <2>2
  <2> QED
    BY <2>3
<1>4. /\ \A r \in Queues : r # q => tasks'[r] = tasks[r]
      /\ Len(tasks'[q]) = n
  BY <1>1, <1>2 DEF PopTake, PlaceTypes
<1>5. PICK max \in Nat : max = Cardinality(Jobs)
  BY PartsAreFinite
<1>6. \A r \in Queues : Len(tasks[r]) \in Nat /\ Len(tasks[r]) <= max
  BY <1>5 DEF PlaceTypes, JobAccount
<1>7. <<q, n + 1>> \in SlotSet
  BY <1>2, <1>5, <1>6 DEF SlotSet
<1>8. SlotSet' = SlotSet \ {<<q, n + 1>>}
  <2>1. SlotSet' = {x \in Queues \X (1..max) : x[2] <= Len(tasks'[x[1]])}
    BY <1>5 DEF SlotSet
  <2>2. SlotSet = {x \in Queues \X (1..max) : x[2] <= Len(tasks[x[1]])}
    BY <1>5 DEF SlotSet
  <2>3. ASSUME NEW r \in Queues, NEW k \in 1..max
        PROVE  k <= Len(tasks'[r]) <=> k <= Len(tasks[r]) /\ <<r, k>> # <<q, n + 1>>
    BY <1>2, <1>4
  <2> QED
    BY <1>7, <2>1, <2>2, <2>3
<1>9. Len(tasks'[q]) <= max
  BY <1>2, <1>4, <1>6
<1> QED
  BY <1>4, <1>5, <1>6, <1>7, <1>8, <1>9, DropOne, PartsAreFinite

LEMMA PushJobAccounts ==
    ASSUME PlacesInv, Accounts, NEW s \in Submitters, PushJob(s)
    PROVE  Accounts'
<1> USE JobsAreApart DEF PlacesInv, Accounts
<1>1. /\ sjob' = [sjob EXCEPT ![s] = Nobody] /\ sjob[s] # Nobody
      /\ UNCHANGED <<job, child, fresh, ran, dropped>>
  BY DEF PushJob, Hands, workerVars, jobVars
<1>2. Cardinality(Submitting') = Cardinality(Submitting) - 1
  <2>1. Submitting' = Submitting \ {s} /\ s \in Submitting
    BY <1>1 DEF Submitting, PlaceTypes
  <2> QED
    BY <2>1, DropOne, PartsAreFinite
<1>3. Busy' = Busy /\ Parents' = Parents
  BY <1>1 DEF Busy, Parents
<1>4. JobAccount'
  BY <1>1, <1>2, <1>3, PushFillsSlot, PartsAreFinite DEF JobAccount
<1>5. NestedAccount'
  BY <1>1, <1>3 DEF NestedAccount
<1> QED
  BY <1>4, <1>5

LEMMA PopTakeAccounts ==
    ASSUME PlacesInv, Accounts, NEW w \in Workers, PopTake(w)
    PROVE  Accounts'
<1> USE JobsAreApart DEF PlacesInv, Accounts
<1>1. /\ \E x \in Jobs : job' = [job EXCEPT ![w] = x]
      /\ job[w] = Nobody
      /\ UNCHANGED <<sjob, child, fresh, ran, dropped>>
  <2>1. Head(tasks[QueueOf[w]]) \in Jobs
    <3>1. tasks[QueueOf[w]] \in Seq(Jobs) /\ tasks[QueueOf[w]] # <<>>
      BY ThreadPoolAssumption DEF PopTake, PlaceTypes, ThreadPoolAssumption
    <3> QED
      BY <3>1
  <2> QED
    BY <2>1 DEF PopTake, Hands, submitVars, jobVars
<1>2. Cardinality(Busy') = Cardinality(Busy) + 1
  <2>1. Busy' = Busy \cup {w} /\ w \notin Busy
    BY <1>1 DEF Busy, PlaceTypes
  <2> QED
    BY <2>1, AddOne, PartsAreFinite
<1>3. Submitting' = Submitting /\ Parents' = Parents
  BY <1>1 DEF Submitting, Parents
<1>4. JobAccount'
  BY <1>1, <1>2, <1>3, PopFreesSlot, PartsAreFinite DEF JobAccount
<1>5. NestedAccount'
  BY <1>1, <1>3 DEF NestedAccount
<1> QED
  BY <1>4, <1>5

LEMMA JobEndAccounts ==
    ASSUME PlacesInv, Accounts, NEW w \in Workers, JobEnd(w)
    PROVE  Accounts'
<1> USE JobsAreApart DEF PlacesInv, Accounts
<1>1. PICK x \in Jobs : x = job[w]
  BY DEF JobEnd, PlaceTypes, Hands
<1>2. /\ ran' = ran \cup {x} /\ job' = [job EXCEPT ![w] = Nobody] /\ x \notin ran
      /\ UNCHANGED <<tasks, sjob, child, fresh, dropped>>
  BY <1>1 DEF JobEnd, dispatchVars, submitVars, Apart, WorkersApart, Gone
<1>3. Cardinality(ran' \cap Jobs) = Cardinality(ran \cap Jobs) + 1
  <2>1. ran' \cap Jobs = (ran \cap Jobs) \cup {x} /\ x \notin ran \cap Jobs
    BY <1>2
  <2> QED
    BY <2>1, AddOne, PartsAreFinite
<1>4. Cardinality(Busy') = Cardinality(Busy) - 1
  <2>1. Busy' = Busy \ {w} /\ w \in Busy
    BY <1>1, <1>2 DEF Busy, PlaceTypes
  <2> QED
    BY <2>1, DropOne, PartsAreFinite
<1>5. /\ Submitting' = Submitting /\ Parents' = Parents /\ SlotSet' = SlotSet
      /\ ran' \cap NestedJobs = ran \cap NestedJobs
  BY <1>2 DEF Submitting, Parents, SlotSet
<1>6. JobAccount'
  BY <1>2, <1>3, <1>4, <1>5, PartsAreFinite DEF JobAccount
<1>7. NestedAccount'
  BY <1>2, <1>5 DEF NestedAccount
<1> QED
  BY <1>6, <1>7

LEMMA SubmitNestedAccounts ==
    ASSUME PlacesInv, Accounts, NEW w \in Workers, NEW j \in NestedJobs, SubmitNested(w, j)
    PROVE  Accounts'
<1> USE JobsAreApart DEF PlacesInv, Accounts
<1>1. /\ j \in fresh /\ fresh' = fresh \ {j} /\ child[w] = Nobody /\ j \notin dropped
      /\ UNCHANGED <<tasks, sjob, job, ran>>
      /\ \/ dropped' = dropped \cup {j} /\ child' = child
         \/ dropped' = dropped /\ child' = [child EXCEPT ![w] = j]
  BY DEF SubmitNested, dispatchVars, submitVars, Apart
<1>2. Cardinality(fresh' \cap NestedJobs) = Cardinality(fresh \cap NestedJobs) - 1
  <2>1. fresh' \cap NestedJobs = (fresh \cap NestedJobs) \ {j} /\ j \in fresh \cap NestedJobs
    BY <1>1
  <2> QED
    BY <2>1, DropOne, PartsAreFinite
<1>3. /\ Submitting' = Submitting /\ Busy' = Busy /\ SlotSet' = SlotSet
      /\ fresh' \cap Jobs = fresh \cap Jobs
  BY <1>1 DEF Submitting, Busy, SlotSet
<1>4. JobAccount'
  BY <1>1, <1>3 DEF JobAccount
<1>5. CASE dropped' = dropped \cup {j} /\ child' = child
  <2>1. Cardinality(dropped') = Cardinality(dropped) + 1 /\ Parents' = Parents
    BY <1>1, <1>5, AddOne, PartsAreFinite DEF Parents
  <2> QED
    BY <1>1, <1>2, <1>4, <2>1, PartsAreFinite DEF NestedAccount
<1>6. CASE dropped' = dropped /\ child' = [child EXCEPT ![w] = j]
  <2>1. Parents' = Parents \cup {w} /\ w \notin Parents
    BY <1>1, <1>6 DEF Parents, PlaceTypes
  <2>2. Cardinality(Parents') = Cardinality(Parents) + 1
    BY <2>1, AddOne, PartsAreFinite
  <2> QED
    BY <1>1, <1>2, <1>4, <1>6, <2>2, PartsAreFinite DEF NestedAccount
<1> QED
  BY <1>1, <1>5, <1>6

LEMMA AsyncRunAccounts ==
    ASSUME PlacesInv, Accounts, NEW w \in Workers, AsyncRun(w)
    PROVE  Accounts'
<1> USE JobsAreApart DEF PlacesInv, Accounts
<1>1. PICK x \in NestedJobs : x = child[w]
  BY DEF AsyncRun, PlaceTypes
<1>2. /\ ran' = ran \cup {x} /\ child' = [child EXCEPT ![w] = Nobody] /\ x \notin ran
      /\ UNCHANGED <<tasks, sjob, job, fresh, dropped>>
  BY <1>1 DEF AsyncRun, dispatchVars, submitVars, Apart, WorkersApart, Gone
<1>3. Cardinality(ran' \cap NestedJobs) = Cardinality(ran \cap NestedJobs) + 1
  <2>1. ran' \cap NestedJobs = (ran \cap NestedJobs) \cup {x} /\ x \notin ran \cap NestedJobs
    BY <1>2
  <2> QED
    BY <2>1, AddOne, PartsAreFinite
<1>4. Cardinality(Parents') = Cardinality(Parents) - 1
  <2>1. Parents' = Parents \ {w} /\ w \in Parents
    BY <1>1, <1>2 DEF Parents, PlaceTypes
  <2> QED
    BY <2>1, DropOne, PartsAreFinite
<1>5. /\ Submitting' = Submitting /\ Busy' = Busy /\ SlotSet' = SlotSet
      /\ ran' \cap Jobs = ran \cap Jobs
  BY <1>2 DEF Submitting, Busy, SlotSet
<1>6. JobAccount'
  BY <1>2, <1>5 DEF JobAccount
<1>7. NestedAccount'
  BY <1>2, <1>3, <1>4, PartsAreFinite DEF NestedAccount
<1> QED
  BY <1>6, <1>7

LEMMA AccountsInit == Init => Accounts
<1> SUFFICES ASSUME Init PROVE Accounts
  OBVIOUS
<1>1. /\ fresh \cap Jobs = Jobs /\ ran \cap Jobs = {} /\ Submitting = {} /\ Busy = {}
      /\ fresh \cap NestedJobs = NestedJobs /\ ran \cap NestedJobs = {} /\ dropped = {}
      /\ Parents = {} /\ \A q \in Queues : Len(tasks[q]) = 0
  BY DEF Init, AllJobs, Submitting, Busy, Parents
<1>2. SlotSet = {}
  BY <1>1 DEF SlotSet
<1>3. Cardinality(Jobs) \in Nat /\ Cardinality(NestedJobs) \in Nat /\ Cardinality({}) = 0
  BY HandsInit, PartsAreFinite, FS_EmptySet
<1>4. /\ Cardinality(fresh \cap Jobs) = Cardinality(Jobs) /\ Cardinality(ran \cap Jobs) = 0
      /\ Cardinality(fresh \cap NestedJobs) = Cardinality(NestedJobs)
      /\ Cardinality(ran \cap NestedJobs) = 0 /\ Cardinality(dropped) = 0
      /\ Cardinality(Submitting) = 0 /\ Cardinality(Busy) = 0 /\ Cardinality(Parents) = 0
      /\ Cardinality(SlotSet) = 0
  BY <1>1, <1>2, <1>3, Zenon
<1>5. JobAccount
  BY <1>1, <1>3, <1>4 DEF JobAccount
<1>6. NestedAccount
  BY <1>3, <1>4 DEF NestedAccount
<1> QED
  BY <1>5, <1>6 DEF Accounts

LEMMA AccountsStep == PlacesInv /\ Accounts /\ [Next]_vars => Accounts'
<1> SUFFICES ASSUME PlacesInv, Accounts, [Next]_vars PROVE Accounts'
  OBVIOUS
<1>1. CASE UNCHANGED places
  BY <1>1 DEF places, Accounts, JobAccount, NestedAccount, Submitting, Busy, Parents, SlotSet
<1> QED
  BY <1>1, OnlyMovesMove, SubmitJobAccounts, PushJobAccounts, PopTakeAccounts, JobEndAccounts,
     SubmitNestedAccounts, AsyncRunAccounts

LEMMA AccountsHold == Spec => [](PlacesInv /\ Accounts)
BY PlacesInit, PlacesStep, AccountsInit, AccountsStep, PTL DEF Spec

\* A job that has been submitted is never lost and never in two places, for any
\* number of jobs, queues and threads (thread_pool.h:28-45,
\* thread_pool.cpp:44-56).
THEOREM JobsAreKept == Spec => []JobInOnePlace
<1>1. PlacesInv /\ Accounts => JobInOnePlace
  <2> SUFFICES ASSUME PlacesInv, Accounts PROVE JobInOnePlace
    OBVIOUS
  <2> USE JobsAreApart DEF PlacesInv
  <2>1. AllJobs \subseteq UNION {fresh, Submitted, Queued, Taken, Spawned, ran, dropped}
    <3> SUFFICES ASSUME NEW j \in AllJobs, j \notin Gone
                 PROVE  j \in Submitted \/ j \in Queued \/ j \in Taken \/ j \in Spawned
      BY DEF Gone
    <3>1. (\E s \in Submitters : sjob[s] = j) => j \in Submitted
      BY DEF Submitted
    <3>2. (\E w \in Workers : job[w] = j \/ child[w] = j) => j \in Taken \/ j \in Spawned
      BY DEF Taken, Spawned
    <3>3. (\E q \in Queues : \E i \in 1..Len(tasks[q]) : tasks[q][i] = j) => j \in Queued
      BY DEF Queued, Elements
    <3> QED
      BY <3>1, <3>2, <3>3 DEF Covered
  <2>2. UNION {fresh, Submitted, Queued, Taken, Spawned, ran, dropped} \subseteq AllJobs
    <3>1. Submitted \subseteq AllJobs /\ Taken \subseteq AllJobs /\ Spawned \subseteq AllJobs
      BY DEF Submitted, Taken, Spawned, PlaceTypes
    <3>2. Queued \subseteq AllJobs
      BY DEF Queued, Elements, PlaceTypes
    <3> QED
      BY <3>1, <3>2 DEF PlaceTypes
  <2>3. \A S \in SUBSET AllJobs :
           /\ IsFiniteSet(S \cap Jobs) /\ IsFiniteSet(S \cap NestedJobs)
           /\ Cardinality(S) = Cardinality(S \cap Jobs) + Cardinality(S \cap NestedJobs)
    <3> SUFFICES ASSUME NEW S \in SUBSET AllJobs
                 PROVE  /\ IsFiniteSet(S \cap Jobs) /\ IsFiniteSet(S \cap NestedJobs)
                        /\ Cardinality(S) = Cardinality(S \cap Jobs) + Cardinality(S \cap NestedJobs)
      OBVIOUS
    <3>1. IsFiniteSet(S \cap Jobs) /\ IsFiniteSet(S \cap NestedJobs)
      BY FS_Subset, ThreadPoolAssumption DEF ThreadPoolAssumption
    <3>2. /\ S = (S \cap Jobs) \cup (S \cap NestedJobs)
          /\ (S \cap Jobs) \cap (S \cap NestedJobs) = {}
      BY DEF AllJobs
    <3>3. Cardinality((S \cap Jobs) \cup (S \cap NestedJobs)) =
             Cardinality(S \cap Jobs) + Cardinality(S \cap NestedJobs)
               - Cardinality((S \cap Jobs) \cap (S \cap NestedJobs))
      BY <3>1, FS_Union
    <3>4. Cardinality(S \cap Jobs) \in Nat /\ Cardinality(S \cap NestedJobs) \in Nat
      BY <3>1, FS_CardinalityType
    <3>5. Cardinality((S \cap Jobs) \cap (S \cap NestedJobs)) = 0
      BY <3>2, FS_EmptySet
    <3>6. Cardinality(S) = Cardinality((S \cap Jobs) \cup (S \cap NestedJobs))
      BY <3>2
    <3> QED
      BY <3>1, <3>3, <3>4, <3>5, <3>6
  <2>4. /\ Cardinality(fresh) = Cardinality(fresh \cap Jobs) + Cardinality(fresh \cap NestedJobs)
        /\ Cardinality(ran) = Cardinality(ran \cap Jobs) + Cardinality(ran \cap NestedJobs)
    BY <2>3 DEF PlaceTypes
  <2>5. Cardinality(AllJobs) = Cardinality(Jobs) + Cardinality(NestedJobs)
    <3>1. AllJobs \cap Jobs = Jobs /\ AllJobs \cap NestedJobs = NestedJobs
      OBVIOUS
    <3> QED
      BY <2>3, <3>1
  <2>6. QueuedCount = Cardinality(SlotSet)
    BY DEF QueuedCount, SlotSet
  <2>7. Cardinality(fresh) + Cardinality(ran) + Cardinality(dropped) + Cardinality(Submitting)
          + Cardinality(Busy) + Cardinality(Parents) + QueuedCount = Cardinality(AllJobs)
    <3>1. Cardinality(fresh \cap Jobs) + Cardinality(ran \cap Jobs) + Cardinality(Submitting)
            + Cardinality(Busy) + Cardinality(SlotSet) = Cardinality(Jobs)
      BY DEF Accounts, JobAccount
    <3>2. Cardinality(fresh \cap NestedJobs) + Cardinality(ran \cap NestedJobs)
            + Cardinality(dropped) + Cardinality(Parents) = Cardinality(NestedJobs)
      BY DEF Accounts, NestedAccount
    <3> QED
      BY <2>4, <2>5, <2>6, <3>1, <3>2, PartsAreFinite
  <2> QED
    BY <2>1, <2>2, <2>7 DEF JobInOnePlace, Submitting, Busy, Parents
<1> QED
  BY <1>1, AccountsHold, PTL

-----------------------------------------------------------------------------
(* The two counters of the pool. *)

Announced == {s \in Submitters : spc[s] \in {"extract", "push", "lost"}}
Claiming == {w \in Workers : wpc[w] = "got"}
Running == {w \in Workers : wpc[w] \in {"running", "ended"}}

LEMMA CountedAreFinite ==
    /\ IsFiniteSet(Announced) /\ Cardinality(Announced) \in Nat
    /\ IsFiniteSet(Claiming) /\ Cardinality(Claiming) \in Nat
    /\ IsFiniteSet(Running) /\ Cardinality(Running) \in Nat
<1>1. Announced \subseteq Submitters /\ Claiming \subseteq Workers /\ Running \subseteq Workers
  BY DEF Announced, Claiming, Running
<1> QED
  BY <1>1, FS_Subset, FS_CardinalityType, ThreadPoolAssumption DEF ThreadPoolAssumption

\* CountersAccount, with the sets named.
CounterInv ==
    /\ m_jobCount = Cardinality(Announced) + Cardinality(SlotSet) + Cardinality(Claiming)
    /\ m_runningJobCount = Cardinality(Running)

LEMMA CounterInit == Init => CounterInv
<1> SUFFICES ASSUME Init PROVE CounterInv
  OBVIOUS
<1>1. Announced = {} /\ Claiming = {} /\ Running = {}
  BY DEF Init, Announced, Claiming, Running
<1>2. SlotSet = {}
  BY DEF Init, SlotSet
<1>3. /\ Cardinality(Announced) = 0 /\ Cardinality(Claiming) = 0 /\ Cardinality(Running) = 0
      /\ Cardinality(SlotSet) = 0
  BY <1>1, <1>2, FS_EmptySet, Zenon
<1> QED
  BY <1>3 DEF Init, CounterInv

\* A submitter adds to m_jobCount what it is about to push.
LEMMA SubmitterCounts ==
    ASSUME PlacesInv, Accounts, CounterInv, NEW s \in Submitters,
           SubmitterStep(s) \/ \E j \in Jobs : SubmitJob(s, j)
    PROVE  CounterInv'
<1>0. /\ Cardinality(Announced) \in Nat /\ Cardinality(SlotSet) \in Nat /\ Cardinality(Claiming) \in Nat
      /\ m_jobCount = Cardinality(Announced) + Cardinality(SlotSet) + Cardinality(Claiming)
      /\ m_runningJobCount = Cardinality(Running)
  BY CountedAreFinite, PartsAreFinite DEF CounterInv, PlacesInv
<1> USE DEF PlacesInv, RotationInv, RotationTypes, PlaceTypes, SGoto, dispatchVars, counters,
            workerVars
<1>1. Claiming' = Claiming /\ Running' = Running /\ m_runningJobCount' = m_runningJobCount
  BY DEF SubmitterStep, SubmitCount, ExtractLeastBusy, PushJob, InsertLocate, InsertLink, SubmitJob,
     Claiming, Running
<1>2. CASE SubmitCount(s)
  <2>1. Announced' = Announced \cup {s} /\ s \notin Announced
    BY <1>2 DEF SubmitCount, Announced
  <2>2. Cardinality(Announced') = Cardinality(Announced) + 1
    BY <2>1, AddOne, CountedAreFinite
  <2>3. SlotSet' = SlotSet /\ m_jobCount' = m_jobCount + 1
    BY <1>2 DEF SubmitCount, SlotSet
  <2> QED
    BY <1>1, <2>2, <2>3, <1>0 DEF CounterInv
<1>3. CASE PushJob(s)
  <2>1. Announced' = Announced \ {s} /\ s \in Announced
    BY <1>3 DEF PushJob, Announced
  <2>2. Cardinality(Announced') = Cardinality(Announced) - 1
    BY <2>1, DropOne, CountedAreFinite
  <2>3. Cardinality(SlotSet') = Cardinality(SlotSet) + 1 /\ m_jobCount' = m_jobCount
    BY <1>3, PushFillsSlot DEF PushJob
  <2> QED
    BY <1>1, <2>2, <2>3, <1>0 DEF CounterInv
<1>4. ASSUME ExtractLeastBusy(s) \/ InsertLocate(s) \/ InsertLink(s) \/ \E j \in Jobs : SubmitJob(s, j)
      PROVE  CounterInv'
  <2>1. Announced' = Announced
    BY <1>4 DEF ExtractLeastBusy, InsertLocate, InsertLink, SubmitJob, Announced
  <2>2. SlotSet' = SlotSet /\ m_jobCount' = m_jobCount
    BY <1>4 DEF ExtractLeastBusy, InsertLocate, InsertLink, SubmitJob, SlotSet
  <2> QED
    BY <1>1, <2>1, <2>2 DEF CounterInv
<1> QED
  BY <1>2, <1>3, <1>4 DEF SubmitterStep

\* A worker takes the job it has claimed off m_jobCount and counts it as running
\* until it has ended.
LEMMA WorkerCounts ==
    ASSUME PlacesInv, Accounts, CounterInv, NEW w \in Workers,
           WorkerStep(w) \/ AsyncRun(w) \/ \E j \in NestedJobs : SubmitNested(w, j)
    PROVE  CounterInv'
<1>0. /\ Cardinality(Announced) \in Nat /\ Cardinality(SlotSet) \in Nat /\ Cardinality(Claiming) \in Nat
      /\ m_jobCount = Cardinality(Announced) + Cardinality(SlotSet) + Cardinality(Claiming)
      /\ m_runningJobCount = Cardinality(Running)
  BY CountedAreFinite, PartsAreFinite DEF CounterInv, PlacesInv
<1> USE DEF PlacesInv, PlaceTypes, WGoto, dispatchVars, counters, submitVars
<1>1. Announced' = Announced
  BY DEF WorkerStep, Register, LoopHead, PauseTest, PauseBlock, PauseWake, PopTake, PopRefuse,
     PopTest, PopBlock, PopWake, JobUncount, JobStart, JobEnd, JobDiscount, JobNotify, AsyncRun,
     SubmitNested, Announced
<1>2. CASE PopTake(w)
  <2>1. Claiming' = Claiming \cup {w} /\ w \notin Claiming /\ Running' = Running
    BY <1>2 DEF PopTake, Claiming, Running
  <2>2. Cardinality(Claiming') = Cardinality(Claiming) + 1
    BY <2>1, AddOne, CountedAreFinite
  <2>3. Cardinality(SlotSet') = Cardinality(SlotSet) - 1 /\ UNCHANGED counters
    BY <1>2, PopFreesSlot DEF PopTake
  <2> QED
    BY <1>1, <2>1, <2>2, <2>3, <1>0 DEF CounterInv
<1>3. CASE JobUncount(w)
  <2>1. Claiming' = Claiming \ {w} /\ w \in Claiming /\ Running' = Running
    BY <1>3 DEF JobUncount, Claiming, Running
  <2>2. Cardinality(Claiming') = Cardinality(Claiming) - 1
    BY <2>1, DropOne, CountedAreFinite
  <2>3. SlotSet' = SlotSet /\ m_jobCount' = m_jobCount - 1 /\ m_runningJobCount' = m_runningJobCount
    BY <1>3 DEF JobUncount, SlotSet
  <2> QED
    BY <1>1, <2>1, <2>2, <2>3, <1>0 DEF CounterInv
<1>4. CASE JobStart(w)
  <2>1. Running' = Running \cup {w} /\ w \notin Running /\ Claiming' = Claiming
    BY <1>4 DEF JobStart, Claiming, Running
  <2>2. Cardinality(Running') = Cardinality(Running) + 1
    BY <2>1, AddOne, CountedAreFinite
  <2>3. SlotSet' = SlotSet /\ m_jobCount' = m_jobCount /\ m_runningJobCount' = m_runningJobCount + 1
    BY <1>4 DEF JobStart, SlotSet
  <2> QED
    BY <1>1, <2>1, <2>2, <2>3 DEF CounterInv
<1>5. CASE JobDiscount(w)
  <2>1. Running' = Running \ {w} /\ w \in Running /\ Claiming' = Claiming
    BY <1>5 DEF JobDiscount, Claiming, Running
  <2>2. Cardinality(Running') = Cardinality(Running) - 1
    BY <2>1, DropOne, CountedAreFinite
  <2>3. SlotSet' = SlotSet /\ m_jobCount' = m_jobCount /\ m_runningJobCount' = m_runningJobCount - 1
    BY <1>5 DEF JobDiscount, SlotSet
  <2> QED
    BY <1>1, <2>1, <2>2, <2>3 DEF CounterInv
<1>6. ASSUME Searches(w), ~JobDiscount(w) PROVE CounterInv'
  <2>1. Claiming' = Claiming /\ Running' = Running
    BY <1>6 DEF Searches, Register, LoopHead, PauseTest, PauseBlock, PauseWake, PopRefuse, PopTest,
       PopBlock, PopWake, JobNotify, Claiming, Running
  <2>2. SlotSet' = SlotSet /\ UNCHANGED counters
    BY <1>6 DEF Searches, Register, LoopHead, PauseTest, PauseBlock, PauseWake, PopRefuse, PopTest,
       PopBlock, PopWake, JobNotify, SlotSet
  <2> QED
    BY <1>1, <2>1, <2>2 DEF CounterInv
<1>7. ASSUME JobEnd(w) \/ AsyncRun(w) \/ \E j \in NestedJobs : SubmitNested(w, j) PROVE CounterInv'
  <2>1. Claiming' = Claiming /\ Running' = Running
    BY <1>7 DEF JobEnd, AsyncRun, SubmitNested, Claiming, Running
  <2>2. SlotSet' = SlotSet /\ UNCHANGED counters
    BY <1>7 DEF JobEnd, AsyncRun, SubmitNested, SlotSet
  <2> QED
    BY <1>1, <2>1, <2>2 DEF CounterInv
<1> QED
  BY <1>2, <1>3, <1>4, <1>5, <1>6, <1>7 DEF WorkerStep, Searches

LEMMA CounterStep == PlacesInv /\ Accounts /\ CounterInv /\ [Next]_vars => CounterInv'
<1> SUFFICES ASSUME PlacesInv, Accounts, CounterInv, [Next]_vars PROVE CounterInv'
  OBVIOUS
<1>1. ASSUME Construct \/ Pause \/ ResumeStep \/ Destroy \/ DestructorStep \/ SpuriousWakeup
             \/ UNCHANGED vars
      PROVE  CounterInv'
  <2>1. UNCHANGED <<places, spc, wpc>>
    BY <1>1, OthersLeaveJobs
  <2>2. UNCHANGED counters
    BY <1>1 DEF Construct, Pause, ResumeStep, ResumeClear, ResumeNotify, Destroy, DestructorStep,
       WaitTest, WaitBlock, WaitWake, WaitCheck, ShutDown, ClearBegin, ClearRaise, ClearNotify,
       ClearEnd, JoinAll, SpuriousWakeup, vars
  <2> QED
    BY <2>1, <2>2 DEF CounterInv, Announced, Claiming, Running, SlotSet, places, counters
<1> QED
  BY <1>1, SubmitterCounts, WorkerCounts DEF Next

\* The counters waitForAll() relies on say how many jobs are announced or queued
\* and how many run, whoever counts at the same time (thread_pool.cpp:44-56).
THEOREM CountersAreRight == Spec => []CountersAccount
<1>1. CounterInv => CountersAccount
  BY DEF CounterInv, CountersAccount, Announced, Claiming, Running, SlotSet, QueuedCount
<1> QED
  BY <1>1, PlacesInit, PlacesStep, AccountsInit, AccountsStep, CounterInit, CounterStep, PTL DEF Spec

-----------------------------------------------------------------------------
(* The destructor of a graceful pool.  Once it has seen both counters at 0  *)
(* no job is queued any more, and a worker that had one in the gap between  *)
(* the counters is joined.                                                  *)

Ending ==
    /\ dpc # "idle" => \A s \in Submitters : spc[s] = "out"
    /\ IsGraceful /\ dpc \notin {"idle", "waitTest", "waitBlock", "waitAsleep"} =>
         \A q \in Queues : tasks[q] = <<>>
    /\ dpc = "done" => \A w \in Workers : wpc[w] = "exited"

LEMMA EndingInit == Init => Ending
BY DEF Init, Ending

LEMMA EndingStep == PlacesInv /\ Accounts /\ CounterInv /\ Ending /\ [Next]_vars => Ending'
<1> SUFFICES ASSUME PlacesInv, Accounts, CounterInv, Ending, [Next]_vars PROVE Ending'
  OBVIOUS
<1>1. ASSUME NEW s \in Submitters, SubmitterStep(s) \/ \E j \in Jobs : SubmitJob(s, j)
      PROVE  Ending'
  <2>1. dpc' = dpc /\ wpc' = wpc /\ dpc = "idle"
    BY <1>1 DEF SubmitterStep, SubmitCount, ExtractLeastBusy, PushJob, InsertLocate, InsertLink,
       SubmitJob, destroyVars, workerVars, Ending
  <2> QED
    BY <2>1 DEF Ending
<1>2. ASSUME NEW w \in Workers, WorkerStep(w) \/ AsyncRun(w) \/ \E j \in NestedJobs : SubmitNested(w, j)
      PROVE  Ending'
  <2>1. dpc' = dpc /\ spc' = spc
    BY <1>2 DEF WorkerStep, Register, LoopHead, PauseTest, PauseBlock, PauseWake, PopTake, PopRefuse,
       PopTest, PopBlock, PopWake, JobUncount, JobStart, JobEnd, JobDiscount, JobNotify, AsyncRun,
       SubmitNested, destroyVars, submitVars
  <2>2. tasks' = tasks \/ (PopTake(w) /\ \E q \in Queues : tasks[q] # <<>>)
    BY <1>2, ThreadPoolAssumption
       DEF WorkerStep, Register, LoopHead, PauseTest, PauseBlock, PauseWake, PopTake, PopRefuse,
       PopTest, PopBlock, PopWake, JobUncount, JobStart, JobEnd, JobDiscount, JobNotify, AsyncRun,
       SubmitNested, dispatchVars, ThreadPoolAssumption
  <2>3. wpc[w] = "exited" => wpc' = wpc
    BY <1>2 DEF WorkerStep, Register, LoopHead, PauseTest, PauseBlock, PauseWake, PopTake, PopRefuse,
       PopTest, PopBlock, PopWake, JobUncount, JobStart, JobEnd, JobDiscount, JobNotify, AsyncRun,
       SubmitNested
  <2> QED
    BY <2>1, <2>2, <2>3 DEF Ending
<1>3. CASE WaitTest
  <2>1. ASSUME m_jobCount = 0, NEW q \in Queues PROVE tasks[q] = <<>>
    <3>1. Cardinality(SlotSet) = 0
      BY <2>1, CountedAreFinite, PartsAreFinite DEF CounterInv, PlacesInv
    <3>2. Len(tasks[q]) <= 0 /\ tasks[q] \in Seq(Jobs)
      BY <3>1, QueueIsShort DEF PlacesInv, PlaceTypes, Accounts
    <3> QED
      BY <3>2
  <2> QED
    BY <1>3, <2>1 DEF WaitTest, Ending, dispatchVars, workerVars, submitVars
<1>4. CASE Destroy
  BY <1>4 DEF Destroy, Ending, dispatchVars, workerVars, submitVars
<1>5. CASE JoinAll
  BY <1>5 DEF JoinAll, Ending, dispatchVars, workerVars, submitVars
<1>6. ASSUME Construct \/ Pause \/ ResumeStep \/ SpuriousWakeup \/ WaitBlock \/ WaitWake \/ WaitCheck
             \/ ShutDown \/ ClearBegin \/ (\E w \in Workers : ClearRaise(w)) \/ ClearNotify
             \/ ClearEnd \/ UNCHANGED vars
      PROVE  Ending'
  BY <1>6 DEF Construct, Pause, ResumeStep, ResumeClear, ResumeNotify, WaitBlock, WaitWake, WaitCheck,
     ShutDown, ClearBegin, ClearRaise, ClearNotify, ClearEnd, SpuriousWakeup, vars, Ending,
     dispatchVars, workerVars, submitVars, destroyVars
<1> QED
  BY <1>1, <1>2, <1>3, <1>4, <1>5, <1>6 DEF Next, DestructorStep

\* When a graceful pool is gone every job that was submitted has been run
\* (thread_pool.cpp:87-109).
THEOREM GracefulMeansRun == Spec => []GracefulRunsJobs
<1>1. PlacesInv /\ Ending => GracefulRunsJobs
  <2> SUFFICES ASSUME PlacesInv, Ending, IsGraceful, dpc = "done", NEW j \in Jobs, j \notin fresh
               PROVE  j \in ran
    BY DEF GracefulRunsJobs
  <2>1. \A q \in Queues : Len(tasks[q]) = 0
    BY DEF Ending
  <2>2. \A s \in Submitters : sjob[s] = Nobody
    BY DEF PlacesInv, Hands, Ending
  <2>3. \A w \in Workers : job[w] = Nobody /\ child[w] = Nobody
    BY DEF PlacesInv, Hands, Ending
  <2>4. j \in Gone
    BY <2>1, <2>2, <2>3, JobsAreApart DEF PlacesInv, Covered
  <2> QED
    BY <2>4, JobsAreApart DEF Gone, PlacesInv, PlaceTypes
<1> QED
  BY <1>1, PlacesInit, PlacesStep, AccountsInit, AccountsStep, CounterInit, CounterStep, EndingInit,
     EndingStep, PTL DEF Spec

-----------------------------------------------------------------------------
(* The types of what neither holds a queue nor a job. *)

FlagTypes ==
    /\ aborted \in [Queues -> BOOLEAN]
    /\ m_isPausing \in BOOLEAN /\ m_shutDown \in BOOLEAN /\ m_isInitialized \in BOOLEAN
    /\ dwaiting \in BOOLEAN /\ crashed \in BOOLEAN

WaiterTypes ==
    /\ queueWaiting \subseteq Workers /\ pauseWaiting \subseteq Workers
    /\ m_map \subseteq Workers /\ dtodo \subseteq Workers

LabelTypes ==
    /\ pauses \in Nat
    /\ cpc \in {"out", "pausing", "notify"}
    /\ dpc \in DestructorPc
    /\ dqueue \in Queues \cup {Nobody}

LEMMA FlagTypesStep == FlagTypes /\ [Next]_vars => FlagTypes'
<1> SUFFICES ASSUME FlagTypes, [Next]_vars PROVE FlagTypes'
  OBVIOUS
<1>1. aborted' = aborted \/ \E w \in Workers : aborted' = [aborted EXCEPT ![QueueOf[w]] = TRUE]
  BY DEF Next, Construct, SubmitterStep, SubmitCount, ExtractLeastBusy, PushJob, InsertLocate,
     InsertLink, SubmitJob, WorkerStep, Register, LoopHead, PauseTest, PauseBlock, PauseWake, PopTake,
     PopRefuse, PopTest, PopBlock, PopWake, JobUncount, JobStart, JobEnd, JobDiscount, JobNotify,
     AsyncRun, SubmitNested, Pause, ResumeStep, ResumeClear, ResumeNotify, Destroy, DestructorStep,
     WaitTest, WaitBlock, WaitWake, WaitCheck, ShutDown, ClearBegin, ClearRaise, ClearNotify, ClearEnd,
     JoinAll, SpuriousWakeup, vars, dispatchVars
<1>2. /\ m_isPausing' = m_isPausing \/ m_isPausing' \in BOOLEAN
      /\ m_shutDown' = m_shutDown \/ m_shutDown' \in BOOLEAN
      /\ m_isInitialized' = m_isInitialized \/ m_isInitialized' \in BOOLEAN
  BY DEF Next, Construct, SubmitterStep, SubmitCount, ExtractLeastBusy, PushJob, InsertLocate,
     InsertLink, SubmitJob, WorkerStep, Register, LoopHead, PauseTest, PauseBlock, PauseWake, PopTake,
     PopRefuse, PopTest, PopBlock, PopWake, JobUncount, JobStart, JobEnd, JobDiscount, JobNotify,
     AsyncRun, SubmitNested, Pause, ResumeStep, ResumeClear, ResumeNotify, Destroy, DestructorStep,
     WaitTest, WaitBlock, WaitWake, WaitCheck, ShutDown, ClearBegin, ClearRaise, ClearNotify, ClearEnd,
     JoinAll, SpuriousWakeup, vars, flags
<1>3. /\ dwaiting' = dwaiting \/ dwaiting' \in BOOLEAN
      /\ crashed' = crashed \/ crashed' \in BOOLEAN
  BY DEF Next, Construct, SubmitterStep, SubmitCount, ExtractLeastBusy, PushJob, InsertLocate,
     InsertLink, SubmitJob, WorkerStep, Register, LoopHead, PauseTest, PauseBlock, PauseWake, PopTake,
     PopRefuse, PopTest, PopBlock, PopWake, JobUncount, JobStart, JobEnd, JobDiscount, JobNotify,
     AsyncRun, SubmitNested, Pause, ResumeStep, ResumeClear, ResumeNotify, Destroy, DestructorStep,
     WaitTest, WaitBlock, WaitWake, WaitCheck, ShutDown, ClearBegin, ClearRaise, ClearNotify, ClearEnd,
     JoinAll, SpuriousWakeup, vars, destroyVars
<1>4. aborted' \in [Queues -> BOOLEAN]
  BY <1>1, Zenon DEF FlagTypes
<1> QED
  BY <1>2, <1>3, <1>4, Zenon DEF FlagTypes

LEMMA WaiterTypesStep == WaiterTypes /\ LabelTypes /\ [Next]_vars => WaiterTypes' /\ LabelTypes'
<1> SUFFICES ASSUME WaiterTypes, LabelTypes, [Next]_vars PROVE WaiterTypes' /\ LabelTypes'
  OBVIOUS
<1> USE DEF WaiterTypes, LabelTypes, DestructorPc
<1>1. ASSUME NEW s \in Submitters, SubmitterStep(s) \/ \E j \in Jobs : SubmitJob(s, j)
      PROVE  WaiterTypes' /\ LabelTypes'
  BY <1>1 DEF SubmitterStep, SubmitCount, ExtractLeastBusy, PushJob, NotifyOne, InsertLocate,
     InsertLink, SubmitJob, dispatchVars, pauseVars, destroyVars
<1>2. ASSUME NEW w \in Workers, WorkerStep(w) \/ AsyncRun(w) \/ \E j \in NestedJobs : SubmitNested(w, j)
      PROVE  WaiterTypes' /\ LabelTypes'
  BY <1>2 DEF WorkerStep, Register, LoopHead, PauseTest, PauseBlock, PauseWake, PopTake, PopRefuse,
     PopTest, PopBlock, PopWake, JobUncount, JobStart, JobEnd, JobDiscount, JobNotify, AsyncRun,
     SubmitNested, dispatchVars, pauseVars, destroyVars
<1>3. CASE Construct \/ Pause \/ ResumeStep \/ SpuriousWakeup \/ UNCHANGED vars
  BY <1>3 DEF Construct, Pause, ResumeStep, ResumeClear, ResumeNotify, SpuriousWakeup, vars,
     dispatchVars, pauseVars, destroyVars
<1>4. CASE Destroy \/ DestructorStep
  BY <1>4, ThreadPoolAssumption
     DEF Destroy, DestructorStep, WaitTest, WaitBlock, WaitWake, WaitCheck, ShutDown, ClearBegin,
     ClearRaise, ClearNotify, ClearEnd, JoinAll, dispatchVars, pauseVars, destroyVars,
     ThreadPoolAssumption
<1> QED
  BY <1>1, <1>2, <1>3, <1>4 DEF Next

\* Neither counter of the pool ever falls below 0, and nothing else leaves its
\* type.
THEOREM TypesAreKept == Spec => []TypeOK
<1>1. Init => FlagTypes /\ WaiterTypes /\ LabelTypes
  <2>1. Init => WaiterTypes /\ LabelTypes
    BY DEF Init, WaiterTypes, LabelTypes, DestructorPc
  <2>2. ASSUME Init PROVE FlagTypes
    <3>1. aborted = [q \in Queues |-> FALSE]
      BY <2>2 DEF Init
    <3>2. aborted \in [Queues -> BOOLEAN]
      BY <3>1
    <3>4. m_isPausing = FALSE /\ m_shutDown = FALSE /\ m_isInitialized = FALSE
      BY <2>2, Zenon DEF Init
    <3>5. dwaiting = FALSE /\ crashed = FALSE
      BY <2>2, Zenon DEF Init
    <3> QED
      BY <3>2, <3>4, <3>5, Zenon DEF FlagTypes
  <2> QED
    BY <2>1, <2>2
<1>2. PlacesInv /\ CounterInv /\ FlagTypes /\ WaiterTypes /\ LabelTypes => TypeOK
  <2> SUFFICES ASSUME PlacesInv, CounterInv, FlagTypes, WaiterTypes, LabelTypes PROVE TypeOK
    OBVIOUS
  <2>1. m_jobCount \in Nat /\ m_runningJobCount \in Nat
    BY CountedAreFinite, PartsAreFinite DEF CounterInv, PlacesInv
  <2> QED
    BY <2>1, Zenon DEF TypeOK, PlacesInv, RotationInv, RotationTypes, PlaceTypes, FlagTypes,
       WaiterTypes, LabelTypes
<1> QED
  BY <1>1, <1>2, PlacesInit, PlacesStep, AccountsInit, AccountsStep, CounterInit, CounterStep,
     FlagTypesStep, WaiterTypesStep, PTL DEF Spec

=============================================================================
