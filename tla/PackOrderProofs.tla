-------------------------- MODULE PackOrderProofs ---------------------------
(* Theorems about the manifest a pack writes, and about the promise of      *)
(* PackOrder, for every value of the constants of PackPipeline.             *)
EXTENDS PackRefinement, PackPipelineProofs, FiniteSetTheorems

USE DEF Tensors, Kinds

-----------------------------------------------------------------------------
(* The scan.  What the producer has put on its queue and what it has kept   *)
(* dense is told from the position it has reached.                          *)

(* Candidates, and candidates of this run's partition, up to a position. *)
CandidatesTo(n) == {u \in 1..n : Kind[u] = "candidate"}
EligibleTo(n) == {u \in 1..n : Eligible(u)}

(* The tensors the filters keep dense, up to a position. *)
DenseTo(n) ==
  {u \in 1..n : \/ Kind[u] \in {"dense", "skipped"}
                \/ Kind[u] = "unlisted" /\ UnlistedPassthrough}

(* The candidate being prepared has been counted. *)
Counted == IF ppc \in {"reserve", "put"} THEN pos ELSE pos - 1

ScanInv ==
  /\ exc => ppc = "done"
  /\ ppc # "done" => candidates = Cardinality(CandidatesTo(Counted))
  /\ ppc \in {"reserve", "put"} => (Eligible(pos) /\ ~LimitHit(pos))
  /\ \A u \in 1..(pos - 1) : ~LimitHit(u)
  /\ Prefetched = EligibleTo(pos - 1)
  /\ Len(prefetched) = Cardinality(EligibleTo(pos - 1))
  /\ passthrough = DenseTo(pos - 1)
  /\ (ppc = "done" /\ ~exc) => (pos > N \/ LimitHit(pos))

(* Counting one position further. *)
LEMMA CountNext ==
  ASSUME NEW n \in Nat \ {0}
  PROVE  /\ Cardinality(CandidatesTo(n)) =
              Cardinality(CandidatesTo(n - 1))
                + (IF Kind[n] = "candidate" THEN 1 ELSE 0)
         /\ Cardinality(EligibleTo(n)) =
              Cardinality(EligibleTo(n - 1)) + (IF Eligible(n) THEN 1 ELSE 0)
         /\ Cardinality(CandidatesTo(n - 1)) \in Nat
         /\ Cardinality(EligibleTo(n - 1)) \in Nat
<1>0. IsFiniteSet(1..(n - 1)) /\ 1..n = (1..(n - 1)) \cup {n}
      /\ n \notin 1..(n - 1)
  BY FS_Interval
<1>1. IsFiniteSet(CandidatesTo(n - 1)) /\ IsFiniteSet(EligibleTo(n - 1))
  BY <1>0, FS_Subset DEF CandidatesTo, EligibleTo
<1>2. /\ CandidatesTo(n) = IF Kind[n] = "candidate"
                             THEN CandidatesTo(n - 1) \cup {n}
                             ELSE CandidatesTo(n - 1)
      /\ n \notin CandidatesTo(n - 1)
  BY <1>0 DEF CandidatesTo
<1>3. /\ EligibleTo(n) = IF Eligible(n) THEN EligibleTo(n - 1) \cup {n}
                                        ELSE EligibleTo(n - 1)
      /\ n \notin EligibleTo(n - 1)
  BY <1>0 DEF EligibleTo
<1>4. /\ Cardinality(CandidatesTo(n - 1)) \in Nat
      /\ Cardinality(EligibleTo(n - 1)) \in Nat
  BY <1>1, FS_CardinalityType
<1>5. Cardinality(CandidatesTo(n)) =
        Cardinality(CandidatesTo(n - 1))
          + (IF Kind[n] = "candidate" THEN 1 ELSE 0)
  <2>1. Cardinality(CandidatesTo(n - 1) \cup {n}) =
          Cardinality(CandidatesTo(n - 1)) + 1
    BY <1>1, <1>2, FS_AddElement
  <2> QED
    BY <1>2, <1>4, <2>1
<1>6. Cardinality(EligibleTo(n)) =
        Cardinality(EligibleTo(n - 1)) + (IF Eligible(n) THEN 1 ELSE 0)
  <2>1. Cardinality(EligibleTo(n - 1) \cup {n}) =
          Cardinality(EligibleTo(n - 1)) + 1
    BY <1>1, <1>3, FS_AddElement
  <2> QED
    BY <1>3, <1>4, <2>1
<1> QED
  BY <1>4, <1>5, <1>6

(* The count, the partition test and the limit of _prefetch_worker are the  *)
(* rank of the tensor among the candidates and the number it has taken.     *)
LEMMA FiltersAre ==
  ASSUME TypeOK, ScanInv, ppc = "scan", pos <= N
  PROVE  /\ LimitHit(pos) <=> Kind[pos] \in {"skipped", "candidate"} /\ AtLimit
         /\ Eligible(pos) <=> Kind[pos] = "candidate" /\ InPartition
<1>1. candidates = Rank(pos)
  BY DEF ScanInv, Counted, CandidatesTo, Rank
<1>2. Len(prefetched) = Cardinality({u \in 1..(pos - 1) : Eligible(u)})
  BY DEF ScanInv, EligibleTo
<1>3. LimitHit(pos) <=> Kind[pos] \in {"skipped", "candidate"} /\ AtLimit
  BY <1>2 DEF LimitHit, AtLimit
<1>4. Eligible(pos) <=> Kind[pos] = "candidate" /\ InPartition
  BY <1>1 DEF Eligible, InPartition
<1> QED
  BY <1>3, <1>4

(* Moving the scan one position on, for a tensor that is not put. *)
LEMMA ScanMoves ==
  ASSUME TypeOK, ScanInv, ppc = "scan", pos <= N, pos' = pos + 1,
         ppc' = "scan", UNCHANGED <<prefetched, exc>>,
         ~Eligible(pos), ~LimitHit(pos),
         candidates' = candidates + (IF Kind[pos] = "candidate" THEN 1 ELSE 0),
         passthrough' = passthrough \cup (DenseTo(pos) \ DenseTo(pos - 1))
  PROVE  ScanInv'
<1>0. pos \in Nat \ {0}
  BY PackAssumption DEF TypeOK, ProducerTypeOK
<1>1. candidates' = Cardinality(CandidatesTo(pos))
  BY <1>0, CountNext DEF ScanInv, Counted
<1>2. EligibleTo(pos) = EligibleTo(pos - 1)
  BY <1>0 DEF EligibleTo
<1>3. DenseTo(pos - 1) \subseteq DenseTo(pos)
  BY <1>0 DEF DenseTo
<1>4. passthrough' = DenseTo(pos)
  BY <1>3 DEF ScanInv
<1>5. \A u \in 1..pos : ~LimitHit(u)
  BY <1>0 DEF ScanInv
<1>6. Prefetched' = Prefetched
  BY DEF Prefetched
<1> QED
  BY <1>0, <1>1, <1>2, <1>4, <1>5, <1>6 DEF ScanInv, Counted

(* One case per branch of the loop of _prefetch_worker. *)
LEMMA ScanStep ==
  ASSUME TypeOK, ScanInv, [Next]_vars
  PROVE  ScanInv'
<1>0. pos \in Nat \ {0} /\ N \in Nat /\ Len(prefetched) \in Nat
  BY PackAssumption DEF TypeOK, ProducerTypeOK
<1>1. ASSUME pos <= N
      PROVE  DenseTo(pos) \ DenseTo(pos - 1) =
               IF \/ Kind[pos] \in {"dense", "skipped"}
                  \/ Kind[pos] = "unlisted" /\ UnlistedPassthrough
                 THEN {pos} ELSE {}
  BY <1>0, <1>1 DEF DenseTo
<1>2. CASE ScanDense
  <2>1. /\ ppc = "scan" /\ pos <= N /\ pos' = pos + 1 /\ ppc' = "scan"
        /\ UNCHANGED <<prefetched, exc, candidates>>
        /\ passthrough' = passthrough \cup {pos}
    BY <1>2 DEF ScanDense
  <2>2. Kind[pos] # "candidate" /\ (Kind[pos] = "skipped" => ~AtLimit)
    BY <1>2 DEF ScanDense
  <2>3. ~Eligible(pos) /\ ~LimitHit(pos)
    BY <2>1, <2>2, FiltersAre
  <2>4. DenseTo(pos) \ DenseTo(pos - 1) = {pos}
    BY <1>1, <1>2, <2>1 DEF ScanDense
  <2> QED
    BY <1>0, <2>1, <2>2, <2>3, <2>4, ScanMoves DEF TypeOK, ProducerTypeOK
<1>3. CASE ScanUnlisted
  <2>1. /\ ppc = "scan" /\ pos <= N /\ pos' = pos + 1 /\ ppc' = "scan"
        /\ UNCHANGED <<prefetched, exc, candidates, passthrough>>
        /\ Kind[pos] = "unlisted" /\ ~UnlistedPassthrough
    BY <1>3 DEF ScanUnlisted
  <2>2. ~Eligible(pos) /\ ~LimitHit(pos)
    BY <2>1, FiltersAre
  <2>3. DenseTo(pos) \ DenseTo(pos - 1) = {}
    BY <1>1, <2>1
  <2> QED
    BY <1>0, <2>1, <2>2, <2>3, ScanMoves DEF TypeOK, ProducerTypeOK
<1>4. CASE ScanCandidate
  <2>1. /\ ppc = "scan" /\ pos <= N /\ Kind[pos] = "candidate" /\ ~AtLimit
        /\ candidates' = candidates + 1 /\ candidates \in Nat
        /\ UNCHANGED <<prefetched, exc, passthrough>>
    BY <1>4 DEF ScanCandidate, TypeOK, ProducerTypeOK
  <2>2. ~LimitHit(pos) /\ (Eligible(pos) <=> InPartition)
    BY <2>1, FiltersAre
  <2>3. CASE InPartition
    <3>1. ppc' = "reserve" /\ pos' = pos
      BY <1>4, <2>3 DEF ScanCandidate
    <3>2. candidates' = Cardinality(CandidatesTo(pos))
      BY <1>0, <2>1, CountNext DEF ScanInv, Counted
    <3>3. Prefetched' = Prefetched
      BY <2>1 DEF Prefetched
    <3> QED
      BY <2>1, <2>2, <2>3, <3>1, <3>2, <3>3 DEF ScanInv, Counted
  <2>4. CASE ~InPartition
    <3>1. ppc' = "scan" /\ pos' = pos + 1
      BY <1>4, <2>4 DEF ScanCandidate
    <3>2. DenseTo(pos) \ DenseTo(pos - 1) = {}
      BY <1>1, <2>1
    <3> QED
      BY <1>0, <2>1, <2>2, <2>4, <3>1, <3>2, ScanMoves
  <2> QED
    BY <2>3, <2>4
<1>5. CASE ScanEnd
  <2>1. /\ ppc = "scan" /\ ppc' = "done"
        /\ UNCHANGED <<pos, passthrough, prefetched, exc>>
        /\ pos > N \/ LimitHit(pos)
    BY <1>5, FiltersAre DEF ScanEnd
  <2>2. Prefetched' = Prefetched
    BY <2>1 DEF Prefetched
  <2> QED
    BY <2>1, <2>2 DEF ScanInv
<1>6. CASE Reserve
  <2>1. /\ ppc = "reserve" /\ ppc' = "put"
        /\ UNCHANGED <<pos, candidates, passthrough, prefetched, exc>>
    BY <1>6 DEF Reserve
  <2>2. Prefetched' = Prefetched
    BY <2>1 DEF Prefetched
  <2> QED
    BY <2>1, <2>2 DEF ScanInv, Counted
<1>7. CASE PutCandidate
  <2>1. /\ ppc = "put" /\ ppc' = "scan" /\ pos' = pos + 1
        /\ prefetched' = Append(prefetched, pos)
        /\ UNCHANGED <<candidates, passthrough, exc>>
    BY <1>7 DEF PutCandidate
  <2>2. Eligible(pos) /\ ~LimitHit(pos) /\ Kind[pos] = "candidate"
    BY <2>1 DEF ScanInv, Eligible
  <2>3. candidates' = Cardinality(CandidatesTo(pos))
    BY <2>1 DEF ScanInv, Counted
  <2>4. EligibleTo(pos) = EligibleTo(pos - 1) \cup {pos}
    BY <1>0, <2>2 DEF EligibleTo
  <2>5. DenseTo(pos) = DenseTo(pos - 1)
    BY <1>0, <2>2 DEF DenseTo
  <2>6. \A u \in 1..pos : ~LimitHit(u)
    BY <1>0, <2>2 DEF ScanInv
  <2>7. /\ Len(prefetched') = Len(prefetched) + 1
        /\ Prefetched' = Prefetched \cup {pos}
    <3>1. /\ DOMAIN prefetched = 1..Len(prefetched)
          /\ DOMAIN prefetched' = 1..(Len(prefetched) + 1)
          /\ Len(prefetched') = Len(prefetched) + 1
          /\ \A k \in 1..Len(prefetched) : prefetched'[k] = prefetched[k]
          /\ prefetched'[Len(prefetched) + 1] = pos
      <4>1. prefetched \in Seq(Tensors) /\ pos \in Tensors
        BY <1>0, <2>1 DEF TypeOK, ProducerTypeOK
      <4> QED
        BY <2>1, <4>1, AppendProperties
    <3>2. 1..(Len(prefetched) + 1) = (1..Len(prefetched))
                                       \cup {Len(prefetched) + 1}
      BY <1>0
    <3> QED
      BY <3>1, <3>2 DEF Prefetched
  <2>8. Len(prefetched') = Cardinality(EligibleTo(pos))
    BY <1>0, <2>2, <2>7, CountNext DEF ScanInv
  <2>9. Prefetched' = EligibleTo(pos) /\ passthrough' = DenseTo(pos)
    BY <2>1, <2>4, <2>5, <2>7 DEF ScanInv
  <2> QED
    BY <1>0, <2>1, <2>3, <2>6, <2>8, <2>9 DEF ScanInv, Counted
<1>8. CASE ProducerFail
  <2>1. ppc' = "done" /\ exc' /\ UNCHANGED <<pos, passthrough, prefetched>>
    BY <1>8 DEF ProducerFail
  <2>2. Prefetched' = Prefetched
    BY <2>1 DEF Prefetched
  <2> QED
    BY <2>1, <2>2 DEF ScanInv
<1>9. CASE UNCHANGED producer
  <2>1. Prefetched' = Prefetched
    BY <1>9 DEF Prefetched, producer
  <2> QED
    BY <1>9, <2>1 DEF ScanInv, Counted, producer
<1> QED
  BY <1>2, <1>3, <1>4, <1>5, <1>6, <1>7, <1>8, <1>9, MainFrame, WriterFrame,
     FinalizerFrame
  DEF Next, Finished, Producer, producer, vars

(* When the scan has ended without an error, the producer has put exactly   *)
(* the tensors the arguments select, and kept exactly the dense ones.       *)
LEMMA ScanEnds ==
  ASSUME TypeOK, ScanInv, ppc = "done", ~exc
  PROVE  Prefetched = Selected /\ passthrough = KeptDense
<1>0. pos \in 1..(N + 1) /\ N \in Nat
  BY PackAssumption DEF TypeOK, ProducerTypeOK
<1>1. Scanned = 1..(pos - 1)
  <2>1. ASSUME NEW t \in 1..(pos - 1)
        PROVE  t \in Scanned
    BY <1>0, <2>1 DEF ScanInv, Scanned
  <2>2. ASSUME NEW t \in Scanned
        PROVE  t \in 1..(pos - 1)
    <3>1. t \in 1..N /\ \A u \in 1..t : ~LimitHit(u)
      BY DEF Scanned
    <3>2. CASE pos > N
      BY <1>0, <3>1, <3>2
    <3>3. CASE LimitHit(pos)
      BY <1>0, <3>1, <3>3
    <3> QED
      BY <3>2, <3>3 DEF ScanInv
  <2> QED
    BY <2>1, <2>2
<1>2. Prefetched = Selected
  BY <1>1 DEF ScanInv, EligibleTo, Selected
<1>3. passthrough = KeptDense
  BY <1>1 DEF ScanInv, DenseTo, KeptDense
<1> QED
  BY <1>2, <1>3

(* The scan starts at the first tensor with nothing counted. *)
LEMMA ScanInit == Init => ScanInv
<1> SUFFICES ASSUME Init PROVE ScanInv
  OBVIOUS
<1>1. /\ CandidatesTo(0) = {} /\ EligibleTo(0) = {} /\ DenseTo(0) = {}
      /\ Cardinality({}) = 0
  BY FS_EmptySet DEF CandidatesTo, EligibleTo, DenseTo
<1>2. Prefetched = {} /\ Len(prefetched) = 0
  BY EmptySeq DEF Init, Prefetched
<1>3. ppc = "scan" /\ ~exc /\ candidates = 0 /\ passthrough = {}
  BY DEF Init
<1>4. pos - 1 = 0 /\ Counted = 0
  BY <1>3 DEF Init, Counted
<1>5. /\ CandidatesTo(Counted) = {} /\ EligibleTo(pos - 1) = {}
      /\ DenseTo(pos - 1) = {} /\ 1..(pos - 1) = {}
  BY <1>1, <1>4
<1> QED
  BY <1>1, <1>2, <1>3, <1>5 DEF ScanInv

-----------------------------------------------------------------------------
(* The hand-over.  Main hands over what it took, in that order, and the     *)
(* sentinel behind it; what it does next tells how far it is.               *)

HandInv ==
  /\ \A k \in 1..Len(handed) :
       handed[k] = IF k <= taken THEN prefetched[k] ELSE Stop
  /\ Len(handed) <= taken + 1
  /\ mpc \in {"poll", "recheck", "get", "join", "dense", "sentinel"} =>
       Len(handed) = taken
  /\ Working => Len(handed) = taken - 1
  /\ mpc \in PastDrain \cup {"drain"} => Len(handed) = taken + 1

(* A put of the producer leaves what main has taken where it is. *)
LEMMA TakenStays ==
  ASSUME TypeOK, [Next]_vars
  PROVE  /\ \A k \in 1..taken : prefetched'[k] = prefetched[k]
         /\ taken \in Nat /\ Len(handed) \in Nat
         /\ \A k \in 1..Len(prefetched) : prefetched[k] # Stop
<1>1. taken \in 0..Len(prefetched) /\ Len(prefetched) \in Nat
      /\ Len(handed) \in Nat
  BY PrefetchType DEF TypeOK, FinalizerTypeOK
<1>2. CASE PutCandidate
  <2>1. prefetched \in Seq(Tensors) /\ prefetched' = Append(prefetched, pos)
    BY <1>2 DEF PutCandidate, TypeOK, ProducerTypeOK
  <2>2. \A k \in 1..Len(prefetched) : prefetched'[k] = prefetched[k]
    BY <2>1, AppendProperties
  <2>3. \A k \in 1..taken : prefetched'[k] = prefetched[k]
    BY <1>1, <2>2
  <2> QED
    BY <1>1, <2>3, PrefetchType DEF Stop
<1>3. CASE ~PutCandidate
  <2>1. prefetched' = prefetched
    BY <1>3, MainFrame, WriterFrame, FinalizerFrame
    DEF Next, Finished, Producer, ScanDense, ScanUnlisted, ScanCandidate,
        ScanEnd, Reserve, ProducerFail, producer, vars
  <2> QED
    BY <1>1, <2>1, PrefetchType DEF Stop
<1> QED
  BY <1>2, <1>3

(* Where main goes when it neither takes nor hands over. *)
LEMMA HandStill ==
  ASSUME TypeOK, Main, ~TakeCandidate, ~HandOff, ~StopFinalizer
  PROVE  /\ UNCHANGED <<taken, handed>>
         /\ mpc' \in {"poll", "recheck", "get", "join", "dense", "sentinel"} =>
              mpc \in {"poll", "recheck", "get", "join", "dense", "sentinel"}
         /\ Working' => Working
         /\ mpc' \in PastDrain \cup {"drain"} =>
              mpc \in PastDrain \cup {"drain"}
<1>1. CASE CheckLoop \/ GetTimeout \/ MainFail \/ JoinProducer \/ WriteDense
           \/ WriteDenseFail \/ DrainFinalizer \/ FlushWriter
           \/ OpenManifest \/ WriteManifest
  BY <1>1 DEF CheckLoop, GetTimeout, MainFail, JoinProducer, WriteDense,
     WriteDenseFail, DrainFinalizer, FlushWriter, OpenManifest, WriteManifest,
     Working, PastDrain
<1>2. CASE SkipSaturated \/ SubmitCodebook \/ SubmitIndices
           \/ SubmitReassignment \/ RefineScales \/ SubmitBarrier
  <2>1. Working /\ UNCHANGED <<taken, handed>>
    BY <1>2 DEF SkipSaturated, SubmitCodebook, SubmitIndices,
       SubmitReassignment, RefineScales, SubmitBarrier, Working
  <2>2. mpc' \in {"codebook", "indices", "reassign", "scale", "barrier",
                  "handoff", "raised"}
    BY <1>2 DEF SkipSaturated, SubmitCodebook, SubmitIndices,
       SubmitReassignment, RefineScales, SubmitBarrier, NextStage, NextPhase,
       AfterStrategies
  <2> QED
    BY <2>1, <2>2 DEF PastDrain
<1> QED
  BY <1>1, <1>2 DEF Main

(* Candidates and the sentinel keep the order of the prefetch queue. *)
LEMMA HandStep ==
  ASSUME TypeOK, HandInv, [Next]_vars
  PROVE  HandInv'
<1>0. /\ \A k \in 1..taken : prefetched'[k] = prefetched[k]
      /\ taken \in Nat /\ Len(handed) \in Nat
      /\ handed \in Seq(Tensors \cup {Stop})
  BY TakenStays DEF TypeOK, FinalizerTypeOK
<1>1. CASE TakeCandidate
  <2>1. /\ taken' = taken + 1 /\ mpc = "get" /\ mpc' = "codebook"
        /\ handed' = handed /\ prefetched' = prefetched
    BY <1>1 DEF TakeCandidate, producer
  <2>2. Len(handed) = taken
    BY <2>1 DEF HandInv
  <2>3. \A k \in 1..Len(handed) : k <= taken' /\ handed[k] = prefetched[k]
    BY <1>0, <2>1, <2>2 DEF HandInv
  <2> QED
    BY <1>0, <2>1, <2>2, <2>3 DEF HandInv, Working, PastDrain
<1>2. CASE HandOff
  <2>1. /\ taken' = taken /\ mpc = "handoff" /\ mpc' = "poll"
        /\ handed' = Append(handed, Cur) /\ prefetched' = prefetched
    BY <1>2 DEF HandOff, producer
  <2>2. Len(handed) = taken - 1 /\ Cur = prefetched[taken] /\ Cur \in Tensors
    BY <2>1, CurType DEF HandInv, Working, Cur, TypeOK, CursorOK
  <2>3. /\ Len(handed') = taken
        /\ \A k \in 1..Len(handed) : handed'[k] = handed[k]
        /\ handed'[taken] = Cur
    BY <1>0, <2>1, <2>2, AppendProperties
  <2>4. \A k \in 1..taken : k \in 1..Len(handed) \/ k = taken
    BY <1>0, <2>2
  <2> QED
    BY <1>0, <2>1, <2>2, <2>3, <2>4 DEF HandInv, Working, PastDrain
<1>3. CASE StopFinalizer
  <2>1. /\ taken' = taken /\ mpc = "sentinel" /\ mpc' = "drain"
        /\ handed' = Append(handed, Stop) /\ prefetched' = prefetched
    BY <1>3 DEF StopFinalizer, producer
  <2>2. Len(handed) = taken
    BY <2>1 DEF HandInv
  <2>3. /\ Len(handed') = taken + 1
        /\ \A k \in 1..Len(handed) : handed'[k] = handed[k]
        /\ handed'[taken + 1] = Stop
    BY <1>0, <2>1, <2>2, AppendProperties
  <2>4. \A k \in 1..(taken + 1) : k \in 1..Len(handed) \/ k = taken + 1
    BY <1>0, <2>2
  <2> QED
    BY <1>0, <2>1, <2>2, <2>3, <2>4 DEF HandInv, Working, PastDrain
<1>4. CASE Main /\ ~TakeCandidate /\ ~HandOff /\ ~StopFinalizer
  <2>1. prefetched' = prefetched
    BY <1>4, MainFrame DEF producer
  <2> QED
    BY <1>4, <2>1, HandStill DEF HandInv
<1>5. CASE Producer \/ Writer \/ Finalizer \/ UNCHANGED vars
  <2>1. UNCHANGED <<mpc, taken, handed>>
    BY <1>5, ProducerFrame, WriterFrame, FinalizerFrame DEF main, vars
  <2> QED
    BY <1>0, <2>1 DEF HandInv, Working
<1> QED
  BY <1>1, <1>2, <1>3, <1>4, <1>5 DEF Next, Finished

(* The manifest.  The finalizer keeps, in the order it gets them, the       *)
(* tensors it does not fail on.                                             *)

ManifestInv ==
  /\ \A k \in 1..Len(manifest) :
       \E j \in 1..LeftCount : manifest[k].name = prefetched[j]
  /\ ~fErrors =>
       /\ Len(manifest) = LeftCount
       /\ \A k \in 1..Len(manifest) : manifest[k].name = prefetched[k]

(* Of the items done all are candidates, but for the sentinel at the end. *)
LEMMA LeftIs ==
  TypeOK /\ HandInv =>
    /\ LeftCount = IF fdone <= taken THEN fdone ELSE taken
    /\ LeftCount \in 0..taken /\ fdone \in Nat
<1> SUFFICES ASSUME TypeOK, HandInv
             PROVE  /\ LeftCount = IF fdone <= taken THEN fdone ELSE taken
                    /\ LeftCount \in 0..taken /\ fdone \in Nat
  OBVIOUS
<1>1. /\ fdone \in Nat /\ fdone <= Len(handed) /\ taken \in 0..Len(prefetched)
      /\ Len(handed) \in Nat /\ Len(prefetched) \in Nat
      /\ Len(handed) <= taken + 1
  BY PrefetchType DEF TypeOK, FinalizerTypeOK, HandInv
<1>2. CASE fdone = 0
  BY <1>1, <1>2 DEF LeftCount
<1>3. CASE fdone > 0 /\ fdone <= taken
  <2>1. handed[fdone] = prefetched[fdone] /\ fdone \in 1..Len(prefetched)
    BY <1>1, <1>3 DEF HandInv
  <2>2. handed[fdone] # Stop
    BY <2>1, PrefetchType DEF Stop
  <2> QED
    BY <1>1, <1>3, <2>2 DEF LeftCount
<1>4. CASE fdone > taken
  <2>1. fdone = taken + 1 /\ handed[fdone] = Stop
    BY <1>1, <1>4 DEF HandInv
  <2> QED
    BY <1>1, <1>4, <2>1 DEF LeftCount
<1> QED
  BY <1>1, <1>2, <1>3, <1>4

(* Only finishing a candidate makes one leave: the sentinel does not. *)
LEMMA LeftSteps ==
  ASSUME TypeOK, HandInv, [Next]_vars
  PROVE  IF FinalizeItem \/ FailItem
           THEN /\ LeftCount' = LeftCount + 1 /\ LeftCount = fdone
                /\ Item = prefetched[LeftCount + 1] /\ LeftCount < taken
                /\ UNCHANGED <<handed, taken, prefetched>>
           ELSE LeftCount' = LeftCount
<1>0. /\ HandInv' /\ TypeOK'
      /\ LeftCount = IF fdone <= taken THEN fdone ELSE taken
      /\ LeftCount' = IF fdone' <= taken' THEN fdone' ELSE taken'
      /\ fdone \in Nat /\ taken \in Nat /\ fgot \in {fdone, fdone + 1}
      /\ fgot <= Len(handed) /\ Len(handed) <= taken + 1 /\ Len(handed) \in Nat
  <2>1. HandInv' /\ TypeOK'
    BY HandStep, TypeStep
  <2>2. LeftCount' = IF fdone' <= taken' THEN fdone' ELSE taken'
    <3>1. (/\ LeftCount = IF fdone <= taken THEN fdone ELSE taken
           /\ LeftCount \in 0..taken /\ fdone \in Nat)'
      BY <2>1, LeftIs, PTL
    <3> QED
      BY <3>1
  <2>3. /\ fgot \in {fdone, fdone + 1} /\ fgot <= Len(handed)
        /\ Len(handed) <= taken + 1
    BY DEF TypeOK, FinalizerTypeOK, HandInv
  <2> QED
    BY <2>1, <2>2, <2>3, LeftIs, TakenStays
<1>1. CASE FinalizeItem \/ FailItem
  <2>1. /\ fgot = fdone + 1 /\ fdone' = fdone + 1 /\ Item # Stop
        /\ UNCHANGED <<handed, taken, prefetched>>
    BY <1>0, <1>1 DEF FinalizeItem, FailItem, Finalizing, producer, main
  <2>2. Item = IF fgot <= taken THEN prefetched[fgot] ELSE Stop
    BY <1>0, <2>1 DEF HandInv, Item
  <2> QED
    BY <1>0, <1>1, <2>1, <2>2
<1>2. CASE StopItem
  <2>1. /\ fgot = fdone + 1 /\ fdone' = fdone + 1 /\ Item = Stop
        /\ UNCHANGED <<handed, taken, prefetched>>
    BY <1>0, <1>2 DEF StopItem, Finalizing, producer, main
  <2>2. Item = IF fgot <= taken THEN prefetched[fgot] ELSE Stop
    BY <1>0, <2>1 DEF HandInv, Item
  <2>3. fgot <= taken => prefetched[fgot] # Stop
    BY <1>0, <2>1, TakenStays, PrefetchType
  <2>4. fdone = taken
    BY <1>0, <2>1, <2>2, <2>3
  <2>5. ~(FinalizeItem \/ FailItem)
    BY <2>1 DEF FinalizeItem, FailItem
  <2> QED
    BY <1>0, <2>1, <2>4, <2>5
<1>3. CASE ~(FinalizeItem \/ FailItem \/ StopItem)
  <2>1. fdone' = fdone
    BY <1>3, ProducerFrame, MainFrame, WriterFrame
    DEF Next, Finished, Finalizer, StartItem, finalizer, vars
  <2>2. taken' = taken \/ (taken' = taken + 1 /\ TakeCandidate)
    BY HandStill, ProducerFrame, WriterFrame, FinalizerFrame
    DEF Next, Finished, TakeCandidate, HandOff, StopFinalizer, main, vars
  <2>3. TakeCandidate => Len(handed) = taken
    BY DEF TakeCandidate, HandInv
  <2>4. fdone <= Len(handed)
    BY DEF TypeOK, FinalizerTypeOK
  <2>5. LeftCount' = LeftCount
    <3>1. CASE taken' = taken
      BY <1>0, <2>1, <3>1
    <3>2. CASE taken' = taken + 1 /\ TakeCandidate
      <4>1. fdone <= taken /\ fdone' <= taken'
        BY <1>0, <2>1, <2>3, <2>4, <3>2
      <4> QED
        BY <1>0, <2>1, <4>1
    <3> QED
      BY <2>2, <3>1, <3>2
  <2> QED
    BY <1>3, <2>5
<1> QED
  BY <1>1, <1>2, <1>3

(* An entry is appended for the item in hand, or an error recorded. *)
LEMMA ManifestStep ==
  ASSUME TypeOK, HandInv, ManifestInv, [Next]_vars
  PROVE  ManifestInv'
<1>0. /\ LeftCount \in 0..taken /\ taken \in Nat /\ Len(manifest) \in Nat
      /\ \A k \in 1..taken : prefetched'[k] = prefetched[k]
      /\ manifest \in Seq(Entries)
  BY LeftIs, TakenStays DEF TypeOK, FinalizerTypeOK
<1> DEFINE left == LeftCount
<1> HIDE DEF left
<1>1. CASE FinalizeItem
  <2>1. /\ left' = left + 1 /\ Item = prefetched[left + 1] /\ left < taken
        /\ UNCHANGED <<prefetched, fErrors>>
        /\ manifest' = Append(manifest, Entry(Item))
    BY <1>1, LeftSteps DEF left, FinalizeItem
  <2>2. /\ Len(manifest') = Len(manifest) + 1
        /\ \A k \in 1..Len(manifest) : manifest'[k] = manifest[k]
        /\ manifest'[Len(manifest) + 1].name = prefetched[left + 1]
    <3>1. Entry(Item).name = Item
      BY DEF Entry
    <3> HIDE DEF Entry
    <3> QED
      BY <1>0, <2>1, <3>1, AppendProperties
  <2>3. \A k \in 1..Len(manifest') : k \in 1..Len(manifest)
                                     \/ k = Len(manifest) + 1
    BY <1>0, <2>2
  <2>4. left \in Nat /\ left + 1 \in 1..left' /\ \A j \in 1..left : j \in 1..left'
    BY <1>0, <2>1 DEF left
  <2>5. \A k \in 1..Len(manifest') :
          \E j \in 1..left' : manifest'[k].name = prefetched[j]
    BY <2>2, <2>3, <2>4 DEF ManifestInv, left
  <2>6. ASSUME ~fErrors
        PROVE  /\ Len(manifest') = left'
               /\ \A k \in 1..Len(manifest') :
                    manifest'[k].name = prefetched[k]
    <3>1. /\ Len(manifest) = left
          /\ \A k \in 1..Len(manifest) : manifest[k].name = prefetched[k]
      BY <2>6 DEF ManifestInv, left
    <3> QED
      BY <2>1, <2>2, <2>3, <3>1
  <2> QED
    BY <2>1, <2>5, <2>6 DEF ManifestInv, left
<1>2. CASE FailItem
  <2>1. /\ left' = left + 1 /\ UNCHANGED <<prefetched, manifest>> /\ fErrors'
    BY <1>2, LeftSteps DEF left, FailItem
  <2>2. \A j \in 1..left : j \in 1..left'
    BY <1>0, <2>1 DEF left
  <2> QED
    BY <2>1, <2>2 DEF ManifestInv, left
<1>3. CASE ~(FinalizeItem \/ FailItem)
  <2>1. left' = left
    BY <1>3, LeftSteps DEF left
  <2>2. UNCHANGED <<manifest, fErrors>>
    BY <1>3, ProducerFrame, MainFrame, WriterFrame
    DEF Next, Finished, Finalizer, StartItem, StopItem, finalizer, vars
  <2>3. \A j \in 1..left : prefetched'[j] = prefetched[j]
    BY <1>0 DEF left
  <2>4. ~fErrors => \A k \in 1..Len(manifest) : k \in 1..left
    BY <1>0 DEF ManifestInv, left
  <2> QED
    BY <2>1, <2>2, <2>3, <2>4 DEF ManifestInv, left
<1> QED
  BY <1>1, <1>2, <1>3

-----------------------------------------------------------------------------
(* The commit.  Main leaves the consumer loop when it has taken all there   *)
(* is, and publishes what the finalizer has appended.                       *)

CommitInv ==
  /\ mpc = "recheck" => ppc = "done"
  /\ mpc = "join" => exc \/ (ppc = "done" /\ taken = Len(prefetched))
  /\ mpc \in PastJoin => taken = Len(prefetched)
  /\ mpc \in PastJoin \ {"dense"} => dense = passthrough
  /\ published.state # "absent" => mpc \in {"committing", "returned"}
  /\ Committed => (mpc = "returned" /\ published.entries = manifest)

(* The end of pack_checkpoint in the order of the code, while the producer  *)
(* has ended and the finalizer appends nothing any more.                    *)
LEMMA CommitStep ==
  ASSUME TypeOK, ErrorsInv, ScanInv, CommitInv, [Next]_vars
  PROVE  CommitInv'
<1> USE DEF PastJoin, Committed
<1>1. CASE Producer
  <2>1. ppc # "done" /\ ~exc
    BY <1>1 DEF Producer, ScanDense, ScanUnlisted, ScanCandidate, ScanEnd,
       Reserve, PutCandidate, ProducerFail, ScanInv
  <2>2. UNCHANGED <<mpc, taken, dense, published, manifest>>
    BY <1>1, ProducerFrame DEF main, finalizer
  <2>3. mpc \notin {"recheck", "join"} /\ mpc \notin PastJoin
    BY <2>1 DEF CommitInv, ErrorsInv
  <2> QED
    BY <2>2, <2>3 DEF CommitInv
<1>2. CASE Writer
  <2>1. UNCHANGED <<mpc, taken, dense, published, manifest, exc, ppc,
                    prefetched, passthrough>>
    BY <1>2, WriterFrame DEF main, finalizer, producer
  <2> QED
    BY <2>1 DEF CommitInv
<1>3. CASE Finalizer
  <2>1. UNCHANGED <<mpc, taken, dense, published, exc, ppc, prefetched,
                    passthrough>>
    BY <1>3, FinalizerFrame DEF main, producer
  <2>2. mpc = "returned" => manifest' = manifest
    BY <1>3 DEF Finalizer, StartItem, FinalizeItem, FailItem, StopItem,
       Finalizing, ErrorsInv, PastDrain, TypeOK, FinalizerTypeOK
  <2> QED
    BY <2>1, <2>2 DEF CommitInv
<1>4. CASE CheckLoop
  <2>1. /\ UNCHANGED <<producer, taken, published>> /\ mpc \in {"poll", "recheck"}
        /\ \/ mpc' = "get"
           \/ mpc' = "recheck" /\ ppc = "done"
           \/ mpc = "recheck" /\ mpc' = "join" /\ (taken = Len(prefetched) \/ exc)
    BY <1>4 DEF CheckLoop
  <2> QED
    BY <2>1 DEF CommitInv, producer
<1>5. CASE JoinProducer
  <2>1. /\ UNCHANGED <<producer, taken, published>> /\ mpc = "join"
        /\ mpc' = "raised" \/ (mpc' = "dense" /\ ~exc)
    BY <1>5 DEF JoinProducer
  <2> QED
    BY <2>1 DEF CommitInv, producer
<1>6. CASE WriteDense
  BY <1>6 DEF WriteDense, CommitInv, producer
<1>7. CASE StopFinalizer \/ DrainFinalizer \/ FlushWriter
  <2>1. UNCHANGED <<producer, taken, published, dense>>
    BY <1>7 DEF StopFinalizer, DrainFinalizer, FlushWriter
  <2>2. \/ mpc = "sentinel" /\ mpc' = "drain"
        \/ mpc = "drain" /\ mpc' \in {"flush", "raised"}
        \/ mpc = "flush" /\ mpc' \in {"commit", "raised"}
    BY <1>7 DEF StopFinalizer, DrainFinalizer, FlushWriter
  <2> QED
    BY <2>1, <2>2 DEF CommitInv, producer
<1>8. CASE OpenManifest
  <2>1. /\ UNCHANGED <<producer, taken, dense>> /\ mpc = "commit"
        /\ mpc' = "committing" /\ published'.state = "torn"
    BY <1>8 DEF OpenManifest
  <2> QED
    BY <2>1 DEF CommitInv, producer
<1>9. CASE WriteManifest
  <2>1. /\ UNCHANGED <<producer, taken, dense, manifest>> /\ mpc = "committing"
        /\ mpc' = "returned" /\ published'.entries = manifest
    BY <1>9 DEF WriteManifest, finalizer
  <2> QED
    BY <2>1 DEF CommitInv, producer
<1>10. CASE TakeCandidate \/ GetTimeout \/ SkipSaturated \/ SubmitCodebook
            \/ SubmitIndices \/ SubmitReassignment \/ RefineScales
            \/ SubmitBarrier \/ HandOff \/ MainFail \/ WriteDenseFail
  <2>1. /\ mpc' \notin PastJoin \cup {"recheck", "join"} /\ published' = published
    BY <1>10 DEF TakeCandidate, GetTimeout, SkipSaturated, SubmitCodebook,
       SubmitIndices, SubmitReassignment, RefineScales, SubmitBarrier, HandOff,
       MainFail, WriteDenseFail, NextStage, NextPhase, AfterStrategies
  <2>2. mpc \notin {"committing", "returned"}
    BY <1>10 DEF TakeCandidate, GetTimeout, SkipSaturated, SubmitCodebook,
       SubmitIndices, SubmitReassignment, RefineScales, SubmitBarrier, HandOff,
       MainFail, WriteDenseFail
  <2>3. published.state = "absent"
    BY <2>2 DEF CommitInv
  <2> QED
    BY <2>1, <2>3 DEF CommitInv
<1>11. CASE UNCHANGED vars
  BY <1>11 DEF vars, producer, main, finalizer, CommitInv
<1> QED
  BY <1>1, <1>2, <1>3, <1>4, <1>5, <1>6, <1>7, <1>8, <1>9, <1>10, <1>11
  DEF Next, Main, Finished

(* The inductive invariant about candidates and the manifest. *)
ResultInv == ScanInv /\ HandInv /\ ManifestInv /\ CommitInv

(* From the scan to manifest.json no candidate of pack_checkpoint is lost,  *)
(* repeated or overtaken.                                                   *)
THEOREM ResultInvariant == Spec => []ResultInv
<1>1. Init => ResultInv
  <2> SUFFICES ASSUME Init PROVE ResultInv
    OBVIOUS
  <2>1. /\ handed = <<>> /\ manifest = <<>> /\ Len(<<>>) = 0 /\ taken = 0
        /\ fdone = 0 /\ mpc = "poll" /\ published.state = "absent"
    BY EmptySeq DEF Init
  <2>2. HandInv
    BY <2>1 DEF HandInv, Working, PastDrain
  <2>3. ManifestInv
    BY <2>1 DEF ManifestInv, LeftCount
  <2>4. CommitInv
    BY <2>1 DEF CommitInv, PastJoin, Committed
  <2> QED
    BY <2>2, <2>3, <2>4, ScanInit DEF ResultInv
<1>2. TypeOK /\ ErrorsInv /\ ResultInv /\ [Next]_vars => ResultInv'
  BY ScanStep, HandStep, ManifestStep, CommitStep DEF ResultInv
<1> QED
  BY <1>1, <1>2, TypeCorrect, ErrorsInvariant, PTL DEF Spec

(* Past the drain of the finalizer, without an error, the manifest has an   *)
(* entry for every selected tensor, in the order of the checkpoint.         *)
LEMMA ManifestIsWhole ==
  ASSUME TypeOK, ErrorsInv, ResultInv, mpc \in PastDrain
  PROVE  /\ Len(manifest) = Len(prefetched)
         /\ \A k \in 1..Len(manifest) : manifest[k].name = prefetched[k]
         /\ Prefetched = Selected /\ passthrough = KeptDense
<1>1. mpc \in PastJoin
  BY DEF PastDrain, PastJoin
<1>2. ppc = "done" /\ ~exc /\ taken = Len(prefetched)
  BY <1>1 DEF ErrorsInv, ResultInv, CommitInv
<1>3. /\ fdone = Len(handed) /\ ~fErrors /\ Len(handed) = taken + 1
      /\ taken \in Nat
  BY PrefetchType DEF ErrorsInv, ResultInv, HandInv
<1>4. LeftCount = taken
  BY <1>3, LeftIs DEF ResultInv
<1> QED
  BY <1>2, <1>3, <1>4, ScanEnds DEF ResultInv, ManifestInv

(* A complete manifest.json lists every selected tensor exactly once and in *)
(* checkpoint order, next to exactly the dense tensors.                     *)
THEOREM CommitsAreComplete == Spec => []CommitComplete
<1>1. TypeOK /\ ErrorsInv /\ FilesInv /\ ResultInv => CommitComplete
  <2> SUFFICES ASSUME TypeOK, ErrorsInv, FilesInv, ResultInv, Committed
               PROVE  /\ {CommittedNames[k] : k \in DOMAIN CommittedNames}
                           = Selected
                      /\ \A j, k \in DOMAIN CommittedNames :
                           j < k => CommittedNames[j] < CommittedNames[k]
                      /\ dense = KeptDense
    BY DEF CommitComplete
  <2>1. mpc = "returned" /\ published.entries = manifest
    BY DEF ResultInv, CommitInv
  <2>2. mpc \in PastDrain /\ mpc \in PastJoin \ {"dense"}
    BY <2>1 DEF PastDrain, PastJoin
  <2>3. /\ Len(manifest) = Len(prefetched)
        /\ \A k \in 1..Len(manifest) : manifest[k].name = prefetched[k]
        /\ Prefetched = Selected /\ passthrough = KeptDense
    BY <2>2, ManifestIsWhole
  <2>4. /\ DOMAIN CommittedNames = 1..Len(prefetched)
        /\ \A k \in 1..Len(prefetched) : CommittedNames[k] = prefetched[k]
    BY <2>1, <2>3 DEF CommittedNames
  <2>5. {CommittedNames[k] : k \in DOMAIN CommittedNames} = Selected
    <3>1. DOMAIN prefetched = 1..Len(prefetched)
      BY DEF TypeOK, ProducerTypeOK
    <3> QED
      BY <2>3, <2>4, <3>1 DEF Prefetched
  <2>6. \A j, k \in DOMAIN CommittedNames :
          j < k => CommittedNames[j] < CommittedNames[k]
    BY <2>4 DEF FilesInv, OrderInv
  <2>7. dense = KeptDense
    BY <2>2, <2>3 DEF ResultInv, CommitInv
  <2> QED
    BY <2>5, <2>6, <2>7
<1> QED
  BY <1>1, TypeCorrect, ErrorsInvariant, FilesInvariant, ResultInvariant, PTL

(* Whenever manifest.json exists, torn or complete, every file of every     *)
(* selected tensor holds its final version: pack_checkpoint has drained the *)
(* finalizer, which has waited for each tensor's barrier, and flushed the   *)
(* writer without an error.                                                 *)
THEOREM CommitsAreDecodable == Spec => []CommittedIsDecodable
<1>1. TypeOK /\ ErrorsInv /\ FilesInv /\ ResultInv => CommittedIsDecodable
  <2> SUFFICES ASSUME TypeOK, ErrorsInv, FilesInv, ResultInv,
                      published.state # "absent",
                      NEW f \in Files, f[1][1] \in Selected
               PROVE  disk[f] = FinalVersion(f)
    BY DEF CommittedIsDecodable
  <2>1. mpc \in PastDrain /\ ~writeErrors
    BY DEF ResultInv, CommitInv, ErrorsInv, PastDrain, PastFlush
  <2>2. /\ Len(manifest) = Len(prefetched)
        /\ \A k \in 1..Len(manifest) : manifest[k].name = prefetched[k]
        /\ Prefetched = Selected
    BY <2>1, ManifestIsWhole
  <2>3. PICK k \in 1..Len(prefetched) : prefetched[k] = f[1][1]
    <3>1. DOMAIN prefetched = 1..Len(prefetched)
      BY DEF TypeOK, ProducerTypeOK
    <3> QED
      BY <2>2, <3>1 DEF Prefetched
  <2>4. f[1][1] \in barriers
    BY <2>2, <2>3 DEF FilesInv, EntryInv
  <2>5. f \in FilesOf(f[1][1])
    BY DEF FilesOf
  <2> QED
    BY <2>1, <2>4, <2>5, FilesAreFinal DEF FilesInv
<1> QED
  BY <1>1, TypeCorrect, ErrorsInvariant, FilesInvariant, ResultInvariant, PTL

-----------------------------------------------------------------------------
(* The input of the promise.  A tensor's place in the checkpoint order of   *)
(* the selection is the number of selected tensors up to it.                *)

SelectedTo(t) == {u \in Selected : u <= t}
Place(t) == Cardinality(SelectedTo(t))

(* The selection is a finite set of positions of the checkpoint. *)
LEMMA SelectionFinite ==
  /\ IsFiniteSet(Selected) /\ Cardinality(Selected) \in Nat
  /\ \A t \in Selected : t \in Nat /\ t >= 1
  /\ \A t : IsFiniteSet(SelectedTo(t)) /\ Place(t) \in Nat
<1>1. Selected \in SUBSET (1..N) /\ N \in Nat
  BY PackAssumption DEF Selected, Scanned
<1>2. IsFiniteSet(1..N)
  BY <1>1, FS_Interval
<1>3. IsFiniteSet(Selected) /\ Cardinality(Selected) \in Nat
  BY <1>1, <1>2, FS_Subset, FS_CardinalityType
<1>4. ASSUME NEW t
      PROVE  IsFiniteSet(SelectedTo(t)) /\ Place(t) \in Nat
  BY <1>3, FS_Subset, FS_CardinalityType DEF SelectedTo, Place
<1> QED
  BY <1>1, <1>3, <1>4

(* A later tensor has a later place, and every place is one of the input's. *)
LEMMA PlaceGrows ==
  ASSUME NEW t \in Selected
  PROVE  /\ Place(t) \in 1..Cardinality(Selected)
         /\ \A u \in Selected : t < u => Place(t) < Place(u)
<1>1. Place(t) \in 1..Cardinality(Selected)
  <2>1. SelectedTo(t) \in SUBSET Selected
    BY DEF SelectedTo
  <2>2. Place(t) <= Cardinality(Selected)
    BY <2>1, SelectionFinite, FS_Subset DEF Place
  <2>3. t \in SelectedTo(t)
    BY SelectionFinite DEF SelectedTo
  <2>4. Place(t) # 0
    BY <2>3, SelectionFinite, FS_EmptySet DEF Place
  <2> QED
    BY <2>2, <2>4, SelectionFinite
<1>2. ASSUME NEW u \in Selected, t < u
      PROVE  Place(t) < Place(u)
  <2>1. SelectedTo(t) \in SUBSET SelectedTo(u)
    BY <1>2, SelectionFinite DEF SelectedTo
  <2>2. SelectedTo(t) # SelectedTo(u)
    BY <1>2, SelectionFinite DEF SelectedTo
  <2>3. /\ Cardinality(SelectedTo(t)) <= Cardinality(SelectedTo(u))
        /\ Cardinality(SelectedTo(t)) # Cardinality(SelectedTo(u))
    BY <2>1, <2>2, SelectionFinite, FS_Subset
  <2> QED
    BY <2>3, SelectionFinite DEF Place
<1> QED
  BY <1>1, <1>2

(* In an increasing sequence of selected tensors that skips none, the place *)
(* of each is its index.                                                    *)
LEMMA PlaceIsIndex ==
  ASSUME NEW s, NEW k \in Nat \ {0},
         \A j \in 1..k : s[j] \in Selected,
         \A i, j \in 1..k : i < j => s[i] < s[j],
         \A u \in Selected : u <= s[k] => \E j \in 1..k : s[j] = u
  PROVE  Place(s[k]) = k
<1> DEFINE f == [j \in 1..k |-> s[j]]
<1>1. \A j \in 1..k : s[j] \in SelectedTo(s[k])
  <2>1. ASSUME NEW j \in 1..k
        PROVE  s[j] <= s[k]
    <3>1. j = k \/ j < k
      OBVIOUS
    <3>2. s[j] \in Nat /\ s[k] \in Nat
      BY SelectionFinite
    <3> QED
      BY <3>1, <3>2
  <2> QED
    BY <2>1 DEF SelectedTo
<1>2. f \in [1..k -> SelectedTo(s[k])]
  BY <1>1
<1>3. \A i, j \in 1..k : f[i] = f[j] => i = j
  <2>1. ASSUME NEW i \in 1..k, NEW j \in 1..k, s[i] = s[j]
        PROVE  i = j
    <3>1. s[i] \in Nat /\ ~(s[i] < s[j]) /\ ~(s[j] < s[i])
      BY <2>1, SelectionFinite
    <3>2. ~(i < j) /\ ~(j < i)
      BY <3>1
    <3> QED
      BY <3>2
  <2> QED
    BY <2>1
<1>4. \A u \in SelectedTo(s[k]) : \E j \in 1..k : f[j] = u
  BY DEF SelectedTo
<1>5. f \in Bijection(1..k, SelectedTo(s[k]))
  BY <1>2, <1>3, <1>4 DEF Bijection, Injection, Surjection, IsInjective
<1>6. ExistsBijection(1..k, SelectedTo(s[k]))
  BY <1>5 DEF ExistsBijection
<1> QED
  BY <1>6, FS_CountingElements DEF Place

(* The selection can be put in checkpoint order, and InputSeq is that       *)
(* order: the input of the promise exists.                                  *)
LEMMA InputIs ==
  /\ InputSeq \in [1..Cardinality(Selected) -> Selected]
  /\ Len(InputSeq) = Cardinality(Selected)
  /\ \A k \in 1..Cardinality(Selected) :
       InputSeq[k] \in Selected /\ Place(InputSeq[k]) = k
<1> DEFINE n == Cardinality(Selected)
           g == [t \in Selected |-> Place(t)]
           s == [k \in 1..n |-> CHOOSE t \in Selected : Place(t) = k]
<1>0. /\ IsFiniteSet(Selected) /\ n \in Nat
      /\ IsFiniteSet(1..n) /\ Cardinality(1..n) = n
  BY SelectionFinite, FS_Interval
<1>1. \A t, u \in Selected : (Place(t) < Place(u)) <=> (t < u)
  <2>1. ASSUME NEW t \in Selected, NEW u \in Selected
        PROVE  (Place(t) < Place(u)) <=> (t < u)
    <3>1. /\ t \in Nat /\ u \in Nat /\ Place(t) \in Nat /\ Place(u) \in Nat
          /\ t < u => Place(t) < Place(u)
          /\ u < t => Place(u) < Place(t)
      BY SelectionFinite, PlaceGrows
    <3>2. t = u => Place(t) = Place(u)
      OBVIOUS
    <3> QED
      BY <3>1, <3>2
  <2> QED
    BY <2>1
<1>2. \A k \in 1..n : \E t \in Selected : Place(t) = k
  <2>1. g \in [Selected -> 1..n]
    BY PlaceGrows
  <2>2. \A t, u \in Selected : g[t] = g[u] => t = u
    <3>1. ASSUME NEW t \in Selected, NEW u \in Selected, Place(t) = Place(u)
          PROVE  t = u
      <4>1. t \in Nat /\ u \in Nat /\ Place(t) \in Nat /\ ~(t < u) /\ ~(u < t)
        BY <1>1, <3>1, SelectionFinite
      <4> QED
        BY <4>1
    <3> QED
      BY <3>1
  <2>3. g \in Injection(Selected, 1..n)
    BY <2>1, <2>2 DEF Injection, IsInjective
  <2>4. g \in Surjection(Selected, 1..n)
    BY <1>0, <2>3, FS_Injection
  <2> QED
    BY <2>4 DEF Surjection
<1>3. /\ s \in [1..n -> Selected]
      /\ \A j, k \in DOMAIN s : j < k => s[j] < s[k]
  <2>1. \A k \in 1..n : s[k] \in Selected /\ Place(s[k]) = k
    BY <1>2
  <2> HIDE DEF s
  <2>2. DOMAIN s = 1..n
    BY DEF s
  <2>3. s \in [1..n -> Selected]
    BY <2>1, <2>2 DEF s
  <2> QED
    BY <1>1, <2>1, <2>2, <2>3
<1>4. /\ InputSeq \in [1..n -> Selected]
      /\ \A j, k \in DOMAIN InputSeq : j < k => InputSeq[j] < InputSeq[k]
  <2> HIDE DEF s
  <2> QED
    BY <1>3 DEF InputSeq
<1> HIDE DEF s, g
<1>5. DOMAIN InputSeq = 1..n /\ \A k \in 1..n : InputSeq[k] \in Selected
  BY <1>4
<1>6. Len(InputSeq) = n
  BY <1>0, <1>4
<1>7. \A u \in Selected : \E k \in 1..n : InputSeq[k] = u
  <2>1. \A j, k \in 1..n : InputSeq[j] = InputSeq[k] => j = k
    <3>1. ASSUME NEW j \in 1..n, NEW k \in 1..n, InputSeq[j] = InputSeq[k]
          PROVE  j = k
      <4>1. InputSeq[j] \in Nat /\ ~(InputSeq[j] < InputSeq[k])
            /\ ~(InputSeq[k] < InputSeq[j])
        BY <1>5, <3>1, SelectionFinite
      <4>2. ~(j < k) /\ ~(k < j)
        BY <1>4, <1>5, <4>1
      <4> QED
        BY <1>0, <4>2
    <3> QED
      BY <3>1
  <2>2. InputSeq \in Injection(1..n, Selected)
    BY <1>4, <1>5, <2>1 DEF Injection, IsInjective
  <2>3. InputSeq \in Surjection(1..n, Selected)
    BY <1>0, <2>2, FS_Injection
  <2> QED
    BY <2>3 DEF Surjection
<1>8. ASSUME NEW k \in 1..n
      PROVE  Place(InputSeq[k]) = k
  <2>1. /\ k \in Nat \ {0}
        /\ \A j \in 1..k : InputSeq[j] \in Selected
        /\ \A i, j \in 1..k : i < j => InputSeq[i] < InputSeq[j]
    BY <1>0, <1>4, <1>5
  <2>2. ASSUME NEW u \in Selected, u <= InputSeq[k]
        PROVE  \E j \in 1..k : InputSeq[j] = u
    <3>1. PICK j \in 1..n : InputSeq[j] = u
      BY <1>7
    <3>2. ~(k < j)
      <4>1. InputSeq[j] \in Nat /\ InputSeq[k] \in Nat
        BY <1>5, SelectionFinite
      <4>2. k < j => InputSeq[k] < InputSeq[j]
        BY <1>4, <1>5
      <4> QED
        BY <2>2, <3>1, <4>1, <4>2
    <3> QED
      BY <1>0, <3>1, <3>2
  <2> QED
    BY <2>1, <2>2, PlaceIsIndex
<1> QED
  BY <1>4, <1>5, <1>6, <1>8

(* What _prefetch_worker has put on its queue is a prefix of the input, and *)
(* the candidate it is about to put is the next of it.                      *)
LEMMA InputStarts ==
  ASSUME TypeOK, ScanInv, OrderInv
  PROVE  /\ Len(prefetched) <= Len(InputSeq)
         /\ \A k \in 1..Len(prefetched) : InputSeq[k] = prefetched[k]
         /\ ppc = "put" => Len(prefetched) < Len(InputSeq)
<1> DEFINE n == Cardinality(Selected)
<1>0. /\ pos \in 1..(N + 1) /\ N \in Nat /\ n \in Nat /\ Len(InputSeq) = n
      /\ IsFiniteSet(Selected) /\ Len(prefetched) \in Nat
      /\ DOMAIN prefetched = 1..Len(prefetched)
      /\ ppc = "put" => pos <= N
  BY PackAssumption, SelectionFinite, InputIs DEF TypeOK, ProducerTypeOK
<1>1. \A u \in Selected : u < pos => \E k \in 1..Len(prefetched) :
                                        prefetched[k] = u
  <2>1. ASSUME NEW u \in Selected, u < pos
        PROVE  u \in EligibleTo(pos - 1)
    BY <1>0, <2>1, SelectionFinite DEF EligibleTo, Selected
  <2> QED
    BY <1>0, <2>1 DEF ScanInv, Prefetched
<1>2. Prefetched \subseteq Selected
  <2>1. ASSUME NEW u \in EligibleTo(pos - 1)
        PROVE  u \in Selected
    <3>1. u \in 1..N /\ u \in 1..(pos - 1) /\ Eligible(u)
      BY <1>0 DEF EligibleTo
    <3>2. \A v \in 1..u : ~LimitHit(v)
      BY <1>0, <3>1 DEF ScanInv
    <3> QED
      BY <3>1, <3>2 DEF Selected, Scanned
  <2> QED
    BY <2>1 DEF ScanInv
<1>3. Len(prefetched) = Cardinality(Prefetched)
  BY DEF ScanInv
<1>4. Len(prefetched) <= n
  BY <1>0, <1>2, <1>3, FS_Subset
<1>5. ASSUME ppc = "put"
      PROVE  Len(prefetched) < n
  <2>1. pos \in Selected
    <3>1. Eligible(pos) /\ ~LimitHit(pos) /\ pos \in 1..N
      BY <1>0, <1>5 DEF ScanInv
    <3>2. \A v \in 1..pos : ~LimitHit(v)
      BY <1>0, <3>1 DEF ScanInv
    <3> QED
      BY <3>1, <3>2 DEF Selected, Scanned
  <2>2. pos \notin Prefetched
    BY <1>0 DEF OrderInv, Prefetched
  <2>3. Prefetched # Selected
    BY <2>1, <2>2
  <2>4. Cardinality(Prefetched) <= n /\ Cardinality(Prefetched) # n
    BY <1>0, <1>2, <2>3, FS_Subset
  <2> QED
    BY <1>0, <1>3, <2>4
<1>6. ASSUME NEW k \in 1..Len(prefetched)
      PROVE  InputSeq[k] = prefetched[k]
  <2>1. /\ k \in Nat \ {0} /\ k \in 1..n
        /\ \A j \in 1..k : prefetched[j] \in Selected
        /\ \A i, j \in 1..k : i < j => prefetched[i] < prefetched[j]
        /\ prefetched[k] < pos
    BY <1>0, <1>2, <1>4 DEF OrderInv, Prefetched
  <2>2. ASSUME NEW u \in Selected, u <= prefetched[k]
        PROVE  \E j \in 1..k : prefetched[j] = u
    <3>0. u \in Nat /\ prefetched[k] \in Nat
      BY <2>1, SelectionFinite
    <3>1. PICK j \in 1..Len(prefetched) : prefetched[j] = u
      BY <1>0, <1>1, <2>1, <2>2, <3>0
    <3>2. ~(k < j)
      BY <2>2, <3>0, <3>1 DEF OrderInv
    <3> QED
      BY <1>0, <3>1, <3>2
  <2>3. Place(prefetched[k]) = k
    BY <2>1, <2>2, PlaceIsIndex
  <2>4. InputSeq[k] \in Selected /\ Place(InputSeq[k]) = k
    BY <2>1, InputIs
  <2>5. prefetched[k] \in Selected
    BY <2>1
  <2>6. ~(InputSeq[k] < prefetched[k]) /\ ~(prefetched[k] < InputSeq[k])
    BY <2>3, <2>4, <2>5, <1>0, PlaceGrows
  <2> QED
    BY <2>4, <2>5, <2>6, SelectionFinite
<1> QED
  BY <1>0, <1>4, <1>5, <1>6

-----------------------------------------------------------------------------
(* The refinement.  Each step of the four threads is a step of the promise, *)
(* or one its caller cannot tell from no step.                              *)

PromiseInv == TypeOK /\ ErrorsInv /\ OrderInv /\ ResultInv /\ TakenBounded

(* While the manifest is not out, no thread has seen the pack published. *)
LEMMA NotPublished ==
  ASSUME PromiseInv, mpc # "returned"
  PROVE  ~Committed /\ Outcome = IF mpc = "raised" THEN "raised" ELSE "running"
  BY DEF PromiseInv, ResultInv, CommitInv, Outcome

(* A put of the producer: the tensor is the next of the input, and the      *)
(* three queues leave room for it.                                          *)
LEMMA PutEnters ==
  ASSUME PromiseInv, Next, PutCandidate
  PROVE  Promise!Enter
<1>0. /\ Len(prefetched) < Len(InputSeq) /\ Len(prefetched) \in Nat
      /\ taken \in 0..Len(prefetched) /\ taken - fdone <= FinalizeDepth + 2
      /\ fdone \in Nat /\ LeftCount \in 0..taken
      /\ LeftCount = IF fdone <= taken THEN fdone ELSE taken
      /\ Len(prefetched) - taken < PrefetchDepth
      /\ PrefetchDepth \in Nat /\ FinalizeDepth \in Nat
  <2>1. ppc = "put" /\ Len(prefetched) - taken < PrefetchDepth
    BY DEF PutCandidate
  <2>2. Len(prefetched) < Len(InputSeq)
    BY <2>1, InputStarts DEF PromiseInv, ResultInv
  <2> QED
    BY <2>1, <2>2, PrefetchType, LeftIs, PackAssumption
    DEF PromiseInv, ResultInv, TakenBounded
<1>1. Len(prefetched) - LeftCount < InFlight
  BY <1>0 DEF InFlight
<1>2. Len(prefetched') = Len(prefetched) + 1
  BY AppendProperties DEF PutCandidate, PromiseInv, TypeOK, ProducerTypeOK
<1>3. UNCHANGED <<manifest, exc, writeErrors, fErrors, mpc, published>>
  BY DEF PutCandidate, main, writer, finalizer
<1>4. LeftCount' = LeftCount
  <2>1. ~FinalizeItem /\ ~FailItem
    BY <1>0, <1>2 DEF FinalizeItem, FailItem, producer
  <2> QED
    BY <2>1, LeftSteps DEF PromiseInv, ResultInv
<1>5. UNCHANGED <<KeptNames, HasFailed, Outcome>>
  BY <1>3 DEF KeptNames, HasFailed, Outcome, Committed
<1> QED
  BY <1>0, <1>1, <1>2, <1>4, <1>5 DEF Promise!Enter

(* The finalizer's append: the tensor that has been in flight longest       *)
(* leaves with its entry.                                                   *)
LEMMA FinalizeLeaves ==
  ASSUME PromiseInv, Next, FinalizeItem
  PROVE  Promise!Leave
<1>1. /\ LeftCount' = LeftCount + 1 /\ Item = prefetched[LeftCount + 1]
      /\ LeftCount < taken /\ UNCHANGED prefetched
  BY LeftSteps DEF PromiseInv, ResultInv
<1>2. /\ LeftCount \in Nat /\ taken <= Len(prefetched)
      /\ Len(prefetched) \in Nat /\ taken \in Nat
  BY PrefetchType, LeftIs DEF PromiseInv, ResultInv
<1>3. LeftCount + 1 \in 1..Len(prefetched)
  BY <1>1, <1>2
<1>4. Item = InputSeq[LeftCount + 1]
  BY <1>1, <1>3, InputStarts DEF PromiseInv, ResultInv
<1>5. KeptNames' = Append(KeptNames, InputSeq[LeftCount + 1])
  <2>1. /\ manifest' = Append(manifest, Entry(Item)) /\ Entry(Item).name = Item
        /\ manifest \in Seq(Entries)
    BY DEF FinalizeItem, Entry, PromiseInv, TypeOK, FinalizerTypeOK
  <2> HIDE DEF Entry
  <2>2. /\ DOMAIN manifest = 1..Len(manifest) /\ Len(manifest) \in Nat
        /\ DOMAIN manifest' = 1..(Len(manifest) + 1)
        /\ \A k \in 1..Len(manifest) : manifest'[k] = manifest[k]
        /\ manifest'[Len(manifest) + 1].name = Item
    BY <2>1, AppendProperties
  <2>3. /\ KeptNames = [k \in 1..Len(manifest) |-> manifest[k].name]
        /\ Len(KeptNames) = Len(manifest)
    BY <2>2 DEF KeptNames
  <2>4. KeptNames' = [k \in 1..(Len(manifest) + 1) |->
                        IF k \in 1..Len(manifest) THEN manifest[k].name
                        ELSE Item]
    <3>1. KeptNames' = [k \in 1..(Len(manifest) + 1) |-> manifest'[k].name]
      BY <2>2 DEF KeptNames
    <3>2. \A k \in 1..(Len(manifest) + 1) :
            manifest'[k].name = IF k \in 1..Len(manifest)
                                THEN manifest[k].name ELSE Item
      <4>1. \A k \in 1..(Len(manifest) + 1) :
              k \in 1..Len(manifest) \/ k = Len(manifest) + 1
        BY <2>2
      <4> QED
        BY <2>2, <4>1
    <3> QED
      BY <3>1, <3>2
  <2>5. Append(KeptNames, Item) = [k \in 1..(Len(manifest) + 1) |->
                                     IF k \in 1..Len(manifest)
                                     THEN manifest[k].name ELSE Item]
    BY <2>2, <2>3
  <2> QED
    BY <1>4, <2>4, <2>5
<1>6. /\ UNCHANGED <<exc, writeErrors, fErrors, mpc, published>>
      /\ mpc # "returned"
  BY DEF FinalizeItem, Finalizing, producer, main, writer, PromiseInv, TypeOK,
     FinalizerTypeOK, ErrorsInv, PastDrain
<1>7. UNCHANGED <<HasFailed, Outcome>> /\ Outcome # "published"
  BY <1>6, NotPublished DEF HasFailed, Outcome, Committed
<1> QED
  BY <1>1, <1>2, <1>5, <1>7 DEF Promise!Leave

(* An exception of the finalizer spoils the tensor in its hands. *)
LEMMA FailSpoils ==
  ASSUME PromiseInv, Next, FailItem
  PROVE  Promise!Spoil
<1>1. /\ LeftCount' = LeftCount + 1 /\ LeftCount < taken
      /\ UNCHANGED prefetched
  BY LeftSteps DEF PromiseInv, ResultInv
<1>2. /\ LeftCount \in Nat /\ taken <= Len(prefetched)
      /\ Len(prefetched) \in Nat /\ taken \in Nat
  BY PrefetchType, LeftIs DEF PromiseInv, ResultInv
<1>3. /\ UNCHANGED <<manifest, mpc, published>> /\ fErrors'
      /\ mpc # "returned" /\ Failures # {}
  BY DEF FailItem, Finalizing, producer, main, writer, PromiseInv, TypeOK,
     FinalizerTypeOK, ErrorsInv, PastDrain
<1>4. HasFailed' = TRUE
  BY <1>3, Zenon DEF HasFailed
<1>5. UNCHANGED <<KeptNames, Outcome>> /\ Outcome # "published"
  BY <1>3, NotPublished DEF KeptNames, Outcome, Committed
<1> QED
  BY <1>1, <1>2, <1>3, <1>4, <1>5 DEF Promise!Spoil

(* An exception of the producer or of a queued write is a failure of the    *)
(* pack before anybody has looked at it.                                    *)
LEMMA ErrorFails ==
  ASSUME PromiseInv, Next, ProducerFail \/ FailTask
  PROVE  Promise!Fail
<1>1. /\ UNCHANGED <<manifest, mpc, published, prefetched>>
      /\ exc' \/ writeErrors'
      /\ mpc # "returned" /\ Failures # {}
  <2>1. CASE ProducerFail
    BY <2>1 DEF ProducerFail, finalizer, main, PromiseInv, ErrorsInv, PastJoin
  <2>2. CASE FailTask
    BY <2>2 DEF FailTask, Writing, producer, finalizer, main, PromiseInv,
       TypeOK, WriterTypeOK, ErrorsInv, PastFlush
  <2> QED
    BY <2>1, <2>2
<1>2. HasFailed' = TRUE
  BY <1>1, Zenon DEF HasFailed
<1>3. UNCHANGED <<KeptNames, Outcome>> /\ Outcome # "published"
  BY <1>1, NotPublished DEF KeptNames, Outcome, Committed
<1>4. LeftCount' = LeftCount
  <2>1. ~FinalizeItem /\ ~FailItem
    <3>1. CASE ProducerFail
      BY <3>1 DEF ProducerFail, finalizer, FinalizeItem, FailItem, PromiseInv,
         TypeOK, FinalizerTypeOK
    <3>2. CASE FailTask
      BY <3>2 DEF FailTask, finalizer, FinalizeItem, FailItem, PromiseInv,
         TypeOK, FinalizerTypeOK
    <3> QED
      BY <3>1, <3>2
  <2> QED
    BY <2>1, LeftSteps DEF PromiseInv, ResultInv
<1> QED
  BY <1>1, <1>2, <1>3, <1>4 DEF Promise!Fail

(* The write of manifest.json publishes the whole input: no thread has      *)
(* failed, and the finalizer has let every tensor leave.                    *)
LEMMA ManifestPublishes ==
  ASSUME PromiseInv, Next, WriteManifest
  PROVE  Promise!Publish
<1>1. /\ mpc = "committing" /\ mpc' = "returned"
      /\ published'.state = "complete"
      /\ UNCHANGED <<prefetched, manifest, exc, writeErrors, fErrors, fdone>>
  BY DEF WriteManifest, producer, writer, finalizer
<1>2. ~exc /\ ~writeErrors /\ ~fErrors
  BY <1>1 DEF PromiseInv, ErrorsInv, PastJoin, PastDrain, PastFlush
<1>3. Outcome = "running" /\ Outcome' = "published"
  <2>1. Outcome = "running"
    BY <1>1, NotPublished
  <2> QED
    BY <1>1, <2>1 DEF Outcome, Committed
<1>4. ~HasFailed /\ HasFailed' = HasFailed
  <2>1. HasFailed = FALSE
    BY <1>1, <1>2 DEF HasFailed
  <2>2. HasFailed' = FALSE
    BY <1>1, <1>2 DEF HasFailed
  <2> QED
    BY <2>1, <2>2
<1>5. LeftCount = Len(InputSeq)
  <2>1. /\ ppc = "done" /\ taken = Len(prefetched) /\ fdone = Len(handed)
        /\ Len(handed) = taken + 1
    BY <1>1 DEF PromiseInv, ErrorsInv, ResultInv, CommitInv, HandInv, PastJoin,
       PastDrain
  <2>2. LeftCount = Len(prefetched)
    BY <2>1, LeftIs, PrefetchType DEF PromiseInv, ResultInv
  <2>3. Prefetched = Selected
    BY <1>2, <2>1, ScanEnds DEF PromiseInv, ResultInv
  <2>4. Len(prefetched) = Cardinality(Selected)
    BY <2>3 DEF PromiseInv, ResultInv, ScanInv
  <2> QED
    BY <2>2, <2>4, InputIs
<1>6. UNCHANGED <<KeptNames, LeftCount>>
  <2>1. ~FinalizeItem /\ ~FailItem
    BY <1>1 DEF FinalizeItem, FailItem, PromiseInv, TypeOK, FinalizerTypeOK
  <2> QED
    BY <1>1, <2>1, LeftSteps DEF PromiseInv, ResultInv, KeptNames
<1> QED
  BY <1>1, <1>3, <1>4, <1>5, <1>6 DEF Promise!Publish

(* pack_checkpoint raises for a cause: an error a thread has recorded, a    *)
(* failure of its own, or nothing to pack.                                  *)
LEMMA RaiseHasCause ==
  ASSUME PromiseInv, Main, mpc' = "raised"
  PROVE  HasFailed \/ Failures # {} \/ InputSeq = <<>>
<1>1. CASE RefineScales
  <2>1. writeErrors
    BY <1>1 DEF RefineScales
  <2> QED
    BY <2>1, Zenon DEF HasFailed
<1>2. CASE MainFail \/ WriteDenseFail
  BY <1>2 DEF MainFail, WriteDenseFail
<1>3. CASE JoinProducer
  <2>1. CASE exc
    BY <2>1, Zenon DEF HasFailed
  <2>2. CASE ~exc
    <3>1. ppc = "done" /\ prefetched = <<>>
      BY <1>3, <2>2 DEF JoinProducer, NothingFound
    <3>2. Prefetched = Selected
      BY <2>2, <3>1, ScanEnds DEF PromiseInv, ResultInv
    <3>3. Cardinality(Selected) = 0
      BY <3>1, <3>2, EmptySeq DEF PromiseInv, ResultInv, ScanInv
    <3>4. InputSeq \in Seq(Selected) /\ Len(InputSeq) = 0
      BY <3>3, InputIs, SelectionFinite
    <3> QED
      BY <3>4, EmptySeq
  <2> QED
    BY <2>1, <2>2
<1>4. CASE DrainFinalizer
  <2>1. fErrors
    BY <1>4 DEF DrainFinalizer
  <2> QED
    BY <2>1, Zenon DEF HasFailed
<1>5. CASE FlushWriter
  <2>1. writeErrors
    BY <1>5 DEF FlushWriter
  <2> QED
    BY <2>1, Zenon DEF HasFailed
<1>6. CASE CheckLoop \/ TakeCandidate \/ GetTimeout \/ SkipSaturated
           \/ SubmitCodebook \/ SubmitIndices \/ SubmitReassignment
           \/ SubmitBarrier \/ HandOff \/ WriteDense \/ StopFinalizer
           \/ OpenManifest \/ WriteManifest
  BY <1>6 DEF CheckLoop, TakeCandidate, GetTimeout, SkipSaturated,
     SubmitCodebook, SubmitIndices, SubmitReassignment, SubmitBarrier, HandOff,
     WriteDense, StopFinalizer, OpenManifest, WriteManifest, NextStage,
     NextPhase, AfterStrategies
<1> QED
  BY <1>1, <1>2, <1>3, <1>4, <1>5, <1>6 DEF Main

(* Any other step of main is a raise, or nothing its caller can see: what   *)
(* it works on next is not part of the promise.                             *)
LEMMA MainRaises ==
  ASSUME PromiseInv, Next, Main, ~WriteManifest
  PROVE  Promise!Raise \/ UNCHANGED Promise!ovars
<1>1. /\ UNCHANGED <<prefetched, manifest, exc, writeErrors, fErrors, fdone>>
      /\ mpc \notin {"returned", "raised"}
  <2>1. UNCHANGED <<prefetched, manifest, exc, writeErrors, fErrors, fdone>>
    BY MainFrame DEF producer, writer, finalizer
  <2>2. mpc \notin {"returned", "raised"}
    BY DEF Main, CheckLoop, TakeCandidate, GetTimeout, SkipSaturated,
       SubmitCodebook, SubmitIndices, SubmitReassignment, RefineScales,
       SubmitBarrier, HandOff, MainFail, JoinProducer, WriteDense,
       WriteDenseFail, StopFinalizer, DrainFinalizer, FlushWriter,
       OpenManifest, WriteManifest
  <2> QED
    BY <2>1, <2>2
<1>2. UNCHANGED <<KeptNames, LeftCount>>
  <2>1. ~FinalizeItem /\ ~FailItem
    BY <1>1 DEF FinalizeItem, FailItem, PromiseInv, TypeOK, FinalizerTypeOK
  <2> QED
    BY <1>1, <2>1, LeftSteps DEF PromiseInv, ResultInv, KeptNames
<1>3. Outcome = "running" /\ ~Committed
  BY <1>1, NotPublished
<1>4. ~Committed'
  <2>1. published' = published \/ published'.state = "torn"
    BY DEF Main, CheckLoop, TakeCandidate, GetTimeout, SkipSaturated,
       SubmitCodebook, SubmitIndices, SubmitReassignment, RefineScales,
       SubmitBarrier, HandOff, MainFail, JoinProducer, WriteDense,
       WriteDenseFail, StopFinalizer, DrainFinalizer, FlushWriter,
       OpenManifest
  <2> QED
    BY <1>3, <2>1 DEF Committed
<1>5. CASE mpc' = "raised"
  <2>1. HasFailed' = TRUE
    BY <1>5, Zenon DEF HasFailed
  <2>2. Outcome' = "raised"
    BY <1>4, <1>5 DEF Outcome
  <2>3. Promise!Raise
    BY <1>1, <1>2, <1>3, <1>5, <2>1, <2>2, RaiseHasCause DEF Promise!Raise
  <2> QED
    BY <2>3
<1>6. CASE mpc' # "raised"
  <2>1. HasFailed' = HasFailed
    BY <1>1, <1>6 DEF HasFailed
  <2>2. Outcome' = Outcome
    BY <1>3, <1>4, <1>6 DEF Outcome
  <2> QED
    BY <1>1, <1>2, <2>1, <2>2 DEF Promise!ovars
<1> QED
  BY <1>5, <1>6

(* The scan, the writer's progress and the sentinel are not seen either. *)
LEMMA Unseen ==
  ASSUME PromiseInv, [Next]_vars, ~Main, ~PutCandidate, ~ProducerFail,
         ~FailTask, ~FinalizeItem, ~FailItem
  PROVE  UNCHANGED Promise!ovars
<1>1. UNCHANGED <<prefetched, manifest, exc, writeErrors, fErrors, mpc,
                  published>>
  <2>1. CASE Producer
    BY <2>1, ProducerFrame
    DEF Producer, ScanDense, ScanUnlisted, ScanCandidate, ScanEnd, Reserve,
        main, writer, finalizer
  <2>2. CASE Writer
    BY <2>2, WriterFrame
    DEF Writer, StartTask, FinishCodebook, FinishIndices, FinishBarrier,
        main, producer, finalizer
  <2>3. CASE Finalizer
    BY <2>3, FinalizerFrame
    DEF Finalizer, StartItem, StopItem, main, producer, writer
  <2>4. CASE UNCHANGED vars
    BY <2>4 DEF vars, main, producer, writer, finalizer
  <2> QED
    BY <2>1, <2>2, <2>3, <2>4 DEF Next, Finished
<1>2. LeftCount' = LeftCount
  BY LeftSteps DEF PromiseInv, ResultInv
<1> QED
  BY <1>1, <1>2 DEF Promise!ovars, KeptNames, HasFailed, Outcome, Committed

(* The pack with its threads, queues and files does what PackOrder says:    *)
(* tensors enter in checkpoint order, at most InFlight of them are between  *)
(* the producer and the manifest, they leave in that order, a pack in which *)
(* anything failed never publishes, and it raises only with a cause.        *)
THEOREM PackKeepsPromise == Spec => Promise!OSafe
<1>1. Init => Promise!OInit
  <2> SUFFICES ASSUME Init PROVE Promise!OInit
    OBVIOUS
  <2>1. /\ Len(prefetched) = 0 /\ manifest = <<>> /\ DOMAIN <<>> = {}
        /\ fdone = 0 /\ ~exc /\ ~writeErrors /\ ~fErrors /\ mpc = "poll"
        /\ published.state = "absent"
    BY EmptySeq DEF Init
  <2>2. KeptNames = <<>>
    BY <2>1 DEF KeptNames
  <2>3. HasFailed = FALSE
    BY <2>1 DEF HasFailed
  <2> QED
    BY <2>1, <2>2, <2>3 DEF Promise!OInit, LeftCount, Outcome, Committed
<1>2. ASSUME PromiseInv, [Next]_vars
      PROVE  [Promise!ONext]_(Promise!ovars)
  <2>1. CASE Next /\ (\/ PutCandidate \/ ProducerFail \/ FailTask
                      \/ FinalizeItem \/ FailItem \/ WriteManifest)
    BY <1>2, <2>1, PutEnters, ErrorFails, FinalizeLeaves, FailSpoils,
       ManifestPublishes DEF Promise!ONext
  <2>2. CASE Main /\ ~WriteManifest
    BY <1>2, <2>2, MainRaises DEF Promise!ONext, Next
  <2>3. CASE /\ ~Main /\ ~PutCandidate /\ ~ProducerFail /\ ~FailTask
             /\ ~FinalizeItem /\ ~FailItem
    BY <1>2, <2>3, Unseen
  <2> QED
    BY <1>2, <2>1, <2>2, <2>3 DEF Next, Main, Producer, Writer, Finalizer
<1>3. TypeOK /\ ErrorsInv /\ FilesInv /\ ResultInv /\ TakenBounded
        => PromiseInv
  BY DEF PromiseInv, FilesInv
<1> QED
  BY <1>1, <1>2, <1>3, TypeCorrect, ErrorsInvariant, FilesInvariant,
     ResultInvariant, TakenAlwaysBounded, PTL DEF Spec, Promise!OSafe

-----------------------------------------------------------------------------
(* The prefetch budget.  The bytes PrefetchBudget has outstanding are those *)
(* of the resident payloads, summed in the order of the checkpoint.         *)

Weight(t, R) == IF t \in R THEN Est(t) ELSE 0

Sums(s, R) ==
  /\ s \in [0..N -> Nat] /\ s[0] = 0
  /\ \A t \in 1..N : s[t] = s[t - 1] + Weight(t, R)
  /\ \A i, j \in 0..N : i <= j => s[i] <= s[j]

(* A payload costs what reserve was asked for it; with a budget, something. *)
LEMMA EstNat ==
  ASSUME NEW t \in 1..N
  PROVE  Est(t) \in Nat /\ (Budget > 0 => Est(t) > 0)
  BY PackAssumption DEF Est

(* reserve: one payload more. *)
LEMMA SumAdds ==
  ASSUME NEW R, NEW s, Sums(s, R), NEW x \in 1..N, x \notin R
  PROVE  \E r : Sums(r, R \cup {x}) /\ r[N] = s[N] + Est(x)
<1> DEFINE r == [t \in 0..N |-> IF t < x THEN s[t] ELSE s[t] + Est(x)]
<1>0. /\ N \in Nat /\ Est(x) \in Nat
      /\ \A t \in 0..N : s[t] \in Nat
      /\ \A t \in 1..N : t - 1 \in 0..N
  BY PackAssumption, EstNat DEF Sums
<1>1. r \in [0..N -> Nat] /\ r[0] = 0 /\ r[N] = s[N] + Est(x)
  BY <1>0 DEF Sums
<1>2. ASSUME NEW t \in 1..N
      PROVE  r[t] = r[t - 1] + Weight(t, R \cup {x})
  <2>1. s[t] = s[t - 1] + Weight(t, R)
    BY DEF Sums
  <2>2. /\ r[t] = IF t < x THEN s[t] ELSE s[t] + Est(x)
        /\ r[t - 1] = IF t - 1 < x THEN s[t - 1] ELSE s[t - 1] + Est(x)
    BY <1>0
  <2>3. CASE t = x
    <3>1. Weight(t, R \cup {x}) = Est(x) /\ Weight(t, R) = 0
      BY <2>3 DEF Weight
    <3>2. s[t] \in Nat /\ s[t - 1] \in Nat /\ t - 1 < x /\ ~(t < x)
      BY <1>0, <2>3
    <3> HIDE DEF r
    <3> QED
      BY <1>0, <2>1, <2>2, <3>1, <3>2
  <2>4. CASE t # x
    <3>1. Weight(t, R \cup {x}) = Weight(t, R)
      BY <2>4 DEF Weight
    <3>2. s[t] \in Nat /\ s[t - 1] \in Nat /\ ((t - 1 < x) <=> (t < x))
      BY <1>0, <2>4
    <3>3. Weight(t, R) \in Nat
      BY EstNat DEF Weight
    <3> HIDE DEF r
    <3> QED
      BY <1>0, <2>1, <2>2, <3>1, <3>2, <3>3
  <2> QED
    BY <2>3, <2>4
<1>3. ASSUME NEW i \in 0..N, NEW j \in 0..N, i <= j
      PROVE  r[i] <= r[j]
  <2>1. s[i] \in Nat /\ s[j] \in Nat /\ s[i] <= s[j]
    BY <1>0, <1>3 DEF Sums
  <2>2. j < x => i < x
    BY <1>0, <1>3
  <2> QED
    BY <1>0, <2>1, <2>2
<1>4. Sums(r, R \cup {x})
  <2> HIDE DEF r
  <2> QED
    BY <1>1, <1>2, <1>3 DEF Sums
<1> QED
  BY <1>1, <1>4

(* release: one payload less, and never more than is outstanding. *)
LEMMA SumRemoves ==
  ASSUME NEW R, NEW s, Sums(s, R), NEW x \in 1..N, x \in R
  PROVE  /\ s[N] >= Est(x) /\ s[N] \in Nat
         /\ \E r : Sums(r, R \ {x}) /\ r[N] = s[N] - Est(x)
<1> DEFINE r == [t \in 0..N |-> IF t < x THEN s[t] ELSE s[t] - Est(x)]
<1>0. /\ N \in Nat /\ Est(x) \in Nat
      /\ \A t \in 0..N : s[t] \in Nat
      /\ \A t \in 1..N : t - 1 \in 0..N
  BY PackAssumption, EstNat DEF Sums
<1>1. /\ \A t \in 0..N : ~(t < x) => s[t] >= s[x]
      /\ \A t \in 0..N : t < x => s[t] <= s[x - 1]
      /\ s[x] = s[x - 1] + Est(x)
  <2>1. s[x] = s[x - 1] + Est(x)
    BY DEF Sums, Weight
  <2>2. ASSUME NEW t \in 0..N, ~(t < x)
        PROVE  s[t] >= s[x]
    BY <1>0, <2>2 DEF Sums
  <2>3. ASSUME NEW t \in 0..N, t < x
        PROVE  s[t] <= s[x - 1]
    <3>1. t <= x - 1 /\ x - 1 \in 0..N
      BY <1>0, <2>3
    <3> QED
      BY <3>1 DEF Sums
  <2> QED
    BY <2>1, <2>2, <2>3
<1>2. s[x - 1] \in Nat /\ s[x] \in Nat /\ s[N] \in Nat /\ s[N] >= s[x]
  BY <1>0, <1>1
<1>3. s[N] >= Est(x)
  BY <1>0, <1>1, <1>2
<1>4. \A t \in 0..N : r[t] = IF t < x THEN s[t] ELSE s[t] - Est(x)
  OBVIOUS
<1>5. r \in [0..N -> Nat] /\ r[0] = 0 /\ r[N] = s[N] - Est(x)
  <2>1. ASSUME NEW t \in 0..N
        PROVE  r[t] \in Nat
    BY <1>0, <1>1, <1>2, <1>4
  <2>2. r[0] = 0
    BY <1>0 DEF Sums
  <2>3. r[N] = s[N] - Est(x)
    BY <1>0
  <2> QED
    BY <2>1, <2>2, <2>3
<1>6. ASSUME NEW t \in 1..N
      PROVE  r[t] = r[t - 1] + Weight(t, R \ {x})
  <2>1. s[t] = s[t - 1] + Weight(t, R) /\ s[t] \in Nat /\ s[t - 1] \in Nat
    BY <1>0 DEF Sums
  <2>2. /\ r[t] = IF t < x THEN s[t] ELSE s[t] - Est(x)
        /\ r[t - 1] = IF t - 1 < x THEN s[t - 1] ELSE s[t - 1] - Est(x)
    BY <1>0, <1>4
  <2>3. CASE t = x
    <3>1. Weight(t, R \ {x}) = 0
      BY <2>3 DEF Weight
    <3>2. t - 1 < x /\ ~(t < x)
      BY <1>0, <2>3
    <3> HIDE DEF r
    <3> QED
      BY <1>0, <1>1, <1>2, <2>2, <2>3, <3>1, <3>2
  <2>4. CASE t # x
    <3>1. Weight(t, R \ {x}) = Weight(t, R) /\ Weight(t, R) \in Nat
      BY <2>4, EstNat DEF Weight
    <3>2. (t - 1 < x) <=> (t < x)
      BY <1>0, <2>4
    <3> HIDE DEF r
    <3> QED
      BY <1>0, <2>1, <2>2, <3>1, <3>2
  <2> QED
    BY <2>3, <2>4
<1>7. ASSUME NEW i \in 0..N, NEW j \in 0..N, i <= j
      PROVE  r[i] <= r[j]
  <2>1. s[i] \in Nat /\ s[j] \in Nat /\ s[i] <= s[j]
    BY <1>0, <1>7 DEF Sums
  <2>2. CASE (j < x) <=> (i < x)
    <3> HIDE DEF r
    <3> QED
      BY <1>0, <1>4, <2>1, <2>2
  <2>3. CASE i < x /\ ~(j < x)
    <3>1. s[i] <= s[x - 1] /\ s[j] >= s[x]
      BY <1>1, <2>3
    <3> HIDE DEF r
    <3> QED
      BY <1>0, <1>1, <1>2, <1>4, <2>1, <2>3, <3>1
  <2> QED
    BY <1>0, <1>7, <2>2, <2>3
<1>8. Sums(r, R \ {x})
  <2> HIDE DEF r
  <2> QED
    BY <1>5, <1>6, <1>7 DEF Sums
<1> QED
  BY <1>2, <1>3, <1>5, <1>8

(* While the producer has not failed, what is outstanding is the sum, and   *)
(* only a payload that does not fit at all is admitted over the budget: it  *)
(* is then alone.                                                           *)
BudgetInv ==
  ~exc =>
    /\ \E s : Sums(s, Resident) /\ outstanding = s[N]
    /\ (Budget > 0 /\ outstanding > Budget) =>
         \E t \in 1..N : Resident = {t} /\ outstanding = Est(t)

(* A tensor is resident from its reservation to its entry in the manifest:  *)
(* the producer looks at a later one, and the finalizer's is not retired.   *)
LEMMA ResidentMoves ==
  ASSUME TypeOK, OrderInv, ResultInv, [Next]_vars
  PROVE  /\ Reserve => Resident' = Resident \cup {pos} /\ pos \notin Resident
         /\ FinalizeItem => Resident' = Resident \ {Item} /\ Item \in Resident
         /\ ~Reserve /\ ~FinalizeItem /\ ~ProducerFail => Resident' = Resident
         /\ Resident \subseteq 1..N
<1>0. /\ pos \notin Prefetched /\ DOMAIN prefetched = 1..Len(prefetched)
      /\ DOMAIN manifest = 1..Len(manifest) /\ Len(manifest) \in Nat
      /\ Len(prefetched) \in Nat /\ manifest \in Seq(Entries)
      /\ ppc \in {"reserve", "put"} => pos \in 1..N
  <2>1. DOMAIN prefetched = 1..Len(prefetched) /\ pos \in Nat
        /\ \A n \in 1..Len(prefetched) : prefetched[n] \in Nat
    BY PrefetchType DEF TypeOK, ProducerTypeOK
  <2>2. pos \notin Prefetched
    BY <2>1 DEF OrderInv, Prefetched
  <2> QED
    BY <2>1, <2>2, PrefetchType, PackAssumption
    DEF TypeOK, ProducerTypeOK, FinalizerTypeOK
<1>1. LeftCount \in Nat /\ LeftCount <= taken /\ taken <= Len(prefetched)
      /\ taken \in Nat
  BY LeftIs, PrefetchType DEF ResultInv
<1>2. \A u \in Retired : \E j \in 1..LeftCount : u = prefetched[j]
  BY <1>0 DEF ResultInv, ManifestInv, Retired
<1>3. Retired \subseteq Prefetched /\ pos \notin Retired
  <2>1. \A j \in 1..LeftCount : j \in DOMAIN prefetched
    BY <1>0, <1>1
  <2> QED
    BY <1>0, <1>2, <2>1 DEF Prefetched
<1>4. Prefetched \subseteq 1..N
  BY <1>0, PrefetchType DEF Prefetched
<1>5. Resident \subseteq 1..N
  BY <1>0, <1>4 DEF Resident
<1>6. ASSUME Reserve
      PROVE  Resident' = Resident \cup {pos} /\ pos \notin Resident
  <2>1. ppc = "reserve" /\ ppc' = "put" /\ UNCHANGED <<pos, prefetched, manifest>>
    BY <1>6 DEF Reserve, finalizer
  <2> QED
    BY <1>0, <2>1 DEF Resident, Prefetched, Retired
<1>7. ASSUME FinalizeItem
      PROVE  Resident' = Resident \ {Item} /\ Item \in Resident
  <2>1. /\ Item = prefetched[LeftCount + 1] /\ LeftCount < taken
        /\ UNCHANGED <<ppc, pos, prefetched>>
        /\ manifest' = Append(manifest, Entry(Item)) /\ Entry(Item).name = Item
    BY <1>7, LeftSteps DEF FinalizeItem, producer, Entry, ResultInv
  <2>2. LeftCount + 1 \in DOMAIN prefetched
    BY <1>0, <1>1, <2>1
  <2>3. Item \in Prefetched /\ Item # pos
    BY <1>0, <2>1, <2>2 DEF Prefetched
  <2>4. Item \notin Retired
    <3>1. ASSUME NEW j \in 1..LeftCount
          PROVE  prefetched[j] < prefetched[LeftCount + 1]
      BY <1>0, <1>1, <2>1, <2>2 DEF OrderInv
    <3>2. Item \in Nat
      BY <1>0, <2>1, <2>2, PrefetchType
    <3> QED
      BY <1>2, <2>1, <3>1, <3>2
  <2>5. Retired' = Retired \cup {Item}
    <3> HIDE DEF Entry
    <3>1. /\ DOMAIN manifest' = 1..(Len(manifest) + 1)
          /\ \A k \in 1..Len(manifest) : manifest'[k] = manifest[k]
          /\ manifest'[Len(manifest) + 1].name = Item
      BY <1>0, <2>1, AppendProperties
    <3>2. 1..(Len(manifest) + 1) = (1..Len(manifest)) \cup {Len(manifest) + 1}
      BY <1>0
    <3> QED
      BY <1>0, <3>1, <3>2 DEF Retired
  <2>6. Prefetched' = Prefetched
    BY <2>1 DEF Prefetched
  <2> QED
    BY <2>1, <2>3, <2>4, <2>5, <2>6 DEF Resident
<1>8. ASSUME PutCandidate
      PROVE  Resident' = Resident
  <2>1. /\ ppc = "put" /\ ppc' = "scan" /\ manifest' = manifest
        /\ prefetched' = Append(prefetched, pos) /\ prefetched \in Seq(Tensors)
        /\ pos \in Tensors
    BY <1>0, <1>8 DEF PutCandidate, finalizer, TypeOK, ProducerTypeOK
  <2>2. /\ DOMAIN prefetched' = 1..(Len(prefetched) + 1)
        /\ \A k \in 1..Len(prefetched) : prefetched'[k] = prefetched[k]
        /\ prefetched'[Len(prefetched) + 1] = pos
    BY <2>1, AppendProperties
  <2>3. 1..(Len(prefetched) + 1) = (1..Len(prefetched)) \cup {Len(prefetched) + 1}
    BY <1>0
  <2>4. Prefetched' = Prefetched \cup {pos}
    BY <1>0, <2>2, <2>3 DEF Prefetched
  <2>5. Retired' = Retired
    BY <2>1 DEF Retired
  <2> QED
    BY <1>3, <2>1, <2>4, <2>5 DEF Resident
<1>9. ASSUME ~Reserve, ~FinalizeItem, ~ProducerFail, ~PutCandidate
      PROVE  Resident' = Resident
  <2>1. UNCHANGED <<prefetched, manifest>>
        /\ (ppc = "put" <=> ppc' = "put") /\ (ppc = "put" => pos' = pos)
    <3>1. CASE Producer
      BY <1>9, <3>1 DEF Producer, ScanDense, ScanUnlisted, ScanCandidate,
         ScanEnd, finalizer
    <3>2. CASE Finalizer
      BY <1>9, <3>2, FinalizerFrame
      DEF Finalizer, StartItem, FailItem, StopItem, producer
    <3>3. CASE Main \/ Writer \/ UNCHANGED vars
      BY <3>3, MainFrame, WriterFrame DEF producer, finalizer, vars
    <3> QED
      BY <3>1, <3>2, <3>3 DEF Next, Finished
  <2> QED
    BY <2>1 DEF Resident, Prefetched, Retired
<1> QED
  BY <1>5, <1>6, <1>7, <1>8, <1>9

(* reserve waits until the bytes fit or nothing is outstanding; release     *)
(* gives back what the tensor reserved.                                     *)
LEMMA BudgetStep ==
  ASSUME TypeOK, OrderInv, ResultInv, BudgetInv, [Next]_vars
  PROVE  BudgetInv'
<1> SUFFICES ASSUME ~exc'
             PROVE  /\ \E s : Sums(s, Resident') /\ outstanding' = s[N]
                    /\ (Budget > 0 /\ outstanding' > Budget) =>
                         \E t \in 1..N :
                           Resident' = {t} /\ outstanding' = Est(t)
  BY DEF BudgetInv
<1>0. ~exc /\ ~ProducerFail
  <2>1. ~ProducerFail
    BY DEF ProducerFail
  <2>2. exc' = exc
    BY <2>1, MainFrame, WriterFrame, FinalizerFrame
    DEF Next, Finished, Producer, ScanDense, ScanUnlisted, ScanCandidate,
        ScanEnd, Reserve, PutCandidate, producer, vars
  <2> QED
    BY <2>1, <2>2
<1>1. PICK s : Sums(s, Resident) /\ outstanding = s[N]
  BY <1>0 DEF BudgetInv
<1>2. (Budget > 0 /\ outstanding > Budget) =>
        \E t \in 1..N : Resident = {t} /\ outstanding = Est(t)
  BY <1>0 DEF BudgetInv
<1>3. outstanding \in Nat /\ Budget \in Nat
  BY PackAssumption DEF TypeOK, ProducerTypeOK
<1>4. CASE Reserve
  <2>1. /\ Resident' = Resident \cup {pos} /\ pos \notin Resident
        /\ outstanding' = outstanding + Est(pos)
        /\ outstanding = 0 \/ outstanding + Est(pos) <= Budget
    BY <1>4, ResidentMoves DEF Reserve, CanReserve
  <2>2. pos \in 1..N /\ Est(pos) \in Nat
    BY <1>4, EstNat, PackAssumption DEF Reserve, TypeOK, ProducerTypeOK
  <2>3. \E r : Sums(r, Resident') /\ outstanding' = r[N]
    BY <1>1, <2>1, <2>2, SumAdds
  <2>4. ASSUME Budget > 0, outstanding' > Budget
        PROVE  Resident' = {pos} /\ outstanding' = Est(pos)
    <3>1. outstanding = 0
      BY <1>3, <2>1, <2>2, <2>4
    <3>2. ASSUME NEW t \in Resident
          PROVE  FALSE
      <4>1. t \in 1..N
        BY ResidentMoves
      <4>2. s[N] >= Est(t) /\ Est(t) \in Nat /\ Est(t) > 0
        BY <1>1, <2>4, <4>1, SumRemoves, EstNat
      <4> QED
        BY <1>1, <3>1, <4>2
    <3> QED
      BY <2>1, <2>2, <3>1, <3>2
  <2> QED
    BY <2>2, <2>3, <2>4
<1>5. CASE FinalizeItem
  <2>1. /\ Resident' = Resident \ {Item} /\ Item \in Resident /\ Item \in 1..N
        /\ outstanding' = Released(Est(Item)) /\ Est(Item) \in Nat
    BY <1>5, ResidentMoves, EstNat DEF FinalizeItem
  <2>2. /\ outstanding >= Est(Item)
        /\ \E r : Sums(r, Resident') /\ r[N] = s[N] - Est(Item)
    BY <1>1, <2>1, SumRemoves
  <2>3. outstanding' = outstanding - Est(Item)
    BY <1>3, <2>1, <2>2 DEF Released
  <2>4. ~(Budget > 0 /\ outstanding' > Budget)
    <3>1. SUFFICES ASSUME Budget > 0, outstanding' > Budget PROVE FALSE
      OBVIOUS
    <3>2. outstanding > Budget
      BY <1>3, <2>1, <2>3, <3>1
    <3>3. PICK t \in 1..N : Resident = {t} /\ outstanding = Est(t)
      BY <1>2, <3>1, <3>2
    <3>4. outstanding' = 0
      BY <1>3, <2>1, <2>3, <3>3
    <3> QED
      BY <1>3, <3>1, <3>4
  <2> QED
    BY <1>1, <2>2, <2>3, <2>4
<1>6. CASE ~Reserve /\ ~FinalizeItem
  <2>1. Resident' = Resident
    BY <1>0, <1>6, ResidentMoves
  <2>2. outstanding' = outstanding
    BY <1>6, MainFrame, WriterFrame
    DEF Next, Finished, Producer, ScanDense, ScanUnlisted, ScanCandidate,
        ScanEnd, PutCandidate, ProducerFail, Finalizer, StartItem, FailItem,
        StopItem, vars
  <2> QED
    BY <1>1, <1>2, <2>1, <2>2
<1> QED
  BY <1>4, <1>5, <1>6

(* What PrefetchBudget counts is what reserve and release have made of it.  *)
LEMMA BudgetInvariant == Spec => []BudgetInv
<1>1. Init => BudgetInv
  <2> SUFFICES ASSUME Init PROVE BudgetInv
    OBVIOUS
  <2>1. Resident = {} /\ outstanding = 0 /\ N \in Nat /\ Budget \in Nat
    <3>1. Prefetched = {} /\ ppc = "scan" /\ outstanding = 0
      BY EmptySeq DEF Init, Prefetched
    <3> QED
      BY <3>1, PackAssumption DEF Resident
  <2> DEFINE s == [t \in 0..N |-> 0]
  <2>2. Sums(s, Resident) /\ s[N] = 0
    BY <2>1 DEF Sums, Weight
  <2> HIDE DEF s
  <2> QED
    BY <2>1, <2>2 DEF BudgetInv
<1>2. TypeOK /\ OrderInv /\ ResultInv /\ BudgetInv /\ [Next]_vars => BudgetInv'
  BY BudgetStep
<1>3. FilesInv => OrderInv
  BY DEF FilesInv
<1> QED
  BY <1>1, <1>2, <1>3, TypeCorrect, FilesInvariant, ResultInvariant, PTL
  DEF Spec

(* The recursive sum exists, and there is only one. *)
LEMMA SumIsBytes ==
  ASSUME NEW s, Sums(s, Resident)
  PROVE  s[N] = ResidentBytes[N]
<1> DEFINE eq(f) == f = [t \in 0..N |->
                      IF t = 0 THEN 0
                      ELSE f[t - 1] + (IF t \in Resident THEN Est(t) ELSE 0)]
           b == CHOOSE f : eq(f)
           differ == {t \in 0..N : s[t] # b[t]}
<1>0. N \in Nat /\ 0..N \subseteq Nat
  BY PackAssumption
<1>1. eq(s)
  <2>1. /\ s = [t \in 0..N |-> s[t]] /\ s[0] = 0
        /\ \A t \in 1..N : s[t] = s[t - 1]
                             + (IF t \in Resident THEN Est(t) ELSE 0)
    BY DEF Sums, Weight
  <2>2. \A t \in 0..N : t = 0 \/ t \in 1..N
    BY <1>0
  <2>3. \A t \in 0..N : s[t] = IF t = 0 THEN 0 ELSE s[t - 1]
                                 + (IF t \in Resident THEN Est(t) ELSE 0)
    BY <2>1, <2>2
  <2> QED
    BY <2>1, <2>3
<1>2. eq(b)
  <2> HIDE DEF eq
  <2> QED
    BY <1>1
<1>3. ResidentBytes = b
  BY DEF ResidentBytes
<1>4. differ = {}
  <2> HIDE DEF b
  <2>1. SUFFICES ASSUME differ # {} PROVE FALSE
    OBVIOUS
  <2>2. differ \subseteq Nat
    BY <1>0
  <2>3. PICK t \in differ : \A u \in differ : ~(<<u, t>> \in OpToRel(<, Nat))
    BY <2>1, <2>2, NatLessThanWellFounded, WFMin
  <2>4. t \in 0..N /\ s[t] # b[t] /\ \A u \in 0..N : u < t => s[u] = b[u]
    <3>1. t \in 0..N /\ s[t] # b[t] /\ t \in Nat
      BY <1>0
    <3>2. ASSUME NEW u \in 0..N, u < t, s[u] # b[u]
          PROVE  FALSE
      <4>1. u \in differ /\ u \in Nat
        BY <1>0, <3>2
      <4> QED
        BY <2>3, <3>1, <3>2, <4>1 DEF OpToRel
    <3> QED
      BY <3>1, <3>2
  <2>5. t # 0 => (t - 1 \in 0..N /\ t - 1 < t)
    BY <1>0, <2>4
  <2>6. /\ s[t] = IF t = 0 THEN 0 ELSE s[t - 1]
                    + (IF t \in Resident THEN Est(t) ELSE 0)
        /\ b[t] = IF t = 0 THEN 0 ELSE b[t - 1]
                    + (IF t \in Resident THEN Est(t) ELSE 0)
    BY <1>1, <1>2, <2>4
  <2> QED
    BY <2>4, <2>5, <2>6
<1>5. s[N] = b[N]
  <2> HIDE DEF b
  <2> QED
    BY <1>0, <1>4
<1> QED
  BY <1>3, <1>5

(* PrefetchBudget.outstanding is exactly the bytes of the candidates between *)
(* their reservation and their manifest entry: release never gives back too *)
(* much or too little.                                                      *)
THEOREM BudgetAlwaysCounts == Spec => []BudgetCountsResident
<1>1. BudgetInv => BudgetCountsResident
  BY SumIsBytes DEF BudgetInv, BudgetCountsResident
<1> QED
  BY <1>1, BudgetInvariant, PTL

(* The budget is only ever exceeded by one candidate that is larger than    *)
(* all of it, admitted when nothing else was resident.                      *)
THEOREM OverBudgetIsAlone == Spec => []OverBudgetAlone
<1>1. BudgetInv => OverBudgetAlone
  BY FS_Singleton DEF BudgetInv, OverBudgetAlone
<1> QED
  BY <1>1, BudgetInvariant, PTL
=============================================================================
