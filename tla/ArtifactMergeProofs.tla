------------------------ MODULE ArtifactMergeProofs ------------------------
(***************************************************************************)
(* Proofs about ArtifactMerge: for every driver, every size of the         *)
(* checkpoint, any number of devices, attempts and failures.               *)
(***************************************************************************)
EXTENDS ArtifactMerge, WellFoundedInduction, TLAPS

\* What never changes, and what the number of devices is chosen from.
Fixed ==
  /\ driver \in Drivers /\ n \in Sizes
  /\ \A a \in 1 .. attempt : gpus[a] \in Gpus

\* No stream is younger than the present attempt.
Stamped ==
  \A t \in Tensors :
    out.stream[t] <= attempt /\ \A s \in Shards : part[s].stream[t] <= attempt

\* The driver goes on only when the parts before it are packed, and merges
\* only what was not packed in place.
Progress ==
  /\ pc # "idle" => attempt > 0
  /\ pc \in {"pack", "wait"} =>
       at <= Parts(attempt) /\ \A s \in 1 .. at - 1 : worker[attempt][s] = "ok"
  /\ pc = "pack" /\ Direct(attempt) => worker[attempt][1] = "none"
  /\ pc \notin {"idle", "pack", "wait"} =>
       ~Direct(attempt) /\ \A s \in Sources : worker[attempt][s] = "ok"

\* An attempt reports success once, and only with all its parts packed.
Earned ==
  /\ \A f \in finished : \A s \in 1 .. Parts(f) : worker[f][s] = "ok"
  /\ pc # "idle" => attempt \notin finished

\* What the packs of the present attempt have left in their directories, as
\* long as no earlier one interferes and the driver has not emptied them.
Packed ==
  ~overlap /\ pc \notin {"idle", "flag", "reflag"} /\ ~Direct(attempt) =>
    \A s \in Shards :
      /\ worker[attempt][s] \in {"manifest", "ok"} =>
           /\ \A t \in Chunk(attempt, s) : part[s].stream[t] = attempt
           /\ part[s].passed = Passed(attempt, s)
      /\ worker[attempt][s] = "ok" =>
           part[s].manifest = "whole" /\ part[s].listed = Listing(attempt, s)

\* What a pack of the present attempt has left in the output directory itself.
InPlace ==
  ~overlap /\ attempt > 0 /\ Direct(attempt) =>
    /\ worker[attempt][1] \in {"manifest", "ok"} =>
         out.passed = {} /\ \A t \in Tensors : out.stream[t] = attempt
    /\ worker[attempt][1] = "ok" =>
         out.manifest = "whole" /\ \A t \in Tensors : out.listed[t] = attempt

\* The output directory while a merge fills it; a pack in place that outlived
\* its driver may write to it too.
Merging ==
  /\ pc \in {"copy", "commit", "publish", "flag", "reflag"} => out.there
  /\ pc \in {"copy", "commit", "publish", "clean"} => ~nested
  /\ ~overlap =>
       /\ pc \in {"copy", "commit"} => out.manifest = "none"
       /\ pc \in {"publish", "reflag"} => out.manifest = "torn"
       /\ pc \in {"copy", "commit", "publish"} => out.passed = {} /\
            \A s \in Shards : read[s] = IF s <= Parts(attempt) THEN Listing(attempt, s) ELSE NoFiles
       /\ pc = "copy" => \A s \in 1 .. at - 1, t \in Tensors : t \in Chunk(attempt, s) => out.stream[t] = attempt
       /\ pc \in {"commit", "publish", "clean"} => \A t \in Tensors : out.stream[t] = attempt

\* A manifest, once it is there, lists every tensor with its own stream,
\* unless a pack in place has begun to write the next.
Published ==
  /\ ~overlap /\ (out.manifest = "whole" \/ pc = "reflag") =>
       /\ out.passed = {}
       /\ \A t \in Tensors : out.listed[t] # 0 /\ (out.stream[t] = out.listed[t] \/ Overwritten(t))
  /\ ~overlap /\ pc \in {"clean", "flag"} => out.manifest = "whole"
  /\ SuccessIsReadable

\* Who may work beside an output directory that is not empty.
Guarded ==
  /\ nested => out.there
  /\ pc = "clean" => driver # "kaggle"
  /\ pc \in {"flag", "reflag"} => driver = "sequential"
  /\ driver # "parallel" /\ pc \in {"pack", "wait", "merge"} => OutIsClear
  /\ finished # {} =>
       ~OutIsClear /\ pc \in IF driver = "parallel" THEN {"idle", "pack", "wait", "merge"} ELSE {"idle"}

\* Where there is some manifest, whole or torn, whatever packs interfere.
Filled ==
  /\ driver = "parallel" /\ pc # "idle" /\ ~Direct(attempt) =>
       \A s \in Shards : worker[attempt][s] = "ok" => part[s].manifest # "none"
  /\ \A a \in Attempts : Direct(a) /\ worker[a][1] = "ok" => out.manifest # "none"
  /\ pc \in {"publish", "clean", "flag", "reflag"} => out.manifest # "none"

\* The parts are removed only when the output directory has what they had.
Emptied ==
  /\ \A s \in 1 .. Parts(attempt) : worker[attempt][s] = "ok"
  /\ out.manifest = "whole" \/ (driver = "sequential" /\ out.listed # NoFiles)

\* A packed tensor is in its part until it is in the output directory, and so
\* is the manifest that lists it.
Kept ==
  attempt > 0 /\ ~nested /\ ~overlap /\ ~Direct(attempt) =>
    \A s \in 1 .. Parts(attempt) :
      /\ worker[attempt][s] \in {"manifest", "ok"} =>
           \A t \in Chunk(attempt, s) : attempt \in {part[s].stream[t], out.stream[t]}
      /\ worker[attempt][s] = "ok" => part[s].manifest = "whole" \/ Emptied

IInv ==
  /\ Types /\ Fixed /\ Launched /\ Stamped /\ Progress /\ Earned
  /\ Packed /\ InPlace /\ Merging /\ Published /\ Guarded /\ Filled /\ Kept
-----------------------------------------------------------------------------
(***************************************************************************)
(* Division, and how the tensors are split.                                *)
(***************************************************************************)
\* Multiplication by a natural number is monotonic.
LEMMA TimesMonotonic ==
  ASSUME NEW b \in Nat, NEW p \in Nat, NEW q \in Nat, p <= q
  PROVE  b * p <= b * q
OBVIOUS

\* The // of the block arithmetic.
LEMMA Quotient ==
  ASSUME NEW x \in Nat, NEW y \in Nat \ {0}
  PROVE  /\ x \div y \in Nat /\ y * (x \div y) <= x /\ x < y * (x \div y) + y
OBVIOUS

\* The % of the partition modulus.
LEMMA Remainder ==
  ASSUME NEW x \in Nat, NEW y \in Nat \ {0}
  PROVE  x % y \in 0 .. y - 1
OBVIOUS

\* (x + y - 1) // y is x / y rounded up.
LEMMA Ceiling ==
  ASSUME NEW x \in Nat \ {0}, NEW y \in Nat \ {0}
  PROVE  /\ Ceil(x, y) \in Nat \ {0} /\ x <= y * Ceil(x, y)
         /\ y * Ceil(x, y) <= x + y - 1
<1>1. x + y - 1 \in Nat
  OBVIOUS
<1>2. /\ Ceil(x, y) \in Nat /\ y * Ceil(x, y) <= x + y - 1 /\ x + y - 1 < y * Ceil(x, y) + y
  BY <1>1, Quotient DEF Ceil
<1>3. Ceil(x, y) # 0
  BY <1>2
<1>4. QED
  BY <1>2, <1>3

\* No attempt finds more devices than MaxShards.
LEMMA Devices == MaxShards \in Gpus /\ MaxShards \in Nat /\ \A g \in Gpus : g \in Nat \ {0} /\ g <= MaxShards
<1>1. PICK g \in Gpus : \A h \in Gpus : g >= h
  BY MergeAssumption
<1>2. Max(Gpus) \in Gpus /\ \A h \in Gpus : Max(Gpus) >= h
  BY <1>1 DEF Max
<1>3. QED
  BY <1>2, MergeAssumption DEF MaxShards

\* Blocks of the rounded-up size: there are at most as many as devices, and
\* every place falls into one of them.
LEMMA Blocks ==
  ASSUME NEW m \in Nat \ {0}, NEW g \in Nat \ {0}
  PROVE  /\ Ceil(m, g) \in Nat \ {0}
         /\ Ceil(m, Ceil(m, g)) \in Nat \ {0} /\ Ceil(m, Ceil(m, g)) <= g
         /\ \A t \in 1 .. m : (t - 1) \div Ceil(m, g) \in 0 .. Ceil(m, Ceil(m, g)) - 1
<1> DEFINE b == Ceil(m, g)
           p == Ceil(m, b)
<1>1. b \in Nat \ {0} /\ m <= g * b
  BY Ceiling
<1>2. p \in Nat \ {0} /\ m <= b * p /\ b * p <= m + b - 1
  BY <1>1, Ceiling
<1> HIDE DEF b, p
<1>3. p <= g
  <2> SUFFICES ASSUME g + 1 <= p PROVE FALSE
    BY <1>2
  <2>1. b * (g + 1) <= b * p
    BY <1>1, <1>2, TimesMonotonic
  <2>2. b * (g + 1) = g * b + b
    BY <1>1
  <2>3. b * p \in Nat /\ g * b \in Nat
    BY <1>1, <1>2
  <2>4. QED
    BY <1>1, <1>2, <2>1, <2>2, <2>3
<1>4. ASSUME NEW t \in 1 .. m PROVE (t - 1) \div b \in 0 .. p - 1
  <2> DEFINE q == (t - 1) \div b
  <2>1. q \in Nat /\ b * q <= t - 1
    BY <1>1, Quotient
  <2> HIDE DEF q
  <2>2. q < p
    <3> SUFFICES ASSUME p <= q PROVE FALSE
      BY <1>2, <2>1
    <3>1. b * p <= b * q /\ b * p \in Nat /\ b * q \in Nat
      BY <1>1, <1>2, <2>1, TimesMonotonic
    <3>2. QED
      BY <1>2, <2>1, <3>1
  <2>3. q \in 0 .. p - 1
    BY <1>2, <2>1, <2>2
  <2>4. QED
    BY <2>3 DEF q
<1>5. QED
  BY <1>1, <1>2, <1>3, <1>4 DEF b, p

\* The partition of an attempt's tensors: at most one part for each device,
\* and each tensor in the chunk of one of them.
LEMMA Split ==
  ASSUME Fixed, attempt \in 0 .. MaxAttempts, NEW a \in 1 .. attempt
  PROVE  /\ a \in Attempts /\ Parts(a) \in Nat \ {0} /\ Parts(a) <= MaxShards
         /\ \A s \in Shards : Chunk(a, s) \subseteq Tensors /\ Passed(a, s) \subseteq Tensors
         /\ \A t \in Tensors : \E s \in 1 .. Parts(a) : t \in Chunk(a, s)
<1> DEFINE g == gpus[a]
<1>1. g \in Nat \ {0} /\ g <= MaxShards /\ MaxShards \in Nat /\ n \in Nat \ {0}
  BY Devices, MergeAssumption DEF Fixed
<1> HIDE DEF g
<1>2. a \in Attempts
  BY MergeAssumption DEF Attempts
<1>3. \A s \in Shards : Chunk(a, s) \subseteq Tensors /\ Passed(a, s) \subseteq Tensors
  BY DEF Chunk, Passed
<1>4. CASE driver = "kaggle"
  <2>1. Parts(a) = g
    BY <1>4 DEF Parts, g
  <2>2. ASSUME NEW t \in Tensors PROVE \E s \in 1 .. Parts(a) : t \in Chunk(a, s)
    <3>1. (t - 1) % g \in 0 .. g - 1
      BY <1>1, Remainder DEF Tensors
    <3>2. ((t - 1) % g) + 1 \in 1 .. g /\ (t - 1) % g = (((t - 1) % g) + 1) - 1
      BY <1>1, <3>1
    <3>3. t \in Chunk(a, ((t - 1) % g) + 1)
      BY <1>4, <3>2 DEF Chunk, g
    <3>4. QED
      BY <2>1, <3>2, <3>3
  <2>3. QED
    BY <1>1, <1>2, <1>3, <2>1, <2>2
<1>5. CASE driver # "kaggle"
  <2> DEFINE b == Ceil(n, g)
  <2>1. Parts(a) = Ceil(n, b) /\ BlockSize(a) = b
    BY <1>5 DEF Parts, BlockSize, g
  <2>2. /\ Ceil(n, b) \in Nat \ {0} /\ Ceil(n, b) <= g
        /\ \A t \in 1 .. n : (t - 1) \div b \in 0 .. Ceil(n, b) - 1
    BY <1>1, Blocks
  <2> HIDE DEF b
  <2>3. ASSUME NEW t \in Tensors PROVE \E s \in 1 .. Parts(a) : t \in Chunk(a, s)
    <3> DEFINE q == (t - 1) \div b
    <3>1. q \in 0 .. Parts(a) - 1
      BY <2>1, <2>2 DEF Tensors
    <3>2. q + 1 \in 1 .. Parts(a) /\ q = (q + 1) - 1
      BY <2>1, <2>2, <3>1
    <3>3. t \in Chunk(a, q + 1)
      BY <1>5, <2>1, <3>2 DEF Chunk
    <3>4. QED
      BY <3>2, <3>3
  <2>4. QED
    BY <1>1, <1>2, <1>3, <2>1, <2>2, <2>3
<1>6. QED
  BY <1>4, <1>5

\* With fewer than two devices there is one part, and it has every tensor.
LEMMA DirectSplit ==
  ASSUME Fixed, attempt \in 0 .. MaxAttempts, NEW a \in 1 .. attempt, Direct(a)
  PROVE  /\ Parts(a) = 1 /\ Chunk(a, 1) = Tensors /\ Passed(a, 1) = {}
         /\ 1 \in Shards /\ driver = "parallel"
<1>1. gpus[a] = 1 /\ driver = "parallel" /\ n \in Nat \ {0}
  <2>1. gpus[a] \in Nat \ {0}
    BY Devices DEF Fixed
  <2>2. n \in Nat \ {0}
    BY MergeAssumption DEF Fixed
  <2>3. QED
    BY <2>1, <2>2 DEF Direct
<1>2. BlockSize(a) = n
  <2>1. Ceil(n, 1) \in Nat /\ n <= 1 * Ceil(n, 1) /\ 1 * Ceil(n, 1) <= n + 1 - 1
    BY <1>1, Ceiling
  <2>2. QED
    BY <1>1, <2>1 DEF BlockSize
<1> DEFINE c == Ceil(n, n)
<1>3. c = 1
  <2>1. c \in Nat \ {0} /\ n * c <= n + n - 1
    BY <1>1, Ceiling
  <2> HIDE DEF c
  <2>2. SUFFICES ASSUME 2 <= c PROVE FALSE
    BY <2>1
  <2>3. n * 2 <= n * c /\ n * c \in Nat
    BY <1>1, <2>1, <2>2, TimesMonotonic
  <2>4. QED
    BY <1>1, <2>1, <2>3
<1>4. Parts(a) = 1
  BY <1>1, <1>2, <1>3 DEF Parts
<1>5. 1 \in Shards
  BY Devices DEF Shards
<1>6. \A t \in Tensors : \E s \in 1 .. 1 : t \in Chunk(a, s)
  BY <1>4, Split
<1>7. Chunk(a, 1) = Tensors
  <2>1. Chunk(a, 1) \subseteq Tensors
    BY <1>5, Split
  <2>2. ASSUME NEW t \in Tensors PROVE t \in Chunk(a, 1)
    <3>1. PICK s \in 1 .. 1 : t \in Chunk(a, s)
      BY <1>6
    <3>2. s = 1
      OBVIOUS
    <3>3. QED
      BY <3>1, <3>2
  <2>3. QED
    BY <2>1, <2>2
<1>8. QED
  BY <1>1, <1>4, <1>5, <1>7 DEF Passed
-----------------------------------------------------------------------------
(***************************************************************************)
(* Frames.                                                                 *)
(***************************************************************************)
\* Only Begin changes how the tensors are split.
LEMMA SplitFrame ==
  ASSUME UNCHANGED <<fixed, attempt, gpus>>
  PROVE  /\ Tensors' = Tensors /\ NoFiles' = NoFiles /\ NoDir' = NoDir /\ Dir' = Dir
         /\ NothingRead' = NothingRead
         /\ \A a : Parts(a)' = Parts(a) /\ Direct(a)' = Direct(a)
         /\ \A a, s : /\ Chunk(a, s)' = Chunk(a, s) /\ Passed(a, s)' = Passed(a, s)
                      /\ Listing(a, s)' = Listing(a, s)
<1>1. Tensors' = Tensors
  BY DEF Tensors, fixed
<1>2. /\ NoFiles' = NoFiles /\ NoDir' = NoDir /\ Dir' = Dir /\ NothingRead' = NothingRead
  BY <1>1 DEF NoFiles, NoDir, Dir, NothingRead
<1>3. \A a : Parts(a)' = Parts(a) /\ BlockSize(a)' = BlockSize(a) /\ Direct(a)' = Direct(a)
  BY DEF Parts, BlockSize, Direct, fixed
<1>4. \A a, s : Chunk(a, s)' = Chunk(a, s)
  BY <1>1, <1>3 DEF Chunk, fixed
<1>5. \A a, s : Passed(a, s)' = Passed(a, s) /\ Listing(a, s)' = Listing(a, s)
  BY <1>1, <1>4 DEF Passed, Listing, fixed
<1>6. QED
  BY <1>1, <1>2, <1>3, <1>4, <1>5

\* The driver's loop index is that of a part, or one more.
LEMMA Underway ==
  ASSUME IInv, pc # "idle"
  PROVE  /\ attempt \in 1 .. attempt /\ attempt \in Attempts /\ attempt \in Nat
         /\ Parts(attempt) \in Nat \ {0} /\ Parts(attempt) <= MaxShards /\ MaxShards \in Nat
         /\ Sources \subseteq Shards
         /\ at \in Nat \ {0} /\ at <= Parts(attempt) + 1
         /\ \A s \in Shards : Chunk(attempt, s) \subseteq Tensors /\ Passed(attempt, s) \subseteq Tensors
         /\ \A t \in Tensors : \E s \in Sources : t \in Chunk(attempt, s)
<1>1. attempt \in Nat /\ attempt # 0 /\ attempt <= MaxAttempts
  BY MergeAssumption DEF IInv, Progress, Types
<1>2. attempt \in 1 .. attempt
  BY <1>1
<1>3. /\ attempt \in Attempts /\ Parts(attempt) \in Nat \ {0} /\ Parts(attempt) <= MaxShards
      /\ \A s \in Shards : Chunk(attempt, s) \subseteq Tensors /\ Passed(attempt, s) \subseteq Tensors
      /\ \A t \in Tensors : \E s \in 1 .. Parts(attempt) : t \in Chunk(attempt, s)
  BY <1>2, Split DEF IInv, Types
<1>4. at \in 1 .. Parts(attempt) + 1
  BY DEF IInv, Types
<1>5. QED
  BY <1>1, <1>2, <1>3, <1>4, Devices DEF Sources, Shards

\* A stream that a pack in place has put over another's is still that of a pack
\* that has not ended well.
LEMMA StillOverwritten ==
  ASSUME Types, Stamped, NEW t \in Tensors, Overwritten(t), out'.stream[t] = out.stream[t],
         \A a \in Attempts : a <= attempt /\ Direct(a) => Direct(a)',
         \A a \in Attempts : worker[a][1] # "ok" /\ Direct(a) => worker'[a][1] # "ok"
  PROVE  Overwritten(t)'
<1>1. out.stream[t] \in Attempts /\ out.stream[t] <= attempt
  BY MergeAssumption DEF Types, Dir, Stamps, Attempts, Stamped, Overwritten
<1>2. QED
  BY <1>1 DEF Overwritten

\* A step that leaves the output directory alone.
LEMMA OutFrame ==
  ASSUME IInv, UNCHANGED <<n, out, nested, finished>>, overlap => overlap',
         \A a \in Attempts : a <= attempt /\ Direct(a) => Direct(a)',
         \A a \in Attempts : worker[a][1] # "ok" /\ Direct(a) => worker'[a][1] # "ok",
         \A a \in Attempts : Direct(a) /\ worker[a][1] = "failed" => worker'[a][1] = "failed",
         pc' \in {"clean", "flag", "reflag"} => pc' = pc
  PROVE  Published'
<1> USE DEF IInv
<1>1. Tensors' = Tensors /\ (~overlap' => ~overlap)
  BY DEF Tensors
<1>2. ASSUME ~overlap, out.manifest = "whole" \/ pc = "reflag"
      PROVE  /\ out.passed = {}
             /\ \A t \in Tensors : out.listed[t] # 0 /\ (out.stream[t] = out.listed[t] \/ Overwritten(t)')
  BY <1>2, StillOverwritten DEF Published
<1>3. SuccessIsReadable'
  <2> SUFFICES ASSUME finished # {}, ~overlap, out.manifest # "whole", ~nested
               PROVE  \E a \in Attempts : Direct(a)' /\ worker'[a][1] = "failed" /\ \A f \in finished : f < a
    BY <1>1 DEF SuccessIsReadable, Attempts
  <2>1. PICK a \in Attempts : Direct(a) /\ worker[a][1] = "failed" /\ \A f \in finished : f < a
    BY DEF Published, SuccessIsReadable
  <2>2. a <= attempt
    BY <2>1, Devices DEF Launched, Shards
  <2>3. QED
    BY <2>1, <2>2
<1>4. ~overlap' /\ pc' \in {"clean", "flag"} => out'.manifest = "whole"
  BY <1>1 DEF Published
<1>5. ~overlap' /\ (out'.manifest = "whole" \/ pc' = "reflag") =>
        /\ out'.passed = {}
        /\ \A t \in Tensors' : out'.listed[t] # 0 /\ (out'.stream[t] = out'.listed[t] \/ Overwritten(t)')
  BY <1>1, <1>2
<1>6. QED
  BY <1>3, <1>4, <1>5 DEF Published

\* An attempt that ends leaves the directories as they are; the driver's death
\* may take the packs of its attempt with it.
LEMMA EndInv ==
  ASSUME IInv, pc # "idle", EndAttempt,
         UNCHANGED <<fixed, attempt, gpus, part, dest, overlap>>,
         worker' \in [Attempts -> [Shards -> {"none", "streams", "manifest", "ok", "failed"}]],
         \A a \in Attempts, s \in Shards :
            worker'[a][s] = worker[a][s] \/ (worker'[a][s] = "failed" /\ Running(a, s))
  PROVE  IInv'
<1> USE DEF IInv
<1>1. pc' = "idle" /\ at' = 0 /\ read' = NothingRead /\ UNCHANGED finished
  BY DEF EndAttempt, Leave
<1>2. /\ Tensors' = Tensors /\ Dir' = Dir /\ NoFiles' = NoFiles
      /\ \A a : Parts(a)' = Parts(a) /\ Direct(a)' = Direct(a)
      /\ \A a, s : Chunk(a, s)' = Chunk(a, s)
  BY SplitFrame
<1>3. attempt \in Attempts /\ attempt \in Nat /\ Parts(attempt) \in Nat /\ Parts(attempt) <= MaxShards /\ MaxShards \in Nat
  BY Underway
<1>4. \A a \in Attempts, s \in Shards :
        /\ worker'[a][s] \in {"manifest", "ok"} => worker'[a][s] = worker[a][s]
        /\ worker[a][s] \in {"none", "ok", "failed"} => worker'[a][s] = worker[a][s]
        /\ worker'[a][s] # "none" => worker[a][s] # "none"
  BY DEF Running
<1>5. 1 \in Shards
  BY Devices DEF Shards
<1>6. Types'
  <2>1. read' \in [Shards -> [Tensors -> Stamps]]
    BY <1>1, MergeAssumption DEF NothingRead, NoFiles, Stamps
  <2>2. nested' \in BOOLEAN /\ overlap' \in BOOLEAN
    BY Zenon DEF Types, dest
  <2>3. \A d \in {out'} \cup {part'[s] : s \in Shards} : Contents(d)' => d.there
    BY <1>2 DEF Types, dest, Contents, NoFiles
  <2>4. /\ attempt' \in 0 .. MaxAttempts /\ gpus' \in [Attempts -> Gpus \cup {0}]
        /\ width' \in Widths \cup {1}
        /\ part' \in [Shards -> Dir] /\ out' \in Dir /\ finished' \subseteq 1 .. attempt'
    BY <1>1 DEF Types, dest, fixed
  <2>5. QED
    BY <1>1, <1>2, <2>1, <2>2, <2>3, <2>4 DEF Types
<1>7. Fixed' /\ Stamped'
  BY <1>2 DEF Fixed, Stamped, fixed, dest
<1>8. Launched'
  BY <1>2, <1>4 DEF Launched
<1>9. Progress' /\ Packed' /\ Merging'
  BY <1>1 DEF Progress, Packed, Merging
<1>10. Earned' /\ InPlace' /\ Filled'
  <2>1. \A f \in finished : f \in Attempts /\ \A s \in 1 .. Parts(f) : s \in Shards
    <3> SUFFICES ASSUME NEW f \in finished PROVE f \in Attempts /\ \A s \in 1 .. Parts(f) : s \in Shards
      OBVIOUS
    <3>1. f \in 1 .. attempt
      BY DEF Types
    <3>2. f \in Attempts /\ Parts(f) \in Nat /\ Parts(f) <= MaxShards
      BY <3>1, Split DEF Types
    <3>3. QED
      BY <1>3, <3>2 DEF Shards
  <2>2. Earned'
    BY <1>1, <1>2, <1>4, <2>1 DEF Earned
  <2>3. InPlace'
    BY <1>2, <1>3, <1>4, <1>5 DEF InPlace, dest
  <2>4. Filled'
    BY <1>1, <1>2, <1>4, <1>5 DEF Filled, dest
  <2>5. QED
    BY <2>2, <2>3, <2>4
<1>11. Published'
  <2>1. /\ \A a \in Attempts : worker[a][1] # "ok" => worker'[a][1] # "ok"
        /\ \A a \in Attempts : worker[a][1] = "failed" => worker'[a][1] = "failed"
    BY <1>4, <1>5
  <2>2. QED
    BY <1>1, <1>2, <2>1, OutFrame DEF fixed, dest
<1>12. Guarded'
  BY <1>1, <1>2 DEF Guarded, OutIsClear, Contents, dest, fixed
<1>13. Kept'
  <2> SUFFICES ASSUME ~nested, ~overlap, ~Direct(attempt), NEW s \in 1 .. Parts(attempt)
               PROVE  /\ worker'[attempt][s] \in {"manifest", "ok"} =>
                           \A t \in Chunk(attempt, s) : attempt \in {part[s].stream[t], out.stream[t]}
                      /\ worker'[attempt][s] = "ok" => part[s].manifest = "whole" \/ Emptied'
    BY <1>2 DEF Kept, dest
  <2>1. s \in Shards /\ \A q \in 1 .. Parts(attempt) : q \in Shards
    BY <1>3 DEF Shards
  <2>2. Emptied => Emptied'
    BY <1>2, <1>3, <1>4, <2>1 DEF Emptied, dest, fixed
  <2>3. QED
    BY <1>3, <1>4, <2>1, <2>2, Underway DEF Kept
<1>14. QED
  BY <1>6, <1>7, <1>8, <1>9, <1>10, <1>11, <1>12, <1>13
-----------------------------------------------------------------------------
(***************************************************************************)
(* The steps of the driver.                                                *)
(***************************************************************************)
\* The start of a driver: the new attempt has no packs yet, whatever those of
\* the earlier ones do, and a finished artifact turns it away.
LEMMA BeginInv == ASSUME IInv, Begin PROVE IInv'
<1> USE DEF IInv
<1> DEFINE b == attempt + 1
<1>1. /\ pc = "idle" /\ attempt < MaxAttempts /\ attempt' = b
      /\ UNCHANGED <<driver, n, worker, out, nested, overlap, finished>>
      /\ pc' \in {"idle", "pack"} /\ read' \in {read, NothingRead}
      /\ pc' = "idle" => at' = 0
      /\ pc' = "pack" => at' = 1 /\ (driver = "parallel" \/ OutIsClear)
      /\ width' \in Widths \cup {1}
  BY DEF Begin, EndAttempt, Leave, Go, dest
<1>2. PICK g \in Gpus : gpus' = [gpus EXCEPT ![b] = g]
  BY DEF Begin
<1>3. attempt \in Nat /\ b \in Attempts /\ b \in Nat /\ b \in 0 .. MaxAttempts
  BY <1>1, MergeAssumption DEF Types, Attempts
<1>4. /\ gpus' \in [Attempts -> Gpus \cup {0}] /\ gpus'[b] = g
      /\ \A a \in Attempts : a # b => gpus'[a] = gpus[a]
  BY <1>2, <1>3 DEF Types
<1>5. part' \in [Shards -> Dir] /\ \A s \in Shards : part'[s] \in {part[s], NoDir}
  <2>1. NoDir \in Dir
    BY MergeAssumption DEF NoDir, NoFiles, Dir, Stamps
  <2>2. \/ part' = part
        \/ part' = [s \in Shards |-> IF s <= gpus'[b] THEN NoDir ELSE part[s]]
    BY <1>1 DEF Begin
  <2>3. QED
    BY <2>1, <2>2 DEF Types
<1> HIDE DEF b
<1>6. Tensors' = Tensors /\ Dir' = Dir /\ NoFiles' = NoFiles /\ NoDir' = NoDir
  BY <1>1 DEF Tensors, Dir, NoFiles, NoDir
<1>7. \A a \in Attempts : a # b => Parts(a)' = Parts(a) /\ Direct(a)' = Direct(a)
  BY <1>1, <1>4 DEF Parts, BlockSize, Direct
<1>8. Parts(attempt)' \in Nat \ {0} /\ Parts(attempt)' <= g
  <2>1. g \in Nat \ {0} /\ n \in Nat \ {0}
    BY MergeAssumption DEF Fixed
  <2>2. Parts(attempt)' = IF driver = "kaggle" THEN g ELSE Ceil(n, Ceil(n, g))
    BY <1>1, <1>4 DEF Parts, BlockSize
  <2>3. QED
    BY <2>1, <2>2, Blocks
<1>9. (\A s \in Shards : worker[b][s] = "none") /\ 1 \in Shards
  BY <1>3, Devices DEF Launched, Shards, b
<1>10. Types'
  <2>1. read' \in [Shards -> [Tensors -> Stamps]]
    BY <1>1, MergeAssumption DEF NothingRead, NoFiles, Stamps, Types
  <2>2. nested' \in BOOLEAN /\ overlap' \in BOOLEAN
    BY <1>1, Zenon DEF Types
  <2>3. \A d \in {out'} \cup {part'[s] : s \in Shards} : Contents(d)' => d.there
    <3>1. \A d \in {out} \cup {part[s] : s \in Shards} : Contents(d)' => d.there
      BY <1>6 DEF Types, Contents
    <3>2. ~Contents(NoDir)'
      BY <1>6 DEF Contents, NoDir
    <3>3. QED
      BY <1>1, <1>5, <1>6, <3>1, <3>2
  <2>4. finished' \subseteq 1 .. attempt'
    BY <1>1, <1>3 DEF Types, b
  <2>5. pc' # "idle" => at' \in 1 .. Parts(attempt)' + 1
    BY <1>1, <1>8
  <2>6. pc' \in {"idle", "pack", "wait", "merge", "copy", "commit", "publish", "clean", "flag", "reflag"}
    BY <1>1
  <2>7. out' \in Dir'
    BY <1>1, <1>6 DEF Types
  <2>8. worker' \in [Attempts -> [Shards -> {"none", "streams", "manifest", "ok", "failed"}]]
    BY <1>1 DEF Types
  <2>9. QED
    BY <1>1, <1>3, <1>4, <1>5, <1>6, <2>1, <2>2, <2>3, <2>4, <2>5, <2>6, <2>7, <2>8 DEF Types
<1>11. Fixed'
  <2> SUFFICES ASSUME NEW a \in 1 .. b PROVE gpus'[a] \in Gpus
    BY <1>1 DEF Fixed
  <2>1. CASE a = b
    BY <1>4, <2>1
  <2>2. CASE a # b
    <3>1. a \in 1 .. attempt /\ a \in Attempts
      BY <1>3, <2>2, MergeAssumption DEF b, Attempts
    <3>2. QED
      BY <1>4, <2>2, <3>1 DEF Fixed
  <2>3. QED
    BY <2>1, <2>2
<1>12. Launched'
  <2> SUFFICES ASSUME NEW a \in Attempts, NEW s \in Shards, worker[a][s] # "none"
               PROVE  a <= attempt' /\ s <= Parts(a)'
    BY <1>1 DEF Launched
  <2>1. a <= attempt /\ s <= Parts(a)
    BY DEF Launched
  <2>2. a # b /\ a <= b
    BY <1>3, <2>1, MergeAssumption DEF b, Attempts
  <2>3. QED
    BY <1>1, <1>7, <2>1, <2>2
<1>13. Stamped'
  <2> SUFFICES ASSUME NEW t \in Tensors
               PROVE  out.stream[t] <= b /\ \A s \in Shards : part'[s].stream[t] <= b
    BY <1>1, <1>6 DEF Stamped
  <2>1. out.stream[t] \in Nat /\ out.stream[t] <= attempt
    BY MergeAssumption DEF Stamped, Types, Dir, Stamps
  <2>2. ASSUME NEW s \in Shards PROVE part'[s].stream[t] <= b
    <3>1. part[s].stream[t] \in Nat /\ part[s].stream[t] <= attempt
      BY MergeAssumption DEF Stamped, Types, Dir, Stamps
    <3>2. NoDir.stream[t] = 0
      BY DEF NoDir, NoFiles
    <3>3. QED
      BY <1>3, <1>5, <3>1, <3>2 DEF b
  <2>3. QED
    BY <1>3, <2>1, <2>2 DEF b
<1>14. Progress'
  <2>1. \A s \in 1 .. at' - 1 : pc' # "pack"
    BY <1>1
  <2>2. b > 0 /\ 1 <= Parts(attempt)'
    BY <1>3, <1>8 DEF b
  <2>3. QED
    BY <1>1, <1>9, <2>1, <2>2 DEF Progress
<1>15. Packed' /\ Kept' /\ InPlace'
  <2>1. Packed'
    BY <1>1, <1>9 DEF Packed
  <2>2. \A s \in 1 .. Parts(attempt)' : s \in Shards
    <3>1. Parts(attempt)' <= g
      BY <1>8
    <3>2. QED
      BY <1>8, <3>1, Devices DEF Shards
  <2>3. Kept'
    BY <1>1, <1>9, <2>2 DEF Kept
  <2>4. InPlace'
    BY <1>1, <1>9 DEF InPlace
  <2>5. QED
    BY <2>1, <2>3, <2>4
<1>16. Earned' /\ Filled'
  <2>1. \A f \in finished : f \in Attempts /\ f # b
    BY <1>3, MergeAssumption DEF Types, Attempts, b
  <2>2. Earned'
    BY <1>1, <1>7, <2>1 DEF Earned
  <2>3. \A a \in Attempts : worker[a][1] = "ok" => a # b
    BY <1>9
  <2>4. Filled'
    BY <1>1, <1>7, <1>9, <2>3 DEF Filled
  <2>5. QED
    BY <2>2, <2>4
<1>17. Merging' /\ Published'
  <2>1. Merging'
    BY <1>1 DEF Merging
  <2>2. \A a \in Attempts : a <= attempt => a # b
    BY <1>3 DEF b, Attempts
  <2>3. Published'
    BY <1>1, <1>7, <2>2, OutFrame
  <2>4. QED
    BY <2>1, <2>3
<1>18. Guarded'
  BY <1>1, <1>6 DEF Guarded, OutIsClear, Contents
<1>19. QED
  BY <1>10, <1>11, <1>12, <1>13, <1>14, <1>15, <1>16, <1>17, <1>18

\* The workers launched together are the next ones of the attempt.
LEMMA NextBatch ==
  ASSUME IInv, pc \in {"pack", "wait"}
  PROVE  /\ \E m \in at .. Parts(attempt) : Batch = at .. m
         /\ at \in Batch /\ Batch \subseteq Sources
         /\ \E m \in at .. Parts(attempt) : Awaited = at .. m
         /\ Max(Awaited) \in Awaited /\ \A s \in Awaited : s <= Max(Awaited)
<1> USE DEF IInv
<1>1. /\ at \in Nat \ {0} /\ at <= Parts(attempt) /\ Parts(attempt) \in Nat
      /\ MaxShards \in Nat /\ MaxShards # 0
  <2>1. pc # "idle" /\ at <= Parts(attempt)
    BY DEF Progress
  <2>2. QED
    BY <2>1, Underway
<1>2. Width \in Nat \ {0}
  BY <1>1, MergeAssumption DEF Width, Types
<1> DEFINE w == at + Width - 1
           p == Parts(attempt)
           m == Min({w, p})
<1>3. w \in Nat /\ p \in Nat /\ at <= w /\ at <= p
  BY <1>1, <1>2
<1>4. Batch = at .. m
  BY DEF Batch
<1> HIDE DEF w, p
<1>5. m \in {w, p} /\ m <= p
  <2>1. \E x \in {w, p} : \A y \in {w, p} : x <= y
    BY <1>3
  <2>2. QED
    BY <2>1 DEF Min
<1> HIDE DEF m
<1>6. m \in at .. p
  BY <1>1, <1>3, <1>5
<1>7. PICK k \in at .. p : Awaited = at .. k
  <2>1. CASE driver = "parallel"
    <3>1. Awaited = at .. at
      BY <1>1, <2>1 DEF Awaited
    <3>2. QED
      BY <1>1, <1>3, <3>1
  <2>2. CASE driver # "parallel"
    BY <1>4, <1>6, <2>2 DEF Awaited
  <2>3. QED
    BY <2>1, <2>2
<1>8. Max(Awaited) \in Awaited /\ \A s \in Awaited : s <= Max(Awaited)
  <2>1. k \in Awaited /\ \A s \in Awaited : k >= s
    BY <1>1, <1>3, <1>7
  <2>2. QED
    BY <1>1, <1>3, <1>7, <2>1 DEF Max
<1>9. Batch \subseteq Sources /\ at \in Batch
  BY <1>1, <1>4, <1>6 DEF Sources, p
<1>10. QED
  BY <1>4, <1>6, <1>7, <1>8, <1>9 DEF p

\* The launch: what the sequential driver removes is the directory of the part
\* it is about to pack, never one that is packed already.
LEMMA LaunchInv == ASSUME IInv, Launch PROVE IInv'
<1> USE DEF IInv
<1>1. /\ pc = "pack" /\ pc' = "wait" /\ at' = at
      /\ UNCHANGED <<fixed, attempt, gpus, out, nested, overlap, read, finished>>
      /\ worker' = [worker EXCEPT ![attempt] =
                      [s \in Shards |-> IF s \in Batch THEN "streams" ELSE worker[attempt][s]]]
      /\ part' \in {part, [part EXCEPT ![at] = NoDir]}
      /\ driver = "parallel" => part' = part
  BY DEF Launch, Go, dest
<1>2. /\ Tensors' = Tensors /\ Dir' = Dir /\ NoFiles' = NoFiles /\ NoDir' = NoDir
      /\ \A a : Parts(a)' = Parts(a) /\ Direct(a)' = Direct(a)
      /\ \A a, s : Chunk(a, s)' = Chunk(a, s) /\ Passed(a, s)' = Passed(a, s) /\ Listing(a, s)' = Listing(a, s)
  BY <1>1, SplitFrame
<1>3. /\ attempt \in Attempts /\ attempt \in Nat /\ Parts(attempt) \in Nat
      /\ Parts(attempt) <= MaxShards /\ MaxShards \in Nat /\ Sources \subseteq Shards
      /\ at \in Nat \ {0} /\ at <= Parts(attempt)
  BY <1>1, Underway DEF Progress
<1>4. at \in Batch /\ Batch \subseteq Sources /\ \A s \in Batch : at <= s
  <2>1. PICK m \in at .. Parts(attempt) : Batch = at .. m
    BY <1>1, NextBatch
  <2>2. QED
    BY <1>1, <1>3, <2>1, NextBatch
<1>5. /\ worker' \in [Attempts -> [Shards -> {"none", "streams", "manifest", "ok", "failed"}]]
      /\ \A a \in Attempts, s \in Shards :
           worker'[a][s] = IF a = attempt /\ s \in Batch THEN "streams" ELSE worker[a][s]
  BY <1>1, <1>3 DEF Types
<1>6. /\ part' \in [Shards -> Dir]
      /\ \A s \in Shards : part'[s] \in {part[s], NoDir}
      /\ \A s \in Shards : s \notin Batch => part'[s] = part[s]
  <2>1. NoDir \in Dir
    BY MergeAssumption DEF NoDir, NoFiles, Dir, Stamps
  <2>2. at \in Shards
    BY <1>3, <1>4
  <2>3. QED
    BY <1>1, <1>4, <2>1, <2>2 DEF Types
<1>7. Types'
  <2>1. nested' \in BOOLEAN /\ overlap' \in BOOLEAN
    BY <1>1, Zenon DEF Types
  <2>2. \A d \in {out'} \cup {part'[s] : s \in Shards} : Contents(d)' => d.there
    <3>1. \A d \in {out} \cup {part[s] : s \in Shards} : Contents(d)' => d.there
      BY <1>2 DEF Types, Contents
    <3>2. ~Contents(NoDir)'
      BY <1>2 DEF Contents, NoDir
    <3>3. QED
      BY <1>1, <1>2, <1>6, <3>1, <3>2
  <2>3. QED
    BY <1>1, <1>2, <1>5, <1>6, <2>1, <2>2 DEF Types, fixed
<1>8. Fixed'
  BY <1>1 DEF Fixed, fixed
<1>9. Launched'
  <2> SUFFICES ASSUME NEW a \in Attempts, NEW s \in Shards, worker'[a][s] # "none"
               PROVE  a <= attempt /\ s <= Parts(a)
    BY <1>1, <1>2 DEF Launched
  <2>1. CASE a = attempt /\ s \in Batch
    <3>1. s \in Sources
      BY <1>4, <2>1
    <3>2. QED
      BY <1>3, <2>1, <3>1 DEF Sources
  <2>2. CASE ~(a = attempt /\ s \in Batch)
    BY <1>5, <2>2 DEF Launched
  <2>3. QED
    BY <2>1, <2>2
<1>10. Stamped'
  <2>1. \A t \in Tensors : NoDir.stream[t] <= attempt
    BY <1>3 DEF NoDir, NoFiles
  <2>2. QED
    BY <1>1, <1>2, <1>6, <2>1 DEF Stamped
<1>11. Progress'
  <2>1. \A s \in 1 .. at - 1 : s \in Shards /\ s \notin Batch
    BY <1>3, <1>4 DEF Shards
  <2>2. QED
    BY <1>1, <1>2, <1>3, <1>5, <2>1 DEF Progress
<1>12. Packed'
  BY <1>1, <1>2, <1>3, <1>5, <1>6 DEF Packed
<1>13. Kept'
  <2> SUFFICES ASSUME ~nested, ~overlap, ~Direct(attempt), NEW s \in 1 .. Parts(attempt),
                      worker'[attempt][s] \in {"manifest", "ok"}
               PROVE  /\ \A t \in Chunk(attempt, s) : attempt \in {part'[s].stream[t], out.stream[t]}
                      /\ worker'[attempt][s] = "ok" => part'[s].manifest = "whole"
    BY <1>1, <1>2 DEF Kept
  <2>1. s \in Shards
    BY <1>3 DEF Shards
  <2>2. s \notin Batch /\ worker'[attempt][s] = worker[attempt][s] /\ part'[s] = part[s]
    BY <1>3, <1>5, <1>6, <2>1
  <2>3. QED
    BY <1>1, <2>1, <2>2 DEF Packed
<1>14. 1 \in Shards /\ (Direct(attempt) => worker[attempt][1] = "none")
  BY <1>1, Devices DEF Progress, Shards
<1>15. Earned' /\ InPlace' /\ Filled'
  <2>1. Earned'
    <3> SUFFICES ASSUME NEW f \in finished, NEW s \in 1 .. Parts(f) PROVE worker'[f][s] = "ok"
      BY <1>1, <1>2 DEF Earned
    <3>1. f # attempt /\ worker[f][s] = "ok"
      BY <1>1 DEF Earned
    <3>2. f \in 1 .. attempt
      BY DEF Types
    <3>3. f \in Attempts /\ s \in Shards
      BY <3>2, Split, Devices DEF Types, Shards
    <3>4. QED
      BY <1>5, <3>1, <3>3
  <2>2. InPlace'
    BY <1>1, <1>2, <1>3, <1>5, <1>14 DEF InPlace
  <2>3. Filled'
    BY <1>1, <1>2, <1>3, <1>5, <1>14 DEF Filled, fixed
  <2>4. QED
    BY <2>1, <2>2, <2>3
<1>16. Merging' /\ Published'
  <2>1. Merging'
    BY <1>1 DEF Merging
  <2>2. /\ \A a \in Attempts : worker[a][1] # "ok" => worker'[a][1] # "ok"
        /\ \A a \in Attempts : Direct(a) /\ worker[a][1] = "failed" => worker'[a][1] = "failed"
    BY <1>3, <1>5, <1>14
  <2>3. Published'
    BY <1>1, <1>2, <2>2, OutFrame DEF fixed
  <2>4. QED
    BY <2>1, <2>3
<1>17. Guarded'
  BY <1>1, <1>2 DEF Guarded, OutIsClear, Contents, fixed
<1>18. QED
  BY <1>7, <1>8, <1>9, <1>10, <1>11, <1>12, <1>13, <1>15, <1>16, <1>17

\* A step of the driver that leaves the packs and their directories alone.
LEMMA WorkFrame ==
  ASSUME IInv, pc # "idle", UNCHANGED <<fixed, attempt, gpus, work, overlap>>,
         pc' \in {"idle", "pack", "wait", "merge", "copy", "commit", "publish", "clean", "flag", "reflag"},
         pc' # "idle" => at' \in 1 .. Parts(attempt) + 1,
         pc \in {"pack", "wait"} => UNCHANGED out,
         pc \in {"flag", "reflag"} => pc' \in {"idle", "flag", "reflag"} /\ out'.listed = out.listed,
         out' \in Dir, Contents(out)' => out'.there, nested' \in BOOLEAN, nested => nested',
         out.manifest # "none" \/ pc' \in {"publish", "clean", "flag", "reflag"} => out'.manifest # "none",
         read' \in [Shards -> [Tensors -> Stamps]],
         finished' = finished
           \/ (pc' = "idle" /\ finished' = finished \cup {attempt} /\ \A s \in Sources : worker[attempt][s] = "ok"),
         \A t \in Tensors : /\ out'.stream[t] <= attempt
                            /\ out.stream[t] = attempt => out'.stream[t] = attempt,
         \/ Progress'
         \/ pc \notin {"pack", "wait"} /\ pc' \notin {"pack", "wait"}
  PROVE  Types' /\ Fixed' /\ Launched' /\ Stamped' /\ Progress' /\ Earned' /\ Packed' /\ InPlace'
         /\ Filled' /\ Kept'
<1> USE DEF IInv
<1>1. /\ Tensors' = Tensors /\ Dir' = Dir /\ NoFiles' = NoFiles
      /\ \A a : Parts(a)' = Parts(a) /\ Direct(a)' = Direct(a)
      /\ \A a, s : Chunk(a, s)' = Chunk(a, s) /\ Passed(a, s)' = Passed(a, s) /\ Listing(a, s)' = Listing(a, s)
  BY SplitFrame
<1>2. attempt \in 1 .. attempt
  BY Underway
<1>3. Types'
  <2>1. overlap' \in BOOLEAN
    BY Zenon DEF Types
  <2>2. \A d \in {out'} \cup {part'[s] : s \in Shards} : Contents(d)' => d.there
    <3>1. \A s \in Shards : Contents(part[s])' => part[s].there
      BY <1>1 DEF Types, Contents, work
    <3>2. QED
      BY <3>1 DEF work
  <2>3. finished' \subseteq 1 .. attempt
    BY <1>2 DEF Types
  <2>4. QED
    BY <1>1, <2>1, <2>2, <2>3 DEF Types, work, fixed
<1>4. Fixed' /\ Launched' /\ Stamped'
  BY <1>1 DEF Fixed, Launched, Stamped, fixed, work
<1>5. Progress'
  BY <1>1 DEF Progress, Sources, work
<1>6. Earned'
  BY <1>1 DEF Earned, Sources, work
<1>7. Packed'
  BY <1>1 DEF Packed, work
<1>8. InPlace'
  <2>1. Direct(attempt) => UNCHANGED out
    BY DEF Progress
  <2>2. QED
    BY <1>1, <2>1 DEF InPlace, work
<1>9. Filled'
  BY <1>1 DEF Filled, work, fixed
<1>10. Kept'
  <2> SUFFICES ASSUME ~nested, ~overlap, ~Direct(attempt), NEW s \in 1 .. Parts(attempt)
               PROVE  /\ worker[attempt][s] \in {"manifest", "ok"} =>
                           \A t \in Chunk(attempt, s) : attempt \in {part[s].stream[t], out'.stream[t]}
                      /\ worker[attempt][s] = "ok" => part[s].manifest = "whole" \/ Emptied'
    BY <1>1 DEF Kept, work
  <2>1. s \in Shards /\ 1 \in Tensors /\ Chunk(attempt, s) \subseteq Tensors
    <3>1. s \in Shards /\ Chunk(attempt, s) \subseteq Tensors
      BY Underway DEF Shards, Sources
    <3>2. n \in Nat \ {0}
      BY MergeAssumption DEF Fixed
    <3>3. QED
      BY <3>1, <3>2 DEF Tensors
  <2>2. worker[attempt][s] \in {"manifest", "ok"} =>
          \A t \in Chunk(attempt, s) : attempt \in {part[s].stream[t], out'.stream[t]}
    BY <1>2, <2>1 DEF Kept
  <2>3. ASSUME worker[attempt][s] = "ok", part[s].manifest # "whole" PROVE Emptied'
    <3>1. pc \in {"flag", "reflag"}
      BY <2>1, <2>3 DEF Packed
    <3>2. driver = "sequential"
      BY <3>1 DEF Guarded
    <3>3. out.listed[1] # 0
      BY <2>1, <3>1 DEF Published
    <3>4. out'.listed # NoFiles
      BY <2>1, <3>1, <3>3 DEF NoFiles
    <3>5. \A q \in 1 .. Parts(attempt) : worker[attempt][q] = "ok"
      BY <3>1 DEF Progress, Sources
    <3>6. QED
      BY <1>1, <3>2, <3>4, <3>5 DEF Emptied, fixed, work
  <2>4. QED
    BY <2>2, <2>3
<1>11. QED
  BY <1>3, <1>4, <1>5, <1>6, <1>7, <1>8, <1>9, <1>10

\* The driver has seen every exit code: it goes on to the merge only when all
\* the packs of the attempt have ended well.
LEMMA WaitInv == ASSUME IInv, Wait PROVE IInv'
<1> USE DEF IInv
<1>1. /\ pc = "wait" /\ UNCHANGED <<fixed, attempt, gpus, work, dest, overlap>>
      /\ \A s \in Awaited : worker[attempt][s] \in {"ok", "failed"}
  BY DEF Wait, Ended
<1>2. CASE \E s \in Awaited : worker[attempt][s] = "failed"
  <2>1. EndAttempt
    BY <1>2 DEF Wait
  <2>2. QED
    BY <1>1, <2>1, EndInv DEF work, Types
<1>3. CASE ~ \E s \in Awaited : worker[attempt][s] = "failed"
  <2> DEFINE next == Max(Awaited) + 1
  <2>1. \/ /\ next > Parts(attempt) /\ ~Direct(attempt)
           /\ pc' = "merge" /\ at' = 1 /\ UNCHANGED <<read, finished>>
        \/ /\ next > Parts(attempt) /\ Direct(attempt)
           /\ pc' = "idle" /\ at' = 0 /\ read' = NothingRead /\ finished' = finished \cup {attempt}
        \/ /\ ~(next > Parts(attempt))
           /\ pc' = (IF driver = "parallel" THEN "wait" ELSE "pack") /\ at' = next
           /\ UNCHANGED <<read, finished>>
    BY <1>3 DEF Wait, Go, Succeed, Leave
  <2> HIDE DEF next
  <2>2. /\ Parts(attempt) \in Nat \ {0} /\ Parts(attempt) <= MaxShards /\ MaxShards \in Nat
        /\ at \in Nat \ {0} /\ at <= Parts(attempt)
        /\ attempt \in 1 .. attempt /\ attempt \in Attempts
    BY <1>1, Underway DEF Progress
  <2>3. /\ next \in Nat \ {0}
        /\ \A s \in 1 .. next - 1 : s < at \/ s \in Awaited
    <3>1. PICK k \in at .. Parts(attempt) : Awaited = at .. k
      BY <1>1, NextBatch
    <3>2. Max(Awaited) = k
      BY <1>1, <2>2, <3>1, NextBatch
    <3>3. QED
      BY <2>2, <3>1, <3>2 DEF next
  <2>4. \A s \in 1 .. next - 1 : worker[attempt][s] = "ok"
    <3> SUFFICES ASSUME NEW s \in 1 .. next - 1 PROVE worker[attempt][s] = "ok"
      OBVIOUS
    <3>1. CASE s < at
      BY <1>1, <2>2, <2>3, <3>1 DEF Progress
    <3>2. CASE s \in Awaited
      BY <1>1, <1>3, <3>2
    <3>3. QED
      BY <2>3, <3>1, <3>2
  <2>5. next > Parts(attempt) => \A s \in Sources : worker[attempt][s] = "ok"
    BY <2>2, <2>3, <2>4 DEF Sources
  <2>6. /\ Tensors' = Tensors /\ NoFiles' = NoFiles
        /\ \A a : Parts(a)' = Parts(a) /\ Direct(a)' = Direct(a)
    BY <1>1, SplitFrame
  <2>7. Progress'
    BY <1>1, <2>1, <2>2, <2>3, <2>4, <2>5, <2>6 DEF Progress, Sources, work, fixed, Direct
  <2>8. Types' /\ Fixed' /\ Launched' /\ Stamped' /\ Progress' /\ Earned' /\ Packed' /\ InPlace'
        /\ Filled' /\ Kept'
    <3>1. pc' # "idle" => at' \in 1 .. Parts(attempt) + 1
      BY <2>1, <2>2, <2>3
    <3>2. out' \in Dir /\ (Contents(out)' => out'.there)
      BY <1>1, SplitFrame DEF Types, dest, Contents
    <3>3. read' \in [Shards -> [Tensors -> Stamps]]
      BY <2>1, MergeAssumption DEF Types, NothingRead, NoFiles, Stamps
    <3>4. nested' \in BOOLEAN
      BY <1>1, Zenon DEF Types, dest
    <3>5. \A t \in Tensors : out'.stream[t] <= attempt /\ (out.stream[t] = attempt => out'.stream[t] = attempt)
      BY <1>1 DEF Stamped, dest
    <3>6. finished' = finished
            \/ (pc' = "idle" /\ finished' = finished \cup {attempt} /\ \A s \in Sources : worker[attempt][s] = "ok")
      <4>1. CASE finished' = finished
        BY <4>1
      <4>2. CASE finished' # finished
        <5>1. next > Parts(attempt) /\ pc' = "idle" /\ finished' = finished \cup {attempt}
          BY <2>1, <4>2
        <5>2. QED
          BY <2>5, <5>1
      <4>3. QED
        BY <4>1, <4>2
    <3>7. pc' \in {"idle", "pack", "wait", "merge"}
      BY <2>1
    <3>8. UNCHANGED <<out, nested>>
      BY <1>1 DEF dest
    <3>9. QED
      BY <1>1, <2>7, <3>1, <3>2, <3>3, <3>4, <3>5, <3>6, <3>7, <3>8, WorkFrame
  <2>9. Merging'
    BY <2>1 DEF Merging
  <2>10. CASE finished' = finished
    <3>1. Published'
      BY <1>1, <2>1, <2>6, <2>10, OutFrame DEF fixed, work, dest
    <3>2. Guarded'
      BY <1>1, <2>1, <2>6, <2>10 DEF Guarded, OutIsClear, Contents, fixed, dest
    <3>3. QED
      BY <2>8, <2>9, <3>1, <3>2
  <2>11. CASE finished' # finished
    <3>1. /\ Direct(attempt) /\ pc' = "idle" /\ worker[attempt][1] = "ok"
      BY <2>1, <2>2, <2>5, <2>11 DEF Sources
    <3>2. ~overlap => /\ out.manifest = "whole" /\ out.passed = {}
                      /\ \A t \in Tensors : out.stream[t] = attempt /\ out.listed[t] = attempt
      BY <1>1, <3>1 DEF InPlace, Progress
    <3>3. Published'
      BY <1>1, <2>2, <2>6, <3>1, <3>2 DEF Published, SuccessIsReadable, dest
    <3>4. out.there /\ Contents(out)
      BY <2>2, <3>1 DEF Filled, Contents, Types
    <3>5. Guarded'
      BY <1>1, <2>6, <3>1, <3>4 DEF Guarded, OutIsClear, Contents, fixed, dest, Direct
    <3>6. QED
      BY <2>8, <2>9, <3>3, <3>5
  <2>12. QED
    BY <2>10, <2>11
<1>4. QED
  BY <1>2, <1>3
-----------------------------------------------------------------------------
(***************************************************************************)
(* The merge.                                                              *)
(***************************************************************************)
\* A directory has contents or it has none, whatever the step.
LEMMA Empties ==
  ASSUME IInv, OutIsClear
  PROVE  out.stream = NoFiles /\ out.manifest = "none" /\ out.passed = {} /\ ~nested
<1>1. ~Contents(out)
  <2>1. CASE ~out.there
    BY <2>1 DEF IInv, Types
  <2>2. CASE out.there
    BY <2>2 DEF OutIsClear
  <2>3. QED
    BY <2>1, <2>2
<1>2. ~nested
  BY DEF OutIsClear, IInv, Guarded
<1>3. QED
  BY <1>1, <1>2 DEF Contents

\* An exception of merge_orka_artifacts ends the driver.
LEMMA RaiseInv ==
  ASSUME IInv, pc # "idle", Raise, UNCHANGED <<fixed, attempt, gpus, overlap>>
  PROVE  IInv'
BY EndInv DEF Raise, work, IInv, Types

\* merge_orka_artifacts reads the manifests of all the parts before it writes:
\* they are those of this attempt, when no earlier one interferes.
LEMMA MergeStartInv == ASSUME IInv, MergeStart PROVE IInv'
<1> USE DEF IInv
<1>1. pc = "merge" /\ UNCHANGED <<fixed, attempt, gpus, overlap>>
  BY DEF MergeStart
<1>2. CASE Raise
  BY <1>1, <1>2, RaiseInv
<1>3. CASE ~Raise
  <2>1. /\ OutIsClear
        /\ read' = [s \in Shards |-> IF s \in Sources THEN part[s].listed ELSE NoFiles]
        /\ out' = [out EXCEPT !.there = TRUE] /\ UNCHANGED <<work, nested, finished>>
        /\ pc' = "copy" /\ at' = 1
    BY <1>3 DEF MergeStart
  <2>2. /\ Tensors' = Tensors /\ NoFiles' = NoFiles
        /\ \A a : Parts(a)' = Parts(a)
        /\ \A a, s : Chunk(a, s)' = Chunk(a, s) /\ Listing(a, s)' = Listing(a, s)
    BY <1>1, SplitFrame
  <2>3. /\ Parts(attempt) \in Nat \ {0} /\ Sources \subseteq Shards
        /\ \A s \in Sources : worker[attempt][s] = "ok"
    BY <1>1, Underway DEF Progress
  <2>4. /\ out' \in Dir /\ out'.there /\ out'.stream = out.stream /\ out'.manifest = out.manifest
        /\ out'.passed = out.passed /\ out'.listed = out.listed
    BY <2>1 DEF Types, Dir
  <2>5. out.stream = NoFiles /\ out.manifest = "none" /\ out.passed = {} /\ ~nested
    BY <2>1, Empties
  <2>6. read' \in [Shards -> [Tensors -> Stamps]]
    <3>1. \A s \in Shards : part[s].listed \in [Tensors -> Stamps]
      BY DEF Types, Dir
    <3>2. NoFiles \in [Tensors -> Stamps]
      BY MergeAssumption DEF NoFiles, Stamps
    <3>3. QED
      BY <2>1, <3>1, <3>2
  <2>7. Types' /\ Fixed' /\ Launched' /\ Stamped' /\ Progress' /\ Earned' /\ Packed' /\ InPlace'
        /\ Filled' /\ Kept'
    <3>1. nested' \in BOOLEAN
      BY <2>1, Zenon DEF Types
    <3>2. at' \in 1 .. Parts(attempt) + 1
      BY <2>1, <2>3
    <3>3. \A t \in Tensors : out'.stream[t] <= attempt /\ (out.stream[t] = attempt => out'.stream[t] = attempt)
      BY <2>4 DEF Stamped
    <3>4. QED
      BY <1>1, <2>1, <2>4, <2>6, <3>1, <3>2, <3>3, WorkFrame
  <2>8. Merging'
    <3>1. ~overlap => \A s \in Shards : read'[s] = IF s <= Parts(attempt) THEN Listing(attempt, s) ELSE NoFiles
      <4> SUFFICES ASSUME ~overlap, NEW s \in Shards
                   PROVE  read'[s] = IF s <= Parts(attempt) THEN Listing(attempt, s) ELSE NoFiles
        OBVIOUS
      <4>1. s \in Sources <=> s <= Parts(attempt)
        BY <2>3, Devices DEF Sources, Shards
      <4>2. CASE s \in Sources
        BY <1>1, <2>1, <2>3, <4>1, <4>2 DEF Packed, Progress
      <4>3. CASE s \notin Sources
        BY <2>1, <4>1, <4>3
      <4>4. QED
        BY <4>2, <4>3
    <3>2. \A s \in 1 .. at' - 1 : FALSE
      BY <2>1
    <3>3. QED
      BY <1>1, <2>1, <2>2, <2>4, <2>5, <3>1, <3>2 DEF Merging
  <2>9. finished = {}
    BY <2>1 DEF Guarded
  <2>10. Published' /\ Guarded'
    BY <1>1, <2>1, <2>2, <2>4, <2>5, <2>9 DEF Published, SuccessIsReadable, Guarded, fixed
  <2>11. QED
    BY <2>7, <2>8, <2>9, <2>10
<1>4. QED
  BY <1>2, <1>3

\* The greater of two stamps.
LEMMA MaxOfTwo ==
  ASSUME NEW x \in Nat, NEW y \in Nat
  PROVE  Max({x, y}) \in {x, y} /\ x <= Max({x, y}) /\ y <= Max({x, y})
<1>1. \E z \in {x, y} : \A u \in {x, y} : z >= u
  OBVIOUS
<1>2. Max({x, y}) \in {x, y} /\ \A u \in {x, y} : Max({x, y}) >= u
  BY <1>1 DEF Max
<1>3. QED
  BY <1>2

\* The copy of a part: no stream is lost or grows older than it is, and the
\* part's own streams, the youngest there can be, are the ones that stay.
LEMMA CopyInv == ASSUME IInv, Copy PROVE IInv'
<1> USE DEF IInv
<1>1. pc = "copy" /\ at \in Sources /\ UNCHANGED <<fixed, attempt, gpus, overlap>>
  BY DEF Copy
<1>2. CASE Raise
  BY <1>1, <1>2, RaiseInv
<1>3. CASE out' = Copied(part[at]) /\ Go("copy", at + 1) /\ UNCHANGED <<work, nested>>
  <2>1. /\ out' = [out EXCEPT !.stream = [t \in Tensors |-> Max({out.stream[t], part[at].stream[t]})]]
        /\ pc' = "copy" /\ at' = at + 1 /\ UNCHANGED <<read, finished, work, nested>>
    BY <1>3 DEF Copied, Go
  <2>2. /\ Tensors' = Tensors /\ NoFiles' = NoFiles
        /\ \A a : Parts(a)' = Parts(a)
        /\ \A a, s : Chunk(a, s)' = Chunk(a, s) /\ Listing(a, s)' = Listing(a, s)
    BY <1>1, SplitFrame
  <2>3. /\ Parts(attempt) \in Nat \ {0} /\ Sources \subseteq Shards /\ at \in Shards
        /\ at \in Nat \ {0} /\ at <= Parts(attempt) /\ attempt \in Nat
        /\ worker[attempt][at] = "ok"
    BY <1>1, Underway DEF Progress, Sources
  <2>4. \A t \in Tensors : /\ out.stream[t] \in Stamps /\ part[at].stream[t] \in Stamps
                           /\ out.stream[t] \in Nat /\ part[at].stream[t] \in Nat
                           /\ out.stream[t] <= attempt /\ part[at].stream[t] <= attempt
    BY <2>3, MergeAssumption DEF Types, Dir, Stamps, Stamped
  <2>5. \A t \in Tensors : LET m == Max({out.stream[t], part[at].stream[t]}) IN
           /\ m \in Stamps /\ m \in Nat /\ m <= attempt
           /\ out.stream[t] <= m /\ part[at].stream[t] <= m
    BY <2>4, MaxOfTwo
  <2>6. /\ out' \in Dir /\ out'.there = out.there /\ out'.manifest = out.manifest
        /\ out'.passed = out.passed /\ out'.listed = out.listed
        /\ \A t \in Tensors : /\ out'.stream[t] \in Nat /\ out'.stream[t] <= attempt
                              /\ out.stream[t] <= out'.stream[t]
                              /\ part[at].stream[t] <= out'.stream[t]
    <3>1. [t \in Tensors |-> Max({out.stream[t], part[at].stream[t]})] \in [Tensors -> Stamps]
      BY <2>5
    <3>2. QED
      BY <2>1, <2>5, <3>1 DEF Types, Dir
  <2>7. /\ out.there /\ ~nested /\ (~overlap => out.manifest = "none" /\ out.passed = {})
        /\ finished = {} /\ ~Direct(attempt)
    BY <1>1 DEF Merging, Guarded, Progress
  <2>8. Types' /\ Fixed' /\ Launched' /\ Stamped' /\ Progress' /\ Earned' /\ Packed' /\ InPlace'
        /\ Filled' /\ Kept'
    <3>1. nested' \in BOOLEAN
      BY <2>1, Zenon DEF Types
    <3>2. at' \in 1 .. Parts(attempt) + 1
      BY <2>1, <2>3
    <3>3. \A t \in Tensors : out'.stream[t] <= attempt /\ (out.stream[t] = attempt => out'.stream[t] = attempt)
      BY <2>3, <2>4, <2>6
    <3>4. read' \in [Shards -> [Tensors -> Stamps]]
      BY <2>1 DEF Types
    <3>5. out'.there
      BY <2>6, <2>7
    <3>6. QED
      BY <1>1, <2>1, <2>6, <3>1, <3>2, <3>3, <3>4, <3>5, WorkFrame
  <2>9. Merging'
    <3>1. ASSUME ~overlap, NEW s \in 1 .. at, NEW t \in Tensors, t \in Chunk(attempt, s)
          PROVE  out'.stream[t] = attempt
      <4>1. CASE s = at
        <5>1. part[at].stream[t] = attempt
          BY <1>1, <2>3, <2>7, <3>1, <4>1 DEF Packed
        <5>2. QED
          BY <2>3, <2>4, <2>6, <5>1
      <4>2. CASE s # at
        <5>1. s \in 1 .. at - 1
          BY <2>3, <4>2
        <5>2. out.stream[t] = attempt
          BY <1>1, <3>1, <5>1 DEF Merging
        <5>3. QED
          BY <2>3, <2>4, <2>6, <5>2
      <4>3. QED
        BY <4>1, <4>2
    <3>2. at' - 1 = at
      BY <2>1, <2>3
    <3>3. ~overlap => \A s \in Shards : read[s] = IF s <= Parts(attempt) THEN Listing(attempt, s) ELSE NoFiles
      BY <1>1 DEF Merging
    <3>4. QED
      BY <1>1, <2>1, <2>2, <2>6, <2>7, <3>1, <3>2, <3>3 DEF Merging
  <2>10. Published' /\ Guarded'
    BY <1>1, <2>1, <2>2, <2>6, <2>7 DEF Published, SuccessIsReadable, Guarded, fixed
  <2>11. QED
    BY <2>8, <2>9, <2>10
<1>4. QED
  BY <1>2, <1>3 DEF Copy

\* A nonempty set of natural numbers below a bound has a greatest.
LEMMA Greatest ==
  ASSUME NEW k \in Nat, NEW S \in SUBSET (0 .. k), S # {}
  PROVE  Max(S) \in S /\ \A x \in S : Max(S) >= x
<1> DEFINE D == {d \in Nat : k - d \in S}
<1>1. D \in SUBSET Nat
  OBVIOUS
<1>2. D # {}
  <2>1. PICK x \in S : TRUE
    OBVIOUS
  <2>2. k - x \in D
    <3>1. k - x \in Nat /\ k - (k - x) = x
      OBVIOUS
    <3>2. QED
      BY <3>1
  <2>3. QED
    BY <2>2
<1>3. \E d \in D : \A e \in D : ~(<<e, d>> \in OpToRel(<, Nat))
  BY <1>1, <1>2, NatLessThanWellFounded, WFMin
<1>4. PICK d \in D : \A e \in D : ~(<<e, d>> \in OpToRel(<, Nat))
  BY <1>3
<1>5. k - d \in S /\ d \in Nat
  OBVIOUS
<1>6. \A x \in S : k - d >= x
  <2> SUFFICES ASSUME NEW x \in S, x > k - d PROVE FALSE
    BY <1>5
  <2>1. k - x \in D /\ k - x < d
    <3>1. k - x \in Nat /\ k - (k - x) = x /\ k - x < d
      BY <1>5
    <3>2. QED
      BY <3>1
  <2>2. <<k - x, d>> \in OpToRel(<, Nat)
    BY <1>5, <2>1 DEF OpToRel
  <2>3. QED
    BY <1>4, <2>1, <2>2
<1>7. QED
  BY <1>5, <1>6 DEF Max

\* merged_tensors: each tensor has the stamp of the part that lists it.
LEMMA MergedIs ==
  ASSUME IInv, pc \in {"copy", "commit", "publish"}
  PROVE  /\ Merged \in [Tensors -> Stamps]
         /\ ~overlap => \A t \in Tensors : Merged[t] = attempt
<1> USE DEF IInv
<1>1. /\ Parts(attempt) \in Nat \ {0} /\ Sources \subseteq Shards /\ 1 \in Sources
      /\ attempt \in Nat /\ MaxAttempts \in Nat
      /\ \A t \in Tensors : \E s \in Sources : t \in Chunk(attempt, s)
  BY Underway, MergeAssumption DEF Sources
<1>2. ASSUME NEW t \in Tensors
      PROVE  Merged[t] \in Stamps /\ (~overlap => Merged[t] = attempt)
  <2> DEFINE S == {read[s][t] : s \in Sources}
  <2>1. Merged[t] = Max(S)
    BY DEF Merged
  <2>2. S \in SUBSET (0 .. MaxAttempts) /\ S # {}
    BY <1>1 DEF Types, Stamps
  <2>3. Max(S) \in S /\ \A x \in S : Max(S) >= x
    BY <1>1, <2>2, Greatest
  <2>4. ASSUME ~overlap PROVE Max(S) = attempt
    <3>1. \A s \in Sources : read[s] = Listing(attempt, s)
      BY <1>1, <2>4, Devices DEF Merging, Sources, Shards
    <3>2. \A s \in Sources : read[s][t] = IF t \in Chunk(attempt, s) THEN attempt ELSE 0
      BY <3>1 DEF Listing
    <3>3. PICK s \in Sources : t \in Chunk(attempt, s)
      BY <1>1
    <3>4. attempt \in S /\ \A x \in S : x \in {attempt, 0}
      BY <3>2, <3>3
    <3>5. Max(S) \in {attempt, 0} /\ Max(S) >= attempt
      BY <2>3, <3>4
    <3> HIDE DEF S
    <3>6. QED
      BY <1>1, <3>5
  <2>5. QED
    BY <2>1, <2>2, <2>3, <2>4 DEF Stamps
<1>3. QED
  BY <1>2 DEF Merged

\* The passthrough of the parts, less what any part quantized: nothing is left
\* of it, since the parts together have every tensor.
LEMMA ListInv == ASSUME IInv, List PROVE IInv'
<1> USE DEF IInv
<1>1. pc = "copy" /\ at > Parts(attempt) /\ UNCHANGED <<fixed, attempt, gpus, overlap>>
  BY DEF List
<1>2. CASE Raise
  BY <1>1, <1>2, RaiseInv
<1>3. CASE ~Raise
  <2> DEFINE left == {t \in UNION {part[s].passed : s \in Sources} : Leftover(t)}
  <2>1. /\ out' = [out EXCEPT !.passed = left]
        /\ pc' = "commit" /\ at' = 1 /\ UNCHANGED <<read, finished, work, nested>>
    BY <1>3 DEF List, Go
  <2>2. /\ Tensors' = Tensors /\ NoFiles' = NoFiles
        /\ \A a : Parts(a)' = Parts(a)
        /\ \A a, s : Chunk(a, s)' = Chunk(a, s) /\ Listing(a, s)' = Listing(a, s)
    BY <1>1, SplitFrame
  <2>3. /\ Parts(attempt) \in Nat \ {0} /\ Sources \subseteq Shards
        /\ at \in Nat \ {0} /\ at <= Parts(attempt) + 1 /\ attempt \in Nat /\ attempt # 0
        /\ \A t \in Tensors : \E s \in Sources : t \in Chunk(attempt, s)
    BY <1>1, Underway
  <2>4. left \subseteq Tensors /\ (~overlap => left = {})
    <3>1. \A s \in Sources : part[s].passed \subseteq Tensors
      BY <2>3 DEF Types, Dir
    <3>2. ~overlap => \A t \in Tensors : ~Leftover(t)
      BY <1>1, <2>3, MergedIs DEF Leftover
    <3>3. QED
      BY <3>1, <3>2
  <2> HIDE DEF left
  <2>5. /\ out' \in Dir /\ out'.there = out.there /\ out'.manifest = out.manifest
        /\ out'.passed = left /\ out'.listed = out.listed /\ out'.stream = out.stream
    BY <2>1, <2>4 DEF Types, Dir
  <2>6. out.there /\ (~overlap => out.manifest = "none") /\ ~nested /\ finished = {}
    BY <1>1 DEF Merging, Guarded
  <2>7. Types' /\ Fixed' /\ Launched' /\ Stamped' /\ Progress' /\ Earned' /\ Packed' /\ InPlace'
        /\ Filled' /\ Kept'
    <3>1. nested' \in BOOLEAN
      BY <2>1, Zenon DEF Types
    <3>2. at' \in 1 .. Parts(attempt) + 1
      BY <2>1, <2>3
    <3>3. \A t \in Tensors : out'.stream[t] <= attempt /\ (out.stream[t] = attempt => out'.stream[t] = attempt)
      BY <2>5 DEF Stamped
    <3>4. read' \in [Shards -> [Tensors -> Stamps]]
      BY <2>1 DEF Types
    <3>5. out'.there
      BY <2>5, <2>6
    <3>6. QED
      BY <1>1, <2>1, <2>5, <3>1, <3>2, <3>3, <3>4, <3>5, WorkFrame
  <2>8. Merging'
    <3>1. ASSUME ~overlap, NEW t \in Tensors PROVE out.stream[t] = attempt
      <4>1. PICK s \in Sources : t \in Chunk(attempt, s)
        BY <2>3
      <4>2. s \in 1 .. at - 1
        BY <1>1, <2>3, <4>1 DEF Sources
      <4>3. QED
        BY <1>1, <3>1, <4>1, <4>2 DEF Merging
    <3>2. ~overlap => \A s \in Shards : read[s] = IF s <= Parts(attempt) THEN Listing(attempt, s) ELSE NoFiles
      BY <1>1 DEF Merging
    <3>3. QED
      BY <1>1, <2>1, <2>2, <2>4, <2>5, <2>6, <3>1, <3>2 DEF Merging
  <2>9. Published' /\ Guarded'
    BY <1>1, <2>1, <2>2, <2>5, <2>6 DEF Published, SuccessIsReadable, Guarded, fixed
  <2>10. QED
    BY <2>7, <2>8, <2>9
<1>4. QED
  BY <1>2, <1>3

\* write_text, first half: what the manifest is to say is already decided, by
\* the merge or by the manifest that is there.
LEMMA TruncateInv == ASSUME IInv, Truncate PROVE IInv'
<1> USE DEF IInv
<1>1. /\ pc \in {"commit", "flag"} /\ UNCHANGED <<fixed, attempt, gpus, work, nested, overlap, read, finished>>
      /\ out' = [out EXCEPT !.manifest = "torn"] /\ at' = at
      /\ pc = "commit" => pc' = "publish"
      /\ pc = "flag" => pc' = "reflag"
  BY DEF Truncate, Go
<1>2. /\ Tensors' = Tensors /\ NoFiles' = NoFiles
      /\ \A a : Parts(a)' = Parts(a) /\ Direct(a)' = Direct(a)
      /\ \A a, s : Chunk(a, s)' = Chunk(a, s) /\ Listing(a, s)' = Listing(a, s)
  BY <1>1, SplitFrame
<1>3. /\ out' \in Dir /\ out'.there = out.there /\ out'.manifest = "torn"
      /\ out'.passed = out.passed /\ out'.listed = out.listed /\ out'.stream = out.stream
  BY <1>1 DEF Types, Dir
<1>4. Types' /\ Fixed' /\ Launched' /\ Stamped' /\ Progress' /\ Earned' /\ Packed' /\ InPlace'
        /\ Filled' /\ Kept'
  <2>1. nested' \in BOOLEAN
    BY <1>1, Zenon DEF Types
  <2>2. at' \in 1 .. Parts(attempt) + 1
    BY <1>1 DEF Types
  <2>3. \A t \in Tensors : out'.stream[t] <= attempt /\ (out.stream[t] = attempt => out'.stream[t] = attempt)
    BY <1>3 DEF Stamped
  <2>4. read' \in [Shards -> [Tensors -> Stamps]]
    BY <1>1 DEF Types
  <2>5. out'.there
    BY <1>1, <1>3 DEF Merging
  <2>6. QED
    BY <1>1, <1>3, <2>1, <2>2, <2>3, <2>4, <2>5, WorkFrame
<1>5. Merging'
  BY <1>1, <1>2, <1>3 DEF Merging
<1>6. finished = {}
  BY <1>1 DEF Guarded
<1>7. Published' /\ Guarded'
  <2>1. \A t \in Tensors : Overwritten(t) => Overwritten(t)'
    BY <1>1, <1>2, <1>3, StillOverwritten DEF work
  <2>2. Published'
    BY <1>1, <1>2, <1>3, <1>6, <2>1 DEF Published, SuccessIsReadable
  <2>3. Guarded'
    BY <1>1, <1>3, <1>6 DEF Guarded, fixed
  <2>4. QED
    BY <2>2, <2>3
<1>8. QED
  BY <1>4, <1>5, <1>7

\* write_text of the merged manifest.
LEMMA PublishInv == ASSUME IInv, Publish PROVE IInv'
<1> USE DEF IInv
<1>1. /\ pc = "publish" /\ UNCHANGED <<fixed, attempt, gpus, work, nested, overlap>>
      /\ out' = [out EXCEPT !.manifest = "whole", !.listed = Merged]
      /\ \/ driver = "kaggle" /\ Leave /\ finished' = finished \cup {attempt}
         \/ driver # "kaggle" /\ Go("clean", 1)
  BY DEF Publish, Succeed
<1>2. /\ Tensors' = Tensors /\ NoFiles' = NoFiles
      /\ \A a : Parts(a)' = Parts(a)
      /\ \A a, s : Chunk(a, s)' = Chunk(a, s) /\ Listing(a, s)' = Listing(a, s)
  BY <1>1, SplitFrame
<1>3. Merged \in [Tensors -> Stamps] /\ (~overlap => \A t \in Tensors : Merged[t] = attempt)
  BY <1>1, MergedIs
<1>4. /\ out' \in Dir /\ out'.there = out.there /\ out'.manifest = "whole"
      /\ out'.passed = out.passed /\ out'.listed = Merged /\ out'.stream = out.stream
  BY <1>1, <1>3 DEF Types, Dir
<1>5. /\ pc' \in {"idle", "clean"} /\ (pc' = "clean" => at' = 1 /\ driver # "kaggle" /\ finished' = finished)
      /\ (pc' = "idle" => driver = "kaggle" /\ at' = 0)
      /\ read' \in {read, NothingRead} /\ finished' \in {finished, finished \cup {attempt}}
      /\ (finished' # finished => pc' = "idle")
      /\ finished = {}
  BY <1>1 DEF Leave, Go, Guarded
<1>6. out.there /\ ~nested /\ attempt \in 1 .. attempt /\ Parts(attempt) \in Nat \ {0} /\ attempt # 0
  BY <1>1, Underway DEF Merging
<1>7. Types' /\ Fixed' /\ Launched' /\ Stamped' /\ Progress' /\ Earned' /\ Packed' /\ InPlace'
        /\ Filled' /\ Kept'
  <2>1. nested' \in BOOLEAN
    BY <1>1, Zenon DEF Types
  <2>2. /\ pc' # "idle" => at' \in 1 .. Parts(attempt) + 1
        /\ \A s \in Sources : worker[attempt][s] = "ok"
    BY <1>1, <1>5, <1>6 DEF Progress
  <2>3. \A t \in Tensors : out'.stream[t] <= attempt /\ (out.stream[t] = attempt => out'.stream[t] = attempt)
    BY <1>4 DEF Stamped
  <2>4. read' \in [Shards -> [Tensors -> Stamps]]
    BY <1>5, MergeAssumption DEF Types, NothingRead, NoFiles, Stamps
  <2>5. QED
    BY <1>1, <1>4, <1>5, <1>6, <2>1, <2>2, <2>3, <2>4, WorkFrame
<1>8. Merging'
  BY <1>1, <1>2, <1>4, <1>5, <1>6 DEF Merging
<1>9. Published'
  <2>1. ~overlap => out.passed = {} /\ \A t \in Tensors : out.stream[t] = attempt
    BY <1>1 DEF Merging
  <2>2. QED
    BY <1>1, <1>2, <1>3, <1>4, <1>5, <1>6, <2>1 DEF Published, SuccessIsReadable
<1>10. Guarded'
  <2>1. out'.there /\ Contents(out)'
    BY <1>4, <1>6 DEF Contents
  <2>2. ~OutIsClear'
    BY <2>1 DEF OutIsClear
  <2>3. QED
    BY <1>1, <1>5, <1>6, <2>1, <2>2 DEF Guarded, fixed
<1>11. QED
  BY <1>7, <1>8, <1>9, <1>10

\* The flags of the sequential driver, written over the manifest.
LEMMA ReflagInv == ASSUME IInv, Reflag PROVE IInv'
<1> USE DEF IInv
<1>1. /\ pc = "reflag" /\ UNCHANGED <<fixed, attempt, gpus, work, nested, overlap>>
      /\ out' = [out EXCEPT !.manifest = "whole"]
      /\ pc' = "idle" /\ at' = 0 /\ read' = NothingRead /\ finished' = finished \cup {attempt}
  BY DEF Reflag, Succeed, Leave
<1>2. /\ Tensors' = Tensors /\ NoFiles' = NoFiles
      /\ \A a : Parts(a)' = Parts(a) /\ Direct(a)' = Direct(a)
      /\ \A a, s : Chunk(a, s)' = Chunk(a, s) /\ Listing(a, s)' = Listing(a, s)
  BY <1>1, SplitFrame
<1>3. /\ out' \in Dir /\ out'.there = out.there /\ out'.manifest = "whole"
      /\ out'.passed = out.passed /\ out'.listed = out.listed /\ out'.stream = out.stream
  BY <1>1 DEF Types, Dir
<1>4. out.there /\ attempt \in 1 .. attempt
  BY <1>1, Underway DEF Merging
<1>5. Types' /\ Fixed' /\ Launched' /\ Stamped' /\ Progress' /\ Earned' /\ Packed' /\ InPlace'
        /\ Filled' /\ Kept'
  <2>1. nested' \in BOOLEAN
    BY <1>1, Zenon DEF Types
  <2>2. \A s \in Sources : worker[attempt][s] = "ok"
    BY <1>1 DEF Progress
  <2>3. \A t \in Tensors : out'.stream[t] <= attempt /\ (out.stream[t] = attempt => out'.stream[t] = attempt)
    BY <1>3 DEF Stamped
  <2>4. read' \in [Shards -> [Tensors -> Stamps]]
    BY <1>1, MergeAssumption DEF NothingRead, NoFiles, Stamps
  <2>5. QED
    BY <1>1, <1>3, <1>4, <2>1, <2>2, <2>3, <2>4, WorkFrame
<1>6. Merging' /\ Published'
  <2>1. \A t \in Tensors : Overwritten(t) => Overwritten(t)'
    BY <1>1, <1>2, <1>3, StillOverwritten DEF work
  <2>2. QED
    BY <1>1, <1>2, <1>3, <2>1 DEF Merging, Published, SuccessIsReadable
<1>7. Guarded'
  <2>1. out'.there /\ Contents(out)'
    BY <1>3, <1>4 DEF Contents
  <2>2. ~OutIsClear'
    BY <2>1 DEF OutIsClear
  <2>3. QED
    BY <1>1, <1>3, <2>1, <2>2 DEF Guarded, fixed
<1>8. QED
  BY <1>5, <1>6, <1>7

\* The parts are removed or moved away, and the merge is over.
LEMMA EmptyFrame ==
  ASSUME IInv, pc \in {"merge", "clean"}, UNCHANGED <<fixed, attempt, gpus, worker, overlap>>,
         part' \in [Shards -> Dir], \A s \in Shards : part'[s] \in {part[s], NoDir},
         pc' \in {"idle", "flag"}, pc' = "flag" => at' = 1,
         out' \in Dir, Contents(out)' => out'.there, nested' \in BOOLEAN,
         \A t \in Tensors : out'.stream[t] <= attempt,
         out.manifest # "none" \/ pc' = "flag" => out'.manifest # "none",
         pc' = "flag" => driver # "parallel",
         read' \in {read, NothingRead},
         finished' = finished \/ (pc' = "idle" /\ finished' = finished \cup {attempt})
  PROVE  Types' /\ Fixed' /\ Launched' /\ Stamped' /\ Progress' /\ Earned' /\ Packed' /\ InPlace' /\ Filled'
<1> USE DEF IInv
<1>1. /\ Tensors' = Tensors /\ Dir' = Dir /\ NoFiles' = NoFiles /\ NoDir' = NoDir
      /\ \A a : Parts(a)' = Parts(a) /\ Direct(a)' = Direct(a)
  BY SplitFrame
<1>2. attempt \in 1 .. attempt /\ attempt \in Nat /\ Parts(attempt) \in Nat \ {0}
  BY Underway
<1>3. Types'
  <2>1. overlap' \in BOOLEAN
    BY Zenon DEF Types
  <2>2. \A d \in {out'} \cup {part'[s] : s \in Shards} : Contents(d)' => d.there
    <3>1. \A s \in Shards : Contents(part[s])' => part'[s].there
      <4>1. \A s \in Shards : Contents(part[s]) => part[s].there
        BY DEF Types
      <4>2. \A s \in Shards : part[s].stream # NoFiles' \/ part[s].manifest # "none" \/ part[s].passed # {} => part[s].there
        BY <1>1, <4>1 DEF Contents
      <4>3. ~(NoDir.stream # NoFiles' \/ NoDir.manifest # "none" \/ NoDir.passed # {})
        BY <1>1 DEF NoDir
      <4>4. ASSUME NEW s \in Shards
            PROVE  part'[s].stream # NoFiles' \/ part'[s].manifest # "none" \/ part'[s].passed # {} => part'[s].there
        BY <4>2, <4>3
      <4>5. QED
        BY <4>4 DEF Contents
    <3>2. QED
      BY <3>1
  <2>3. /\ read' \in [Shards -> [Tensors -> Stamps]] /\ finished' \subseteq 1 .. attempt
        /\ pc' # "idle" => at' \in 1 .. Parts(attempt) + 1
    BY <1>2, MergeAssumption DEF Types, NothingRead, NoFiles, Stamps
  <2>4. QED
    BY <1>1, <2>1, <2>2, <2>3 DEF Types, fixed
<1>4. Fixed' /\ Launched'
  BY <1>1 DEF Fixed, Launched, fixed
<1>5. Stamped'
  <2>1. \A t \in Tensors : NoDir.stream[t] <= attempt
    BY <1>2 DEF NoDir, NoFiles
  <2>2. QED
    BY <1>1, <2>1 DEF Stamped
<1>6. Progress'
  BY <1>1 DEF Progress, Sources
<1>7. Packed'
  BY DEF Packed
<1>8. ~Direct(attempt) /\ \A s \in 1 .. Parts(attempt) : worker[attempt][s] = "ok"
  BY DEF Progress, Sources
<1>9. Earned'
  BY <1>1, <1>8 DEF Earned
<1>10. InPlace' /\ Filled'
  BY <1>1, <1>8 DEF InPlace, Filled, fixed
<1>11. QED
  BY <1>3, <1>4, <1>5, <1>6, <1>7, <1>9, <1>10

\* shutil.rmtree of the parts: every stream is in the output directory.
LEMMA CleanInv == ASSUME IInv, Clean PROVE IInv'
<1> USE DEF IInv
<1>1. /\ pc = "clean" /\ UNCHANGED <<fixed, attempt, gpus, worker, out, nested, overlap>>
      /\ part' = [s \in Shards |-> IF s \in Sources THEN NoDir ELSE part[s]]
      /\ pc' \in {"idle", "flag"} /\ (pc' = "flag" => at' = 1 /\ driver # "parallel")
      /\ (pc' = "idle" => driver = "parallel")
      /\ read' \in {read, NothingRead}
      /\ finished' = finished \/ (pc' = "idle" /\ finished' = finished \cup {attempt})
  BY DEF Clean, Succeed, Leave, Go, dest
<1>2. /\ Tensors' = Tensors /\ NoFiles' = NoFiles
      /\ \A a : Parts(a)' = Parts(a) /\ Direct(a)' = Direct(a)
      /\ \A a, s : Chunk(a, s)' = Chunk(a, s)
  BY <1>1, SplitFrame
<1>3. /\ ~nested /\ out.manifest # "none" /\ finished = {}
      /\ ~overlap => out.manifest = "whole" /\ \A t \in Tensors : out.stream[t] = attempt
  BY <1>1 DEF Merging, Published, Filled, Guarded
<1>4. out.there
  BY <1>3 DEF Types, Contents
<1>5. driver \in {"sequential", "parallel"}
  BY <1>1, MergeAssumption DEF Guarded, Fixed
<1>6. Types' /\ Fixed' /\ Launched' /\ Stamped' /\ Progress' /\ Earned' /\ Packed' /\ InPlace' /\ Filled'
  <2>1. part' \in [Shards -> Dir] /\ \A s \in Shards : part'[s] \in {part[s], NoDir}
    <3>1. NoDir \in Dir
      BY MergeAssumption DEF NoDir, NoFiles, Dir, Stamps
    <3>2. QED
      BY <1>1, <3>1 DEF Types
  <2>2. nested' \in BOOLEAN
    BY <1>1, Zenon DEF Types
  <2>3. \A t \in Tensors : out'.stream[t] <= attempt
    BY <1>1 DEF Stamped
  <2>4. out' \in Dir /\ out'.there
    BY <1>1, <1>4 DEF Types
  <2>5. QED
    BY <1>1, <1>3, <2>1, <2>2, <2>3, <2>4, EmptyFrame
<1>7. Kept'
  <2>1. \A s \in 1 .. Parts(attempt) : worker[attempt][s] = "ok" /\ Chunk(attempt, s) \subseteq Tensors
    BY <1>1, Underway DEF Progress, Sources
  <2>2. ~overlap => Emptied'
    BY <1>1, <1>2, <1>3, <2>1 DEF Emptied
  <2>3. QED
    BY <1>1, <1>2, <1>3, <2>1, <2>2 DEF Kept
<1>8. Merging' /\ Published'
  <2>1. \A t \in Tensors : Overwritten(t) => Overwritten(t)'
    BY <1>1, <1>2, StillOverwritten
  <2>2. QED
    BY <1>1, <1>2, <1>3, <1>4, <2>1 DEF Merging, Published, SuccessIsReadable
<1>9. Guarded'
  BY <1>1, <1>2, <1>3, <1>4, <1>5 DEF Guarded, OutIsClear, Contents, fixed
<1>10. QED
  BY <1>6, <1>7, <1>8, <1>9

\* shutil.move of a single part: into an output directory that exists, or in
\* its place, in which case the part was the whole artifact.
LEMMA MoveInv == ASSUME IInv, Move PROVE IInv'
<1> USE DEF IInv
<1>1. /\ pc = "merge" /\ Parts(attempt) = 1 /\ driver # "kaggle"
      /\ UNCHANGED <<fixed, attempt, gpus, overlap>>
  BY DEF Move, Single
<1>2. CASE out.there /\ nested
  <2>1. Raise
    BY <1>2 DEF Move
  <2>2. QED
    BY <1>1, <2>1, RaiseInv
<1>3. CASE ~(out.there /\ nested)
  <2>1. /\ part' = [part EXCEPT ![1] = NoDir] /\ UNCHANGED worker
        /\ \/ out.there /\ nested' = TRUE /\ UNCHANGED out
           \/ ~out.there /\ out' = part[1] /\ UNCHANGED nested
        /\ read' \in {read, NothingRead}
        /\ finished' = finished \/ (pc' = "idle" /\ finished' = finished \cup {attempt})
        /\ pc' \in {"idle", "flag"}
        /\ pc' = "flag" => at' = 1 /\ driver # "parallel" /\ out'.manifest # "none"
        /\ driver # "parallel" => finished' = finished
    BY <1>3 DEF Move, EndAttempt, Leave, Succeed, Go
  <2>2. /\ Tensors' = Tensors /\ NoFiles' = NoFiles
        /\ \A a : Parts(a)' = Parts(a) /\ Direct(a)' = Direct(a)
        /\ \A a, s : Chunk(a, s)' = Chunk(a, s)
    BY <1>1, SplitFrame
  <2>3. /\ attempt \in Attempts /\ attempt \in Nat /\ attempt # 0 /\ 1 \in Shards /\ 1 \in Sources
        /\ worker[attempt][1] = "ok" /\ ~Direct(attempt)
        /\ \A t \in Tensors : t \in Chunk(attempt, 1)
    <3>1. Sources = {1}
      BY <1>1 DEF Sources
    <3>2. QED
      BY <1>1, <3>1, Underway DEF Progress
  <2>4. part[1] \in Dir /\ out' \in Dir /\ (Contents(out') => out'.there)
    <3>1. part[1] \in Dir /\ (Contents(part[1]) => part[1].there)
      BY <2>3 DEF Types
    <3>2. QED
      BY <2>1, <3>1 DEF Types
  <2>5. ~out.there => out.stream = NoFiles /\ out.manifest = "none" /\ finished = {} /\ ~nested
    <3>1. ~out.there => OutIsClear
      BY DEF OutIsClear
    <3>2. QED
      BY <3>1, Empties DEF Guarded
  <2>6. Types' /\ Fixed' /\ Launched' /\ Stamped' /\ Progress' /\ Earned' /\ Packed' /\ InPlace' /\ Filled'
    <3>1. part' \in [Shards -> Dir] /\ \A s \in Shards : part'[s] \in {part[s], NoDir}
      <4>1. NoDir \in Dir
        BY MergeAssumption DEF NoDir, NoFiles, Dir, Stamps
      <4>2. QED
        BY <2>1, <2>3, <4>1 DEF Types
    <3>2. nested' \in BOOLEAN
      <4>1. CASE nested' = TRUE
        BY <4>1
      <4>2. CASE UNCHANGED nested
        BY <4>2, Zenon DEF Types
      <4>3. QED
        BY <2>1, <4>1, <4>2
    <3>3. \A t \in Tensors : out'.stream[t] <= attempt
      BY <2>1, <2>3 DEF Stamped
    <3>4. Contents(out)' => out'.there
      BY <2>2, <2>4 DEF Contents
    <3>5. QED
      BY <1>1, <2>1, <2>4, <2>5, <3>1, <3>2, <3>3, <3>4, EmptyFrame
  <2>7. driver # "parallel" => OutIsClear /\ finished = {} /\ driver = "sequential"
    BY <1>1, MergeAssumption DEF Guarded, Fixed
  <2>8. CASE out.there /\ nested' = TRUE /\ UNCHANGED out
    <3>1. driver # "parallel" => out.manifest = "none"
      BY <2>7, Empties
    <3>2. pc' = "idle"
      BY <2>1, <2>8, <3>1
    <3>3. Kept' /\ Merging'
      BY <2>8, <3>2 DEF Kept, Merging
    <3>4. Published'
      <4>1. \A t \in Tensors : Overwritten(t) => Overwritten(t)'
        BY <1>1, <2>1, <2>2, <2>8, StillOverwritten
      <4>2. QED
        BY <1>1, <2>2, <2>8, <3>2, <4>1 DEF Published, SuccessIsReadable
    <3>5. Guarded'
      BY <1>1, <2>1, <2>7, <2>8, <3>2 DEF Guarded, OutIsClear, fixed
    <3>6. QED
      BY <2>6, <3>3, <3>4, <3>5
  <2>9. CASE ~out.there /\ out' = part[1] /\ UNCHANGED nested
    <3>1. ~overlap => /\ out'.manifest = "whole" /\ out'.passed = {}
                      /\ \A t \in Tensors : out'.listed[t] = attempt /\ out'.stream[t] = attempt
      <4> SUFFICES ASSUME ~overlap
                   PROVE  /\ part[1].manifest = "whole" /\ part[1].passed = {}
                          /\ \A t \in Tensors : part[1].listed[t] = attempt /\ part[1].stream[t] = attempt
        BY <2>9
      <4>1. /\ part[1].manifest = "whole" /\ part[1].passed = Passed(attempt, 1)
            /\ part[1].listed = Listing(attempt, 1)
            /\ \A t \in Chunk(attempt, 1) : part[1].stream[t] = attempt
        BY <1>1, <2>3 DEF Packed
      <4>2. Passed(attempt, 1) = {}
        BY <2>3 DEF Passed
      <4>3. \A t \in Tensors : Listing(attempt, 1)[t] = attempt
        BY <2>3 DEF Listing
      <4>4. QED
        BY <2>3, <4>1, <4>2, <4>3
    <3>2. Kept'
      <4>1. Chunk(attempt, 1) \subseteq Tensors
        BY <1>1, <2>3, Underway
      <4>2. ~overlap => Emptied'
        BY <1>1, <2>1, <2>2, <2>3, <3>1 DEF Emptied
      <4>3. \A s \in 1 .. Parts(attempt) : s = 1
        BY <1>1
      <4>4. ASSUME ~overlap PROVE \A t \in Tensors : out'.stream[t] = attempt
        BY <3>1, <4>4
      <4>5. QED
        BY <1>1, <2>2, <2>3, <4>1, <4>2, <4>3, <4>4 DEF Kept
    <3>3. Merging'
      BY <2>1, <2>4, <2>9 DEF Merging, Contents
    <3>4. Published'
      BY <1>1, <2>1, <2>2, <2>3, <2>5, <2>9, <3>1 DEF Published, SuccessIsReadable
    <3>5. Guarded'
      <4>1. driver = "parallel" => part[1].manifest # "none"
        BY <1>1, <2>3 DEF Filled
      <4>2. driver = "parallel" => out'.there /\ Contents(out)'
        BY <2>4, <2>9, <4>1 DEF Contents
      <4>3. QED
        BY <1>1, <2>1, <2>5, <2>7, <2>9, <4>2 DEF Guarded, OutIsClear, fixed
    <3>6. QED
      BY <2>6, <3>2, <3>3, <3>4, <3>5
  <2>10. QED
    BY <2>1, <2>8, <2>9
<1>4. QED
  BY <1>2, <1>3
-----------------------------------------------------------------------------
(***************************************************************************)
(* The packs of the parts.                                                 *)
(***************************************************************************)
\* What a pack may do to its directory, of the present attempt or of an earlier
\* one: it takes no stream away.
LEMMA PackFrame ==
  ASSUME IInv, NEW a \in Attempts, NEW s \in Shards, Running(a, s), ~Direct(a),
         NEW d \in Dir, d.there, part' = [part EXCEPT ![s] = d], UNCHANGED out,
         NEW st \in {"manifest", "ok", "failed"}, worker' = [worker EXCEPT ![a][s] = st],
         Late(a), Elsewhere,
         \A t \in Tensors : d.stream[t] <= attempt,
         part[s].manifest # "none" \/ st = "ok" => d.manifest # "none",
         a = attempt /\ st # "failed" /\ ~nested /\ ~overlap =>
            /\ \A t \in Chunk(a, s) : attempt \in {d.stream[t], out.stream[t]}
            /\ st = "ok" => d.manifest = "whole",
         a = attempt /\ st # "failed" /\ ~overlap /\ pc \notin {"idle", "flag", "reflag"} =>
           /\ \A t \in Chunk(a, s) : d.stream[t] = a
           /\ d.passed = Passed(a, s)
           /\ st = "ok" => d.manifest = "whole" /\ d.listed = Listing(a, s)
  PROVE  IInv'
<1> USE DEF IInv
<1>1. UNCHANGED <<fixed, attempt, gpus, pc, at, out, nested, read, finished>>
  BY DEF Elsewhere
<1>2. /\ Tensors' = Tensors /\ Dir' = Dir /\ NoFiles' = NoFiles
      /\ \A b : Parts(b)' = Parts(b) /\ Direct(b)' = Direct(b)
      /\ \A b, r : Chunk(b, r)' = Chunk(b, r) /\ Passed(b, r)' = Passed(b, r) /\ Listing(b, r)' = Listing(b, r)
  BY <1>1, SplitFrame
<1>3. /\ worker' \in [Attempts -> [Shards -> {"none", "streams", "manifest", "ok", "failed"}]]
      /\ \A b \in Attempts, r \in Shards :
           worker'[b][r] = IF b = a /\ r = s THEN st ELSE worker[b][r]
  BY DEF Types
<1>4. /\ part' \in [Shards -> Dir]
      /\ \A r \in Shards : part'[r] = IF r = s THEN d ELSE part[r]
  BY DEF Types
<1>5. /\ a <= attempt /\ s <= Parts(a) /\ worker[a][s] # "ok" /\ attempt \in Nat /\ a \in Nat
  BY MergeAssumption DEF Launched, Running, Types, Attempts
<1>6. overlap' \in BOOLEAN /\ (~overlap' => ~overlap /\ a = attempt)
  <2>1. overlap' = (overlap \/ a < attempt)
    BY DEF Late
  <2>2. overlap' \in BOOLEAN
    BY <2>1
  <2>3. a < attempt \/ a = attempt
    BY <1>5
  <2>4. QED
    BY <2>1, <2>2, <2>3
<1>7. attempt \in Attempts /\ attempt # 0
  BY <1>5, MergeAssumption DEF Types, Attempts
<1>8. Types'
  <2>1. nested' \in BOOLEAN
    BY <1>1, Zenon DEF Types
  <2>2. \A e \in {out'} \cup {part'[r] : r \in Shards} : Contents(e)' => e.there
    <3>1. \A e \in {out} \cup {part[r] : r \in Shards} : Contents(e)' => e.there
      BY <1>2 DEF Types, Contents
    <3>2. QED
      BY <1>1, <1>4, <3>1
  <2>3. QED
    BY <1>1, <1>2, <1>3, <1>4, <1>6, <2>1, <2>2 DEF Types, fixed
<1>9. Fixed'
  BY <1>1 DEF Fixed, fixed
<1>10. Launched'
  <2> SUFFICES ASSUME NEW b \in Attempts, NEW r \in Shards, worker'[b][r] # "none"
               PROVE  b <= attempt /\ r <= Parts(b)
    BY <1>1, <1>2 DEF Launched
  <2>1. CASE b = a /\ r = s
    BY <1>5, <2>1
  <2>2. CASE ~(b = a /\ r = s)
    BY <1>3, <2>2 DEF Launched
  <2>3. QED
    BY <2>1, <2>2
<1>11. Stamped'
  <2> SUFFICES ASSUME NEW t \in Tensors
               PROVE  out.stream[t] <= attempt /\ \A r \in Shards : part'[r].stream[t] <= attempt
    BY <1>1, <1>2 DEF Stamped
  <2>1. QED
    BY <1>4 DEF Stamped
<1>12. Progress'
  <2>1. ASSUME NEW r \in Shards, worker[attempt][r] = "ok" PROVE worker'[attempt][r] = "ok"
    BY <1>3, <1>5, <1>7, <2>1
  <2>2. pc # "idle" => Sources \subseteq Shards /\ \A r \in 1 .. at - 1 : at <= Parts(attempt) => r \in Shards
    <3> SUFFICES ASSUME pc # "idle"
                 PROVE  Sources \subseteq Shards /\ \A r \in 1 .. at - 1 : at <= Parts(attempt) => r \in Shards
      OBVIOUS
    <3>1. Parts(attempt) \in Nat /\ Parts(attempt) <= MaxShards /\ MaxShards \in Nat /\ at \in Nat
      BY Underway
    <3>2. QED
      BY <3>1 DEF Sources, Shards
  <2>3. pc \notin {"idle", "pack", "wait"} => \A r \in Sources : worker'[attempt][r] = "ok"
    BY <2>1, <2>2 DEF Progress
  <2>4. pc \in {"pack", "wait"} => at <= Parts(attempt) /\ \A r \in 1 .. at - 1 : worker'[attempt][r] = "ok"
    BY <2>1, <2>2 DEF Progress
  <2>5. Sources' = Sources
    BY <1>1, <1>2 DEF Sources
  <2>6. pc = "pack" /\ Direct(attempt) => worker'[attempt][1] = "none"
    BY <1>3, <1>7, Devices DEF Progress, Shards
  <2>7. QED
    BY <1>1, <1>2, <2>3, <2>4, <2>5, <2>6 DEF Progress
<1>13. Packed'
  <2> SUFFICES ASSUME ~overlap', pc \notin {"idle", "flag", "reflag"}, NEW r \in Shards
               PROVE  /\ worker'[attempt][r] \in {"manifest", "ok"} =>
                           /\ \A t \in Chunk(attempt, r) : part'[r].stream[t] = attempt
                           /\ part'[r].passed = Passed(attempt, r)
                      /\ worker'[attempt][r] = "ok" =>
                           part'[r].manifest = "whole" /\ part'[r].listed = Listing(attempt, r)
    BY <1>1, <1>2 DEF Packed
  <2>1. ~overlap /\ a = attempt
    BY <1>6
  <2>2. CASE r = s
    BY <1>3, <1>4, <2>1, <2>2
  <2>3. CASE r # s
    BY <1>3, <1>4, <1>7, <2>1, <2>3 DEF Packed
  <2>4. QED
    BY <2>2, <2>3
<1>14. 1 \in Shards /\ \A f \in 1 .. attempt : f \in Attempts /\ 1 .. Parts(f) \subseteq Shards
  <2> SUFFICES ASSUME NEW f \in 1 .. attempt PROVE f \in Attempts /\ 1 .. Parts(f) \subseteq Shards
    BY Devices DEF Shards
  <2>1. f \in Attempts /\ Parts(f) \in Nat /\ Parts(f) <= MaxShards
    BY Split DEF Types
  <2>2. QED
    BY <2>1, Devices DEF Shards
<1>15. Kept'
  <2> SUFFICES ASSUME ~nested, ~overlap', ~Direct(attempt), NEW r \in 1 .. Parts(attempt)
               PROVE  /\ worker'[attempt][r] \in {"manifest", "ok"} =>
                           \A t \in Chunk(attempt, r) : attempt \in {part'[r].stream[t], out.stream[t]}
                      /\ worker'[attempt][r] = "ok" => part'[r].manifest = "whole"
    BY <1>1, <1>2 DEF Kept
  <2>1. a = attempt /\ ~overlap /\ r \in Shards /\ s \in 1 .. Parts(attempt) /\ attempt > 0
    <3>1. attempt \in 1 .. attempt /\ attempt > 0
      BY <1>5, <1>7
    <3>2. Parts(attempt) \in Nat
      BY <3>1, Split DEF Types
    <3>3. QED
      BY <1>5, <1>6, <1>14, <3>1, <3>2, Devices DEF Shards
  <2>2. ~Emptied
    BY <1>5, <2>1 DEF Emptied
  <2>3. CASE r = s
    BY <1>3, <1>4, <2>1, <2>3
  <2>4. CASE r # s
    <3>1. worker'[attempt][r] = worker[attempt][r] /\ part'[r] = part[r]
      BY <1>3, <1>4, <1>7, <2>1, <2>4
    <3>2. QED
      BY <2>1, <2>2, <3>1 DEF Kept
  <2>5. QED
    BY <2>3, <2>4
<1>16. Earned' /\ InPlace' /\ Filled'
  <2>1. \A b \in Attempts, r \in Shards : worker[b][r] = "ok" => worker'[b][r] = "ok"
    BY <1>3, <1>5
  <2>2. finished \subseteq 1 .. attempt
    BY DEF Types
  <2>3. Earned'
    BY <1>1, <1>2, <1>14, <2>1, <2>2 DEF Earned
  <2>4. \A b \in Attempts : Direct(b) => worker'[b][1] = worker[b][1]
    BY <1>3, <1>14
  <2>5. InPlace'
    BY <1>1, <1>2, <1>6, <1>7, <2>4 DEF InPlace
  <2>6. ASSUME driver = "parallel", pc # "idle", ~Direct(attempt), NEW r \in Shards, worker'[attempt][r] = "ok"
        PROVE  part'[r].manifest # "none"
    <3>1. CASE r = s /\ a = attempt
      BY <1>3, <1>4, <1>7, <2>6, <3>1
    <3>2. CASE ~(r = s /\ a = attempt)
      <4>1. worker[attempt][r] = "ok"
        BY <1>3, <1>7, <2>6, <3>2
      <4>2. part[r].manifest # "none"
        BY <2>6, <4>1 DEF Filled
      <4>3. QED
        BY <1>4, <4>2
    <3>3. QED
      BY <3>1, <3>2
  <2>7. Filled'
    BY <1>1, <1>2, <2>4, <2>6 DEF Filled, fixed
  <2>8. QED
    BY <2>3, <2>5, <2>7
<1>17. Merging' /\ Published'
  <2>1. Merging'
    BY <1>1, <1>2, <1>6 DEF Merging
  <2>2. /\ \A b \in Attempts : worker[b][1] # "ok" /\ Direct(b) => worker'[b][1] # "ok"
        /\ \A b \in Attempts : worker[b][1] = "failed" => worker'[b][1] = "failed"
        /\ overlap => overlap'
    BY <1>3, <1>6, <1>14 DEF Running
  <2>3. Published'
    BY <1>1, <1>2, <2>2, OutFrame DEF fixed
  <2>4. QED
    BY <2>1, <2>3
<1>18. Guarded'
  BY <1>1, <1>2 DEF Guarded, OutIsClear, Contents, fixed
<1>19. QED
  BY <1>8, <1>9, <1>10, <1>11, <1>12, <1>13, <1>15, <1>16, <1>17, <1>18

\* What a pack may do to the output directory itself: it lists a tensor only
\* with the stream it has written, and takes no file away.
LEMMA DirectFrame ==
  ASSUME IInv, NEW a \in Attempts, Running(a, 1), Direct(a),
         NEW d \in Dir, d.there, out' = d, UNCHANGED part,
         NEW st \in {"manifest", "ok", "failed"}, worker' = [worker EXCEPT ![a][1] = st],
         Late(a), Elsewhere,
         \A t \in Tensors : d.stream[t] <= attempt,
         Contents(out) => Contents(d),
         out.manifest # "none" \/ st = "ok" => d.manifest # "none",
         d.passed \in {{}, out.passed}, st = "manifest" => d.manifest = out.manifest,
         \/ st = "ok"
         \/ d.manifest # "whole"
         \/ /\ out.manifest = "whole" /\ d.listed = out.listed
            /\ \A t \in Tensors : d.stream[t] \in {a, out.stream[t]},
         a = attempt /\ ~overlap =>
           /\ st # "failed" => d.passed = {} /\ \A t \in Tensors : d.stream[t] = a
           /\ st = "ok" => d.manifest = "whole" /\ \A t \in Tensors : d.listed[t] = a
  PROVE  IInv'
<1> USE DEF IInv
<1>1. UNCHANGED <<fixed, attempt, gpus, pc, at, part, nested, read, finished>>
  BY DEF Elsewhere
<1>2. /\ Tensors' = Tensors /\ Dir' = Dir /\ NoFiles' = NoFiles
      /\ \A b : Parts(b)' = Parts(b) /\ Direct(b)' = Direct(b)
      /\ \A b, r : Chunk(b, r)' = Chunk(b, r) /\ Passed(b, r)' = Passed(b, r) /\ Listing(b, r)' = Listing(b, r)
  BY <1>1, SplitFrame
<1>3. 1 \in Shards /\ driver = "parallel"
  BY Devices DEF Shards, Direct
<1>4. /\ worker' \in [Attempts -> [Shards -> {"none", "streams", "manifest", "ok", "failed"}]]
      /\ \A b \in Attempts, r \in Shards :
           worker'[b][r] = IF b = a /\ r = 1 THEN st ELSE worker[b][r]
  BY <1>3 DEF Types
<1>5. /\ a <= attempt /\ 1 <= Parts(a) /\ worker[a][1] \notin {"none", "ok", "failed"}
      /\ attempt \in Nat /\ a \in Nat /\ a # 0
  BY <1>3, MergeAssumption DEF Launched, Running, Types, Attempts
<1>6. overlap' \in BOOLEAN /\ (~overlap' => ~overlap /\ a = attempt)
  <2>1. overlap' = (overlap \/ a < attempt)
    BY DEF Late
  <2>2. overlap' \in BOOLEAN
    BY <2>1
  <2>3. a < attempt \/ a = attempt
    BY <1>5
  <2>4. QED
    BY <2>1, <2>2, <2>3
<1>7. attempt \in Attempts /\ attempt # 0
  BY <1>5, MergeAssumption DEF Types, Attempts
<1>8. \A f \in 1 .. attempt : f \in Attempts /\ 1 .. Parts(f) \subseteq Shards
  <2> SUFFICES ASSUME NEW f \in 1 .. attempt PROVE f \in Attempts /\ 1 .. Parts(f) \subseteq Shards
    OBVIOUS
  <2>1. f \in Attempts /\ Parts(f) \in Nat /\ Parts(f) <= MaxShards
    BY Split DEF Types
  <2>2. QED
    BY <2>1, Devices DEF Shards
<1>9. /\ \A b \in Attempts, r \in Shards : worker[b][r] = "ok" => worker'[b][r] = "ok"
      /\ \A b \in Attempts, r \in Shards : worker'[b][r] # "none" => worker[b][r] # "none"
  BY <1>4, <1>5
<1>10. Types'
  <2>1. nested' \in BOOLEAN
    BY <1>1, Zenon DEF Types
  <2>2. \A e \in {out'} \cup {part'[r] : r \in Shards} : Contents(e)' => e.there
    <3>1. \A r \in Shards : Contents(part[r])' => part[r].there
      BY <1>2 DEF Types, Contents
    <3>2. QED
      BY <1>1, <3>1
  <2>3. QED
    BY <1>1, <1>2, <1>4, <1>6, <2>1, <2>2 DEF Types, fixed
<1>11. Fixed'
  BY <1>1 DEF Fixed, fixed
<1>12. Launched'
  BY <1>1, <1>2, <1>9 DEF Launched
<1>13. Stamped'
  BY <1>1, <1>2 DEF Stamped
<1>14. Progress'
  <2>1. attempt \in 1 .. attempt
    BY <1>5, <1>7
  <2>2. pc \notin {"idle", "pack", "wait"} => \A r \in Sources : worker'[attempt][r] = "ok"
    BY <1>7, <1>8, <1>9, <2>1 DEF Progress, Sources
  <2>3. pc \in {"pack", "wait"} => at <= Parts(attempt) /\ \A r \in 1 .. at - 1 : worker'[attempt][r] = "ok"
    <3> SUFFICES ASSUME pc \in {"pack", "wait"}, NEW r \in 1 .. at - 1 PROVE worker'[attempt][r] = "ok"
      BY DEF Progress
    <3>1. r \in 1 .. Parts(attempt)
      BY Underway DEF Progress
    <3>2. QED
      BY <1>7, <1>8, <1>9, <2>1, <3>1 DEF Progress
  <2>4. pc = "pack" /\ Direct(attempt) => worker'[attempt][1] = "none"
    BY <1>3, <1>4, <1>5, <1>7 DEF Progress
  <2>5. Sources' = Sources
    BY <1>1, <1>2 DEF Sources
  <2>6. QED
    BY <1>1, <1>2, <2>2, <2>3, <2>4, <2>5 DEF Progress
<1>15. Earned'
  <2>1. finished \subseteq 1 .. attempt
    BY DEF Types
  <2>2. QED
    BY <1>1, <1>2, <1>8, <1>9, <2>1 DEF Earned
<1>16. ~overlap' => ~overlap /\ Direct(attempt) /\ pc \in {"idle", "pack", "wait"}
  BY <1>1, <1>6 DEF Progress
<1>17. Packed' /\ Kept' /\ Merging'
  <2>1. Packed' /\ Kept'
    BY <1>1, <1>2, <1>16 DEF Packed, Kept
  <2>2. Merging'
    BY <1>1, <1>16 DEF Merging
  <2>3. QED
    BY <2>1, <2>2
<1>18. InPlace'
  BY <1>1, <1>2, <1>3, <1>4, <1>6, <1>7 DEF InPlace
<1>19. Filled'
  BY <1>1, <1>2, <1>3, <1>4, <1>7 DEF Filled, fixed
<1>20. Published'
  <2>1. ASSUME ~overlap', out'.manifest = "whole"
        PROVE  /\ out'.passed = {}
               /\ \A t \in Tensors : out'.listed[t] # 0 /\ (out'.stream[t] = out'.listed[t] \/ Overwritten(t)')
    <3>1. ~overlap /\ a = attempt
      BY <1>6, <2>1
    <3>2. CASE st = "ok"
      BY <1>5, <3>1, <3>2
    <3>3. CASE st # "ok"
      <4>1. /\ out.manifest = "whole" /\ d.listed = out.listed
            /\ \A t \in Tensors : d.stream[t] \in {a, out.stream[t]}
        BY <2>1, <3>3
      <4>2. out.passed = {} /\ \A t \in Tensors : out.listed[t] # 0 /\ (out.stream[t] = out.listed[t] \/ Overwritten(t))
        BY <3>1, <4>1 DEF Published
      <4>3. ASSUME NEW t \in Tensors PROVE d.stream[t] = d.listed[t] \/ Overwritten(t)'
        <5>1. CASE d.stream[t] = a
          <6>1. worker'[a][1] # "ok" /\ Direct(a)'
            BY <1>2, <1>3, <1>4, <3>3
          <6>2. QED
            BY <1>5, <5>1, <6>1 DEF Overwritten
        <5>2. CASE d.stream[t] = out.stream[t]
          <6>1. \A b \in Attempts : worker[b][1] # "ok" => worker'[b][1] # "ok"
            BY <1>3, <1>4, <3>3
          <6>2. Overwritten(t) => Overwritten(t)'
            BY <1>2, <5>2, <6>1, StillOverwritten
          <6>3. QED
            BY <4>1, <4>2, <5>2, <6>2
        <5>3. QED
          BY <4>1, <5>1, <5>2
      <4>4. QED
        BY <4>1, <4>2, <4>3
    <3>4. QED
      BY <3>2, <3>3
  <2>2. SuccessIsReadable'
    <3> SUFFICES ASSUME finished # {}, ~overlap', out'.manifest # "whole", ~nested
                 PROVE  \E b \in Attempts : Direct(b) /\ worker'[b][1] = "failed" /\ \A f \in finished : f < b
      BY <1>1, <1>2 DEF SuccessIsReadable, Attempts
    <3>1. ~overlap /\ a = attempt /\ st # "ok"
      BY <1>6
    <3>2. ASSUME NEW f \in finished PROVE f < attempt
      <4>1. f \in 1 .. attempt /\ (f = a => worker[f][1] = "ok")
        BY <1>5, <3>1, Split DEF Types, Earned
      <4>2. QED
        BY <1>5, <3>1, <4>1
    <3>3. CASE st = "failed"
      BY <1>3, <1>4, <3>1, <3>2, <3>3
    <3>4. CASE st # "failed"
      <4>1. out.manifest # "whole"
        BY <3>1, <3>4
      <4>2. PICK b \in Attempts : Direct(b) /\ worker[b][1] = "failed" /\ \A f \in finished : f < b
        BY <3>1, <4>1 DEF Published, SuccessIsReadable
      <4>3. worker'[b][1] = "failed"
        BY <1>3, <1>4, <1>5, <4>2
      <4>4. QED
        BY <4>2, <4>3
    <3>5. QED
      BY <3>3, <3>4
  <2>3. QED
    BY <1>1, <1>2, <1>16, <2>1, <2>2 DEF Published
<1>21. Guarded'
  <2>1. finished # {} => ~OutIsClear'
    BY <1>1, <1>2 DEF Guarded, OutIsClear, Contents
  <2>2. QED
    BY <1>1, <1>2, <1>3, <2>1 DEF Guarded, fixed
<1>22. QED
  BY <1>10, <1>11, <1>12, <1>13, <1>14, <1>15, <1>17, <1>18, <1>19, <1>20, <1>21

\* The streams, written over those of the same names.
LEMMA StreamedIs ==
  ASSUME NEW d \in Dir, NEW a \in Attempts, NEW ts \in SUBSET Tensors
  PROVE  /\ Streamed(d, a, ts) \in Dir /\ Streamed(d, a, ts).there
         /\ Streamed(d, a, ts).manifest = d.manifest /\ Streamed(d, a, ts).listed = d.listed
         /\ Streamed(d, a, ts).passed = d.passed
         /\ \A t \in Tensors : Streamed(d, a, ts).stream[t] = IF t \in ts THEN a ELSE d.stream[t]
<1>1. a \in Stamps
  BY MergeAssumption DEF Attempts, Stamps
<1>2. [t \in Tensors |-> IF t \in ts THEN a ELSE d.stream[t]] \in [Tensors -> Stamps]
  BY <1>1 DEF Dir
<1>3. QED
  BY <1>2 DEF Streamed, Dir

\* A pack that runs is that of a part of an attempt that was begun; if it
\* packs in place, it is the only one.
LEMMA RunningIs ==
  ASSUME IInv, NEW a \in Attempts, NEW s \in Shards, Running(a, s)
  PROVE  /\ a \in 1 .. attempt /\ attempt \in Nat /\ a \in Nat /\ a # 0
         /\ s \in 1 .. Parts(a) /\ Chunk(a, s) \subseteq Tensors /\ Passed(a, s) \subseteq Tensors
         /\ Direct(a) => s = 1 /\ Chunk(a, s) = Tensors /\ Passed(a, s) = {}
<1> USE DEF IInv
<1>1. a \in 1 .. attempt /\ attempt \in Nat /\ a \in Nat /\ a # 0 /\ s <= Parts(a)
  BY MergeAssumption DEF Types, Launched, Attempts, Running
<1>2. Parts(a) \in Nat /\ Chunk(a, s) \subseteq Tensors /\ Passed(a, s) \subseteq Tensors
  BY <1>1, Split DEF Types
<1>3. s \in 1 .. Parts(a)
  BY <1>1, <1>2, Devices DEF Shards
<1>4. Direct(a) => Parts(a) = 1 /\ Chunk(a, 1) = Tensors /\ Passed(a, 1) = {}
  BY <1>1, DirectSplit DEF Types
<1>5. Direct(a) => s = 1
  BY <1>3, <1>4
<1>6. QED
  BY <1>1, <1>2, <1>3, <1>4, <1>5

\* The directory a pack writes to, before it does.
LEMMA TargetIs ==
  ASSUME IInv, NEW a \in Attempts, NEW s \in Shards
  PROVE  /\ Target(a, s) \in Dir
         /\ \A t \in Tensors : Target(a, s).stream[t] \in Nat /\ Target(a, s).stream[t] <= attempt
<1>1. out \in Dir /\ part[s] \in Dir
  BY DEF IInv, Types
<1>2. \A t \in Tensors : /\ out.stream[t] \in Nat /\ out.stream[t] <= attempt
                        /\ part[s].stream[t] \in Nat /\ part[s].stream[t] <= attempt
  BY <1>1, MergeAssumption DEF IInv, Dir, Stamps, Stamped
<1>3. QED
  BY <1>1, <1>2 DEF Target

\* Streams are not taken away, so a directory does not become empty.
LEMMA StaysFilled ==
  ASSUME NEW d \in Dir, NEW e \in Dir, Contents(d),
         \A t \in Tensors : d.stream[t] # 0 => e.stream[t] # 0,
         d.manifest # "none" => e.manifest # "none",
         e.passed = d.passed \/ (Tensors # {} /\ \A t \in Tensors : e.stream[t] # 0)
  PROVE  Contents(e)
<1>1. CASE d.stream # NoFiles
  <2>1. PICK t \in Tensors : d.stream[t] # 0
    BY <1>1, MergeAssumption DEF NoFiles, Dir
  <2>2. e.stream # NoFiles
    BY <2>1 DEF NoFiles
  <2>3. QED
    BY <2>2 DEF Contents
<1>2. CASE d.manifest # "none"
  BY <1>2 DEF Contents
<1>3. CASE d.passed # {} /\ e.passed = d.passed
  BY <1>3 DEF Contents
<1>4. CASE Tensors # {} /\ \A t \in Tensors : e.stream[t] # 0
  BY <1>4 DEF Contents, NoFiles
<1>5. QED
  BY <1>1, <1>2, <1>3, <1>4 DEF Contents

\* pack_checkpoint up to its manifest.
LEMMA WriteStreamsInv ==
  ASSUME IInv, NEW a \in Attempts, NEW s \in Shards, WriteStreams(a, s) PROVE IInv'
<1> DEFINE c == Chunk(a, s)
           o == Target(a, s)
           d == [Streamed(o, a, c) EXCEPT !.passed = Passed(a, s)]
<1>1. /\ worker[a][s] = "streams" /\ Puts(a, s, d)
      /\ worker' = [worker EXCEPT ![a][s] = "manifest"] /\ Late(a) /\ Elsewhere
  BY DEF WriteStreams, Becomes
<1>2. Running(a, s)
  BY <1>1 DEF Running
<1>3. /\ a \in 1 .. attempt /\ attempt \in Nat /\ a \in Nat /\ a # 0
      /\ c \subseteq Tensors /\ Passed(a, s) \subseteq Tensors
      /\ Direct(a) => s = 1 /\ c = Tensors /\ Passed(a, s) = {}
  BY <1>2, RunningIs
<1>4. o \in Dir /\ \A t \in Tensors : o.stream[t] \in Nat /\ o.stream[t] <= attempt
  BY TargetIs
<1> HIDE DEF o
<1>5. /\ d \in Dir /\ d.there /\ d.passed = Passed(a, s) /\ d.manifest = o.manifest /\ d.listed = o.listed
      /\ \A t \in Tensors : d.stream[t] = IF t \in c THEN a ELSE o.stream[t]
  <2> DEFINE e == Streamed(o, a, c)
  <2>1. /\ e \in Dir /\ e.there /\ e.manifest = o.manifest /\ e.listed = o.listed
        /\ \A t \in Tensors : e.stream[t] = IF t \in c THEN a ELSE o.stream[t]
    BY <1>3, <1>4, StreamedIs
  <2> HIDE DEF e
  <2>2. d = [e EXCEPT !.passed = Passed(a, s)]
    BY DEF e
  <2> HIDE DEF d
  <2>3. QED
    BY <1>3, <2>1, <2>2 DEF Dir
<1> HIDE DEF c, d
<1>6. \A t \in Tensors : d.stream[t] <= attempt /\ (o.stream[t] # 0 => d.stream[t] # 0)
  BY <1>3, <1>4, <1>5
<1>7. \A t \in Chunk(a, s) : d.stream[t] = a
  BY <1>3, <1>5 DEF c
<1>8. CASE ~Direct(a)
  <2>1. part' = [part EXCEPT ![s] = d] /\ UNCHANGED out /\ o = part[s]
    BY <1>1, <1>8 DEF Puts, Target, o
  <2>2. /\ \A t \in Tensors : d.stream[t] <= attempt
        /\ part[s].manifest # "none" => d.manifest # "none"
        /\ a = attempt => \A t \in Chunk(a, s) : attempt \in {d.stream[t], out.stream[t]}
    BY <1>5, <1>6, <1>7, <2>1
  <2>3. d \in Dir /\ d.there /\ d.passed = Passed(a, s)
    BY <1>5
  <2>4. QED
    BY <1>1, <1>2, <1>7, <1>8, <2>1, <2>2, <2>3, PackFrame
<1>9. CASE Direct(a)
  <2>1. out' = d /\ UNCHANGED part /\ o = out /\ s = 1
    BY <1>1, <1>3, <1>9 DEF Puts, Target, o
  <2>2. d.passed = {} /\ \A t \in Tensors : d.stream[t] = a
    BY <1>3, <1>5, <1>9
  <2>3. Tensors # {}
    BY MergeAssumption DEF IInv, Fixed, Tensors
  <2>4. Contents(out) => Contents(d)
    BY <1>3, <1>4, <1>5, <1>6, <2>1, <2>2, <2>3, StaysFilled
  <2>5. /\ d \in Dir /\ d.there /\ d.manifest = out.manifest /\ d.listed = out.listed
        /\ \A t \in Tensors : d.stream[t] <= attempt
    BY <1>5, <1>6, <2>1
  <2>6. Running(a, 1) /\ worker' = [worker EXCEPT ![a][1] = "manifest"] /\ Late(a) /\ Elsewhere
    BY <1>1, <1>2, <2>1
  <2>7. QED
    BY <1>9, <2>1, <2>2, <2>4, <2>5, <2>6, DirectFrame
<1>10. QED
  BY <1>8, <1>9

\* pack_checkpoint's manifest.
LEMMA WriteManifestInv ==
  ASSUME IInv, NEW a \in Attempts, NEW s \in Shards, WriteManifest(a, s) PROVE IInv'
<1> DEFINE o == Target(a, s)
           d == [o EXCEPT !.there = TRUE, !.manifest = "whole", !.listed = Listing(a, s)]
<1>1. /\ worker[a][s] = "manifest" /\ Puts(a, s, d)
      /\ worker' = [worker EXCEPT ![a][s] = "ok"] /\ Late(a) /\ Elsewhere
  BY DEF WriteManifest, Becomes
<1>2. Running(a, s)
  BY <1>1 DEF Running
<1>3. /\ a \in 1 .. attempt /\ attempt \in Nat /\ a # 0 /\ s \in 1 .. Parts(a)
      /\ Direct(a) => s = 1 /\ Chunk(a, s) = Tensors
  BY <1>2, RunningIs
<1>4. o \in Dir /\ \A t \in Tensors : o.stream[t] <= attempt
  BY TargetIs
<1> HIDE DEF o
<1>5. /\ d \in Dir /\ d.there /\ d.passed = o.passed /\ d.stream = o.stream
      /\ d.manifest = "whole" /\ d.listed = Listing(a, s)
  <2>1. Listing(a, s) \in [Tensors -> Stamps]
    BY MergeAssumption DEF Listing, Stamps, Attempts
  <2>2. QED
    BY <1>4, <2>1 DEF Dir
<1> HIDE DEF d
<1>6. CASE ~Direct(a)
  <2>1. part' = [part EXCEPT ![s] = d] /\ UNCHANGED out /\ o = part[s]
    BY <1>1, <1>6 DEF Puts, Target, o
  <2>2. a = attempt /\ ~nested /\ ~overlap => \A t \in Chunk(a, s) : attempt \in {d.stream[t], out.stream[t]}
    BY <1>1, <1>3, <1>5, <1>6, <2>1 DEF IInv, Kept
  <2>3. a = attempt /\ ~overlap /\ pc \notin {"idle", "flag", "reflag"} =>
          (\A t \in Chunk(a, s) : d.stream[t] = a) /\ d.passed = Passed(a, s)
    BY <1>1, <1>5, <1>6, <2>1 DEF IInv, Packed
  <2>4. QED
    BY <1>1, <1>2, <1>4, <1>5, <1>6, <2>1, <2>2, <2>3, PackFrame
<1>7. CASE Direct(a)
  <2>1. out' = d /\ UNCHANGED part /\ o = out /\ s = 1
    BY <1>1, <1>3, <1>7 DEF Puts, Target, o
  <2>2. a = attempt /\ ~overlap => d.passed = {} /\ \A t \in Tensors : d.stream[t] = a
    BY <1>1, <1>3, <1>5, <1>7, <2>1 DEF IInv, InPlace
  <2>3. \A t \in Tensors : d.listed[t] = a
    BY <1>3, <1>5, <1>7 DEF Listing
  <2>4. Contents(out) => Contents(d)
    BY <1>5 DEF Contents
  <2>5. QED
    BY <1>1, <1>2, <1>4, <1>5, <1>7, <2>1, <2>2, <2>3, <2>4, DirectFrame
<1>8. QED
  BY <1>6, <1>7

\* A pack that fails leaves some of its streams, or a torn manifest.
LEMMA WorkerFailsInv ==
  ASSUME IInv, NEW a \in Attempts, NEW s \in Shards, WorkerFails(a, s) PROVE IInv'
<1> DEFINE o == Target(a, s)
<1>1. Running(a, s) /\ worker' = [worker EXCEPT ![a][s] = "failed"] /\ Late(a) /\ Elsewhere
  BY DEF WorkerFails, Becomes
<1>2. /\ a \in 1 .. attempt /\ attempt \in Nat /\ a \in Nat /\ a # 0
      /\ Chunk(a, s) \subseteq Tensors /\ (Direct(a) => s = 1)
  BY <1>1, RunningIs
<1>3. o \in Dir /\ \A t \in Tensors : o.stream[t] \in Nat /\ o.stream[t] <= attempt
  BY TargetIs
<1>4. \E d \in Dir : /\ d.there /\ Puts(a, s, d) /\ d.passed = o.passed /\ d.listed = o.listed
                     /\ d.manifest = o.manifest \/ d.manifest = "torn"
                     /\ \A t \in Tensors : d.stream[t] \in {a, o.stream[t]}
  <2>1. CASE \E ts \in SUBSET Chunk(a, s) : Puts(a, s, Streamed(o, a, ts))
    <3>1. PICK ts \in SUBSET Chunk(a, s) : Puts(a, s, Streamed(o, a, ts))
      BY <2>1
    <3> HIDE DEF o
    <3> DEFINE d == Streamed(o, a, ts)
    <3>2. /\ d \in Dir /\ d.there /\ d.passed = o.passed /\ d.listed = o.listed /\ d.manifest = o.manifest
          /\ \A t \in Tensors : d.stream[t] = IF t \in ts THEN a ELSE o.stream[t]
      BY <1>2, <1>3, StreamedIs
    <3>3. Puts(a, s, d)
      BY <3>1
    <3> HIDE DEF d
    <3>4. QED
      BY <3>2, <3>3
  <2>2. CASE Puts(a, s, [o EXCEPT !.there = TRUE, !.manifest = "torn"])
    <3> HIDE DEF o
    <3> DEFINE d == [o EXCEPT !.there = TRUE, !.manifest = "torn"]
    <3>1. Puts(a, s, d)
      BY <2>2
    <3>2. /\ d \in Dir /\ d.there /\ d.stream = o.stream /\ d.passed = o.passed /\ d.listed = o.listed
          /\ d.manifest = "torn"
      BY <1>3 DEF Dir
    <3> HIDE DEF d
    <3>3. QED
      BY <3>1, <3>2
  <2>3. QED
    BY <2>1, <2>2 DEF WorkerFails
<1> HIDE DEF o
<1>5. PICK d \in Dir :
        /\ d.there /\ Puts(a, s, d) /\ d.passed = o.passed /\ d.listed = o.listed
        /\ d.manifest = o.manifest \/ d.manifest = "torn"
        /\ \A t \in Tensors : d.stream[t] \in {a, o.stream[t]}
  BY <1>4
<1>6. \A t \in Tensors : d.stream[t] <= attempt /\ (o.stream[t] # 0 => d.stream[t] # 0)
  BY <1>2, <1>3, <1>5
<1>7. CASE ~Direct(a)
  <2>1. part' = [part EXCEPT ![s] = d] /\ UNCHANGED out /\ o = part[s]
    BY <1>5, <1>7 DEF Puts, Target, o
  <2>2. /\ d \in Dir /\ d.there /\ \A t \in Tensors : d.stream[t] <= attempt
        /\ part[s].manifest # "none" => d.manifest # "none"
    BY <1>5, <1>6, <2>1
  <2>3. QED
    BY <1>1, <1>7, <2>1, <2>2, PackFrame
<1>8. CASE Direct(a)
  <2>1. out' = d /\ UNCHANGED part /\ o = out /\ s = 1
    BY <1>2, <1>5, <1>8 DEF Puts, Target, o
  <2>2. Contents(out) => Contents(d)
    BY <1>3, <1>5, <1>6, <2>1, StaysFilled
  <2>3. \/ d.manifest # "whole"
        \/ /\ out.manifest = "whole" /\ d.listed = out.listed
           /\ \A t \in Tensors : d.stream[t] \in {a, out.stream[t]}
    BY <1>5, <2>1
  <2>4. /\ d \in Dir /\ d.there /\ d.passed = out.passed
        /\ out.manifest # "none" => d.manifest # "none"
        /\ \A t \in Tensors : d.stream[t] <= attempt
    BY <1>5, <1>6, <2>1
  <2>5. Running(a, 1) /\ worker' = [worker EXCEPT ![a][1] = "failed"] /\ Late(a) /\ Elsewhere
    BY <1>1, <2>1
  <2>6. QED
    BY <1>8, <2>1, <2>2, <2>3, <2>4, <2>5, DirectFrame
<1>9. QED
  BY <1>7, <1>8
-----------------------------------------------------------------------------
(***************************************************************************)
(* The invariant of the drivers, and what it says of their artifacts.      *)
(***************************************************************************)
\* The disk before the first attempt.
LEMMA InitInv == ASSUME Init PROVE IInv
<1>1. /\ driver \in Drivers /\ n \in Sizes /\ width = 1 /\ attempt = 0 /\ gpus = [a \in Attempts |-> 0]
      /\ pc = "idle" /\ at = 0 /\ worker = [a \in Attempts |-> [s \in Shards |-> "none"]]
      /\ part = [s \in Shards |-> NoDir] /\ out \in {NoDir, Empty} /\ nested = FALSE
      /\ read = NothingRead /\ finished = {} /\ overlap = FALSE
  BY DEF Init
<1>2. /\ NoDir \in Dir /\ Empty \in Dir /\ ~Contents(NoDir) /\ ~Contents(Empty)
      /\ NoDir.stream = NoFiles /\ Empty.stream = NoFiles
      /\ NoDir.manifest = "none" /\ Empty.manifest = "none"
  <2>1. NoFiles \in [Tensors -> Stamps]
    BY MergeAssumption DEF NoFiles, Stamps
  <2>2. /\ NoDir \in Dir /\ NoDir.stream = NoFiles /\ NoDir.manifest = "none" /\ NoDir.passed = {}
    BY <2>1 DEF NoDir, Dir
  <2>3. /\ Empty \in Dir /\ Empty.stream = NoFiles /\ Empty.manifest = "none" /\ Empty.passed = {}
    BY <2>2 DEF Empty, Dir
  <2>4. QED
    BY <2>2, <2>3 DEF Contents
<1>3. NoFiles \in [Tensors -> Stamps] /\ \A t \in Tensors : NoFiles[t] = 0
  BY MergeAssumption DEF NoFiles, Stamps
<1>4. Types
  <2>1. \A d \in {out} \cup {part[s] : s \in Shards} : Contents(d) => d.there
    BY <1>1, <1>2
  <2>2. read \in [Shards -> [Tensors -> Stamps]]
    BY <1>1, <1>3 DEF NothingRead
  <2>3. worker \in [Attempts -> [Shards -> {"none", "streams", "manifest", "ok", "failed"}]]
    BY <1>1
  <2>4. nested \in BOOLEAN /\ overlap \in BOOLEAN
    BY <1>1
  <2>5. attempt \in 0 .. MaxAttempts /\ gpus \in [Attempts -> Gpus \cup {0}] /\ finished \subseteq 1 .. attempt
        /\ width \in Widths \cup {1}
    BY <1>1, MergeAssumption
  <2>6. part \in [Shards -> Dir] /\ out \in Dir
    BY <1>1, <1>2
  <2>7. pc \in {"idle", "pack", "wait", "merge", "copy", "commit", "publish", "clean", "flag", "reflag"}
    BY <1>1
  <2>8. QED
    BY <1>1, <2>1, <2>2, <2>3, <2>4, <2>5, <2>6, <2>7 DEF Types
<1>5. Fixed /\ Launched
  BY <1>1 DEF Fixed, Launched
<1>6. Stamped
  BY <1>1, <1>2, <1>3 DEF Stamped
<1>7. Progress /\ Earned /\ Packed /\ InPlace /\ Merging /\ Kept
  BY <1>1 DEF Progress, Earned, Packed, InPlace, Merging, Kept
<1>8. Published /\ Guarded /\ Filled
  <2>1. \A a \in Attempts : worker[a][1] # "ok"
    BY <1>1, Devices DEF Shards
  <2>2. Published
    BY <1>1, <1>2 DEF Published, SuccessIsReadable
  <2>3. Guarded
    BY <1>1, <1>2 DEF Guarded
  <2>4. Filled
    BY <1>1, <2>1 DEF Filled
  <2>5. QED
    BY <2>2, <2>3, <2>4
<1>9. QED
  BY <1>4, <1>5, <1>6, <1>7, <1>8 DEF IInv

\* The driver's death: the packs that die with it are those of its attempt.
LEMMA CrashInv == ASSUME IInv, Crash PROVE IInv'
<1> USE DEF IInv
<1>1. pc # "idle" /\ EndAttempt /\ UNCHANGED <<fixed, attempt, gpus, part, dest, overlap>>
  BY DEF Crash
<1>2. /\ worker' \in [Attempts -> [Shards -> {"none", "streams", "manifest", "ok", "failed"}]]
      /\ \A a \in Attempts, s \in Shards :
           worker'[a][s] = worker[a][s] \/ (worker'[a][s] = "failed" /\ Running(a, s))
  <2>1. CASE UNCHANGED worker
    BY <2>1 DEF Types
  <2>2. CASE worker' = [worker EXCEPT ![attempt] =
                          [s \in Shards |-> IF Running(attempt, s) THEN "failed" ELSE worker[attempt][s]]]
    <3>1. attempt \in Attempts
      BY <1>1, Underway
    <3>2. \A a \in Attempts, s \in Shards :
            worker'[a][s] = IF a = attempt /\ Running(attempt, s) THEN "failed" ELSE worker[a][s]
      BY <2>2, <3>1 DEF Types
    <3>3. worker' \in [Attempts -> [Shards -> {"none", "streams", "manifest", "ok", "failed"}]]
      BY <2>2, <3>1 DEF Types
    <3>4. QED
      BY <3>2, <3>3
  <2>3. QED
    BY <2>1, <2>2 DEF Crash
<1>3. QED
  BY <1>1, <1>2, EndInv

\* A step that leaves the variables alone.
LEMMA StutterInv == ASSUME IInv, UNCHANGED vars PROVE IInv'
<1> USE DEF IInv
<1>1. UNCHANGED <<fixed, driver, n, width, attempt, gpus, pc, at, worker, part, out, nested, read, finished, overlap>>
  BY DEF vars, fixed, work, dest
<1>2. /\ Tensors' = Tensors /\ Dir' = Dir /\ NoFiles' = NoFiles
      /\ \A a : Parts(a)' = Parts(a) /\ Direct(a)' = Direct(a)
      /\ \A a, s : Chunk(a, s)' = Chunk(a, s) /\ Passed(a, s)' = Passed(a, s) /\ Listing(a, s)' = Listing(a, s)
  BY <1>1, SplitFrame
<1>3. Types'
  <2>1. nested' \in BOOLEAN /\ overlap' \in BOOLEAN
    BY <1>1, Zenon DEF Types
  <2>2. \A d \in {out'} \cup {part'[s] : s \in Shards} : Contents(d)' => d.there
    BY <1>1, <1>2 DEF Types, Contents
  <2>3. QED
    BY <1>1, <1>2, <2>1, <2>2 DEF Types
<1>4. Fixed' /\ Launched' /\ Stamped' /\ Progress' /\ Earned'
  BY <1>1, <1>2 DEF Fixed, Launched, Stamped, Progress, Earned, Sources
<1>5. Packed' /\ InPlace' /\ Filled'
  BY <1>1, <1>2 DEF Packed, InPlace, Filled
<1>6. Merging'
  BY <1>1, <1>2 DEF Merging
<1>7. Published'
  BY <1>1, <1>2, OutFrame
<1>8. Guarded'
  BY <1>1, <1>2 DEF Guarded, OutIsClear, Contents
<1>9. Kept'
  <2>1. Emptied' = Emptied
    BY <1>1, <1>2 DEF Emptied
  <2>2. QED
    BY <1>1, <1>2, <2>1 DEF Kept
<1>10. QED
  BY <1>3, <1>4, <1>5, <1>6, <1>7, <1>8, <1>9

\* Every step of a driver and of a pack keeps the invariant.
LEMMA NextInv == ASSUME IInv, [Next]_vars PROVE IInv'
<1>1. CASE Begin
  BY <1>1, BeginInv
<1>2. CASE Driver
  BY <1>2, LaunchInv, WaitInv, MoveInv, MergeStartInv, CopyInv, ListInv, TruncateInv, PublishInv,
     CleanInv, ReflagInv DEF Driver
<1>3. CASE Crash
  BY <1>3, CrashInv
<1>4. CASE Workers
  BY <1>4, WriteStreamsInv, WriteManifestInv, WorkerFailsInv DEF Workers, Worker
<1>5. CASE UNCHANGED vars
  BY <1>5, StutterInv
<1>6. QED
  BY <1>1, <1>2, <1>3, <1>4, <1>5 DEF Next

\* What the drivers, their packs, the merge and the crashes keep together.
THEOREM MergeInvariant == Spec => []IInv
<1>1. Init => IInv
  BY InitInv
<1>2. IInv /\ [Next]_vars => IInv'
  BY NextInv
<1>3. QED
  BY <1>1, <1>2, PTL DEF Spec

\* Every directory with files exists, the driver's index is that of a part, and
\* only packs of begun attempts were ever started: none has more parts than
\* there are devices.
THEOREM TypeCorrect == Spec => []TypeOK
<1>1. IInv => TypeOK
  BY DEF IInv, TypeOK
<1>2. QED
  BY <1>1, MergeInvariant, PTL

\* Whatever streams an earlier attempt left in a part, the manifest that a merge
\* or a move publishes describes the bytes beside it, until the checkpoint is
\* packed again in place.
THEOREM ManifestMatches == Spec => []PublishedMatches
<1>1. IInv => PublishedMatches
  BY DEF IInv, Published, PublishedMatches
<1>2. QED
  BY <1>1, MergeInvariant, PTL

\* However the drivers split the checkpoint, what they publish has each tensor
\* once, and none is both quantized and passed through.
THEOREM ManifestCovers == Spec => []PublishedCovers
<1>1. ASSUME IInv PROVE PublishedCovers
  <2> SUFFICES ASSUME out.manifest = "whole", ~overlap
               PROVE  out.passed = {t \in Tensors : out.listed[t] = 0}
    BY DEF PublishedCovers
  <2>1. out.passed = {} /\ \A t \in Tensors : out.listed[t] # 0
    BY <1>1 DEF IInv, Published
  <2>2. QED
    BY <2>1
<1>2. QED
  BY <1>1, MergeInvariant, PTL

\* A driver that reports success leaves a whole manifest, or has moved its one
\* part into a directory that was there; only a later pack in place that fails
\* takes the manifest away.
THEOREM SuccessReadable == Spec => []SuccessIsReadable
<1>1. IInv => SuccessIsReadable
  BY DEF IInv, Published
<1>2. QED
  BY <1>1, MergeInvariant, PTL

\* When the last part of an attempt is packed, its streams and the manifests
\* that list them stay on disk through every failure of the merge and every
\* crash of the driver, up to the next attempt.
THEOREM NothingPackedIsLost == Spec => []PackedSurvives
<1>1. ASSUME IInv PROVE PackedSurvives
  <2> USE <1>1 DEF IInv
  <2> SUFFICES ASSUME attempt > 0, \A s \in 1 .. Parts(attempt) : worker[attempt][s] = "ok",
                      ~nested, ~overlap
               PROVE  /\ \A t \in Tensors :
                           \E d \in {out} \cup {part[s] : s \in Shards} : d.stream[t] = attempt
                      /\ \/ out.manifest = "whole"
                         \/ \A s \in 1 .. Parts(attempt) : part[s].manifest = "whole"
                         \/ driver = "sequential" /\ out.listed # NoFiles
    BY DEF PackedSurvives
  <2>1. attempt \in 1 .. attempt /\ attempt \in 0 .. MaxAttempts
    BY MergeAssumption DEF Types
  <2>2. /\ Parts(attempt) \in Nat /\ Parts(attempt) <= MaxShards
        /\ \A t \in Tensors : \E s \in 1 .. Parts(attempt) : t \in Chunk(attempt, s)
    BY <2>1, Split
  <2>3. CASE Direct(attempt)
    <3>1. worker[attempt][1] = "ok"
      BY <2>1, <2>3, DirectSplit
    <3>2. out.manifest = "whole" /\ \A t \in Tensors : out.stream[t] = attempt
      BY <2>3, <3>1 DEF InPlace
    <3>3. QED
      BY <3>2
  <2>4. CASE ~Direct(attempt)
    <3>1. ASSUME NEW t \in Tensors
          PROVE  \E d \in {out} \cup {part[s] : s \in Shards} : d.stream[t] = attempt
      <4>1. PICK s \in 1 .. Parts(attempt) : t \in Chunk(attempt, s)
        BY <2>2
      <4>2. s \in Shards
        BY <2>2, Devices DEF Shards
      <4>3. attempt \in {part[s].stream[t], out.stream[t]}
        BY <2>4, <4>1 DEF Kept
      <4>4. QED
        BY <4>2, <4>3
    <3>2. (\A s \in 1 .. Parts(attempt) : part[s].manifest = "whole") \/ Emptied
      BY <2>4 DEF Kept
    <3>3. QED
      BY <3>1, <3>2 DEF Emptied
  <2>5. QED
    BY <2>3, <2>4
<1>2. QED
  BY <1>1, MergeInvariant, PTL

\* What one step may do to the output directory of a driver that reported success.
FinishedStep ==
  finished # {} =>
    IF driver = "parallel"
      THEN out' = out \/ \E a \in Attempts : Direct(a) /\ worker'[a][1] # worker[a][1]
      ELSE UNCHANGED dest

\* A merge starts only in an empty output directory, and a part is packed in its
\* own, so what was published changes under the hands of a pack in place alone.
LEMMA NextFinal == ASSUME IInv, [Next]_vars PROVE FinishedStep
<1> USE DEF IInv
<1> SUFFICES ASSUME finished # {}
             PROVE  IF driver = "parallel"
                      THEN out' = out \/ \E a \in Attempts : Direct(a) /\ worker'[a][1] # worker[a][1]
                      ELSE UNCHANGED dest
  BY DEF FinishedStep
<1>1. out.there /\ ~OutIsClear /\ pc \in {"idle", "pack", "wait", "merge"}
      /\ (driver # "parallel" => pc = "idle")
  BY DEF Guarded, OutIsClear
<1>2. CASE Move
  BY <1>1, <1>2 DEF Move, Raise, dest
<1>3. CASE MergeStart
  BY <1>1, <1>3 DEF MergeStart, Raise, dest
<1>4. CASE Copy \/ List \/ Truncate \/ Publish \/ Clean \/ Reflag
  BY <1>1, <1>4 DEF Copy, List, Truncate, Publish, Clean, Reflag
<1>5. CASE Begin \/ Launch \/ Wait \/ Crash
  BY <1>5 DEF Begin, Launch, Wait, Crash, dest
<1>6. CASE Workers
  <2>1. PICK a \in Attempts, s \in Shards : Worker(a, s)
    BY <1>6 DEF Workers
  <2>2. Running(a, s) /\ UNCHANGED nested
    BY <2>1 DEF Worker, WriteStreams, WriteManifest, WorkerFails, Running, Elsewhere
  <2>3. CASE ~Direct(a)
    BY <2>1, <2>2, <2>3 DEF Worker, WriteStreams, WriteManifest, WorkerFails, Puts, dest
  <2>4. CASE Direct(a)
    <3>1. s = 1 /\ driver = "parallel"
      BY <2>2, <2>4, RunningIs DEF Direct
    <3>2. \E state \in {"manifest", "ok", "failed"} : state # worker[a][s] /\ Becomes(a, s, state)
      BY <2>1, <2>2 DEF Worker, WriteStreams, WriteManifest, WorkerFails, Running
    <3>3. worker'[a][s] # worker[a][s]
      BY <3>2 DEF Becomes, Types
    <3>4. QED
      BY <2>4, <3>1, <3>3
  <2>5. QED
    BY <2>3, <2>4
<1>7. CASE UNCHANGED vars
  BY <1>7 DEF vars, dest
<1>8. QED
  BY <1>2, <1>3, <1>4, <1>5, <1>6, <1>7 DEF Next, Driver

\* After a reported success sequential and kaggle never touch the output
\* directory again, and orka_parallel writes its files only by packing the
\* checkpoint in place: no worker that outlived its driver and no merge does.
THEOREM FinishedStays == Spec => FinishedIsFinal
<1>1. IInv /\ [Next]_vars => [FinishedStep]_vars
  BY NextFinal
<1>2. Spec => [][FinishedStep]_vars
  BY <1>1, MergeInvariant, PTL DEF Spec
<1>3. QED
  BY <1>2 DEF FinishedIsFinal, FinishedStep
=============================================================================
