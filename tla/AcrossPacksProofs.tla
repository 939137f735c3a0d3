------------------------- MODULE AcrossPacksProofs -------------------------
(***************************************************************************)
(* What outlives one pack: the files that several processes publish, for   *)
(* every set of processes, whichever of them die; the writer and the       *)
(* memory monitor of a process, for every set of packs, every choice of    *)
(* the capped ones and every number of writes; the loop that packs until   *)
(* a model is accepted, for every limit of steps and spending.             *)
(***************************************************************************)
EXTENDS SharedFiles, PackSession, AutoQuant, FiniteSets, SequenceTheorems,
        FiniteSetTheorems, FunctionTheorems, WellFoundedInduction, TLAPS

(* The files published by renaming. *)
Contents == [Regions -> {"none", "blank", "good"}]

\* The k-th write of p is still to come, and it is the one that fills r.
Pending(p, r) ==
  HasOpen(p) /\ \E k \in written[p] + 1 .. Len(Writes) : r \in Writes[k].at

\* Every region of a file is as it should be, or a saver that has the file
\* open has yet to fill it.
Sound(i) ==
  \A r \in Regions :
    inode[i][r] = Whole[r] \/ \E q \in Savers : handle[q] = i /\ Pending(q, r)

\* The names of a directory: the temporary name is never that of a published
\* file, and a process that saved, was refused or hit left one published.
NamesInv ==
  /\ tmpName # 0 => tmpName # target
  /\ \A p \in Savers :
       /\ saver[p] \in {"look", "open"} => written[p] = 0
       /\ saver[p] = "write" => handle[p] # 0 /\ (tmpName # 0 \/ target # 0)
       /\ saver[p] \in {"saved", "failed", "hit"} => target # 0

\* Before two savers meet: the one that writes has the temporary name for
\* itself, nobody finds its file gone, and the published file is whole.
AloneInv ==
  ~shared =>
    /\ target # 0 => inode[target] = Whole
    /\ \A p \in Savers :
         /\ saver[p] # "failed"
         /\ HasOpen(p) =>
              /\ handle[p] = tmpName /\ \A q \in Savers : HasOpen(q) => q = p
              /\ \A r \in Regions : inode[tmpName][r] = Whole[r] \/ Pending(p, r)

\* As long as no saver died: the published file, and the temporary one once a
\* saver has opened it, will be whole when the savers are done.
TogetherInv ==
  (\A p \in Savers : saver[p] # "dead") =>
    /\ target # 0 => Sound(target)
    /\ tmpName # 0 /\ (\E p \in Savers : saver[p] \in {"write", "saved", "failed"}) => Sound(tmpName)

PublishInv == FilesTypeOK /\ NamesInv /\ AloneInv /\ TogetherInv
-----------------------------------------------------------------------------
(***************************************************************************)
(* What the writes of one save do to a file.                               *)
(***************************************************************************)
\* np.save and pack_container: a write fills only regions of the finished
\* file, a placeholder is filled by a later write, and no region is left out.
LEMMA WritesFill ==
  ASSUME kind \in {"cache", "container"}
  PROVE  /\ Len(Writes) \in {3, 4}
         /\ \A k \in 1 .. Len(Writes), r \in Regions :
              /\ r \in Writes[k].at => Whole[r] = "good"
              /\ r \in Writes[k].blank => \E j \in k + 1 .. Len(Writes) : r \in Writes[j].at
         /\ \A r \in Regions :
              Whole[r] = "none" \/ \E k \in 1 .. Len(Writes) : r \in Writes[k].at
<1> USE DEF Regions, Whole
<1>1. CASE kind = "cache"
  <2> DEFINE ws == <<[at |-> {"header"}, blank |-> {}], [at |-> {"body"}, blank |-> {}],
                     [at |-> {"tail"}, blank |-> {}]>>
  <2>1. Writes = ws
    BY <1>1 DEF Writes
  <2>2. /\ Len(ws) = 3 /\ ws[1].at = {"header"} /\ ws[2].at = {"body"} /\ ws[3].at = {"tail"}
        /\ ws[1].blank = {} /\ ws[2].blank = {} /\ ws[3].blank = {}
    OBVIOUS
  <2> HIDE DEF ws
  <2>3. \A k \in 1 .. 3 : k = 1 \/ k = 2 \/ k = 3
    OBVIOUS
  <2>4. QED
    BY <1>1, <2>1, <2>2, <2>3
<1>2. CASE kind = "container"
  <2> DEFINE ws == <<[at |-> {"header"}, blank |-> {"digest"}], [at |-> {"body"}, blank |-> {}],
                     [at |-> {"tail"}, blank |-> {}], [at |-> {"digest"}, blank |-> {}]>>
  <2>1. Writes = ws
    BY <1>2 DEF Writes
  <2>2. /\ Len(ws) = 4 /\ ws[1].at = {"header"} /\ ws[2].at = {"body"} /\ ws[3].at = {"tail"}
        /\ ws[4].at = {"digest"}
        /\ ws[1].blank = {"digest"} /\ ws[2].blank = {} /\ ws[3].blank = {} /\ ws[4].blank = {}
    OBVIOUS
  <2> HIDE DEF ws
  <2>3. \A k \in 1 .. 4 : k = 1 \/ k = 2 \/ k = 3 \/ k = 4
    OBVIOUS
  <2>4. 4 \in 1 + 1 .. 4
    OBVIOUS
  <2>5. QED
    BY <1>2, <2>1, <2>2, <2>3, <2>4
<1>3. QED
  BY <1>1, <1>2

\* One write: what it puts at each region of the file it has open.
LEMMA AfterWrite ==
  ASSUME NEW f \in Contents, NEW w
  PROVE  /\ After(f, w) \in Contents
         /\ \A r \in Regions :
              After(f, w)[r] = IF r \in w.blank THEN "blank" ELSE IF r \in w.at THEN "good" ELSE f[r]
BY DEF After, Rewritten, Contents

\* A saver's next write: afterwards each region of its file is finished, is
\* still to be filled by it, or was not its business.
LEMMA WriteProgress ==
  ASSUME FilesTypeOK, NEW p \in Savers, handle[p] # 0, WriteNext(p)
  PROVE  /\ inode' \in [Inodes -> Contents] /\ written' \in [Savers -> 0 .. Len(Writes)]
         /\ \A i \in Inodes : i # handle[p] => inode'[i] = inode[i]
         /\ \A q \in Savers, r \in Regions : q # p => (Pending(q, r)' <=> Pending(q, r))
         /\ \A r \in Regions :
              \/ inode'[handle[p]][r] = Whole[r]
              \/ Pending(p, r)'
              \/ inode'[handle[p]][r] = inode[handle[p]][r] /\ (Pending(p, r) => Pending(p, r)')
<1> DEFINE h == handle[p]
           k == written[p] + 1
<1>1. /\ Writes' = Writes /\ UNCHANGED <<saver, handle>> /\ HasOpen(p) /\ HasOpen(p)'
      /\ kind \in {"cache", "container"}
  BY DEF WriteNext, Writes, FilesTypeOK, HasOpen
<1>2. /\ Len(Writes) \in Nat /\ h \in Inodes /\ inode \in [Inodes -> Contents]
      /\ written \in [Savers -> 0 .. Len(Writes)]
  BY <1>1, WritesFill DEF FilesTypeOK, Contents
<1>3. /\ k \in 1 .. Len(Writes)
      /\ written' \in [Savers -> 0 .. Len(Writes)]
      /\ \A q \in Savers : written'[q] = IF q = p THEN k ELSE written[q]
  BY <1>2 DEF WriteNext
<1>4. inode' = [inode EXCEPT ![h] = After(inode[h], Writes[k])]
  BY DEF WriteNext
<1>5. inode[h] \in Contents
  BY <1>2
<1> HIDE DEF h, k
<1>6. /\ inode' \in [Inodes -> Contents]
      /\ \A i \in Inodes : i # h => inode'[i] = inode[i]
      /\ \A r \in Regions :
           inode'[h][r] = IF r \in Writes[k].blank THEN "blank"
                          ELSE IF r \in Writes[k].at THEN "good" ELSE inode[h][r]
  <2>1. /\ After(inode[h], Writes[k]) \in Contents
        /\ \A r \in Regions :
             After(inode[h], Writes[k])[r] = IF r \in Writes[k].blank THEN "blank"
                                             ELSE IF r \in Writes[k].at THEN "good" ELSE inode[h][r]
    BY <1>5, AfterWrite
  <2>2. /\ inode' \in [Inodes -> Contents]
        /\ \A i \in Inodes : inode'[i] = IF i = h THEN After(inode[h], Writes[k]) ELSE inode[i]
    BY <1>2, <1>4, <2>1
  <2>3. QED
    BY <1>2, <2>1, <2>2
<1>7. \A q \in Savers, r \in Regions : q # p => (Pending(q, r)' <=> Pending(q, r))
  BY <1>1, <1>3 DEF Pending, HasOpen
<1>8. \A r \in Regions :
        \/ inode'[h][r] = Whole[r]
        \/ Pending(p, r)'
        \/ inode'[h][r] = inode[h][r] /\ (Pending(p, r) => Pending(p, r)')
  <2> SUFFICES ASSUME NEW r \in Regions
               PROVE  \/ inode'[h][r] = Whole[r]
                      \/ Pending(p, r)'
                      \/ inode'[h][r] = inode[h][r] /\ (Pending(p, r) => Pending(p, r)')
    OBVIOUS
  <2>1. CASE r \in Writes[k].blank
    <3>1. PICK j \in k + 1 .. Len(Writes) : r \in Writes[j].at
      BY <1>1, <1>3, <2>1, WritesFill
    <3>2. Pending(p, r)'
      BY <1>1, <1>3, <3>1 DEF Pending
    <3>3. QED
      BY <3>2
  <2>2. CASE r \notin Writes[k].blank /\ r \in Writes[k].at
    <3>1. inode'[h][r] = "good"
      BY <1>6, <2>2
    <3>2. QED
      BY <1>1, <1>3, <2>2, <3>1, WritesFill
  <2>3. CASE r \notin Writes[k].blank /\ r \notin Writes[k].at
    <3>1. inode'[h][r] = inode[h][r]
      BY <1>6, <2>3
    <3>2. ASSUME Pending(p, r) PROVE Pending(p, r)'
      <4>1. PICK j \in written[p] + 1 .. Len(Writes) : r \in Writes[j].at
        BY <3>2 DEF Pending
      <4>2. j \in written'[p] + 1 .. Len(Writes)
        BY <1>2, <1>3, <2>3, <4>1 DEF k
      <4>3. QED
        BY <1>1, <4>1, <4>2 DEF Pending
    <3>3. QED
      BY <3>1, <3>2
  <2>4. QED
    BY <2>1, <2>2, <2>3
<1>9. QED
  BY <1>3, <1>6, <1>7, <1>8 DEF h
-----------------------------------------------------------------------------
(***************************************************************************)
(* The directory: a name for the temporary file, and an inode for it.      *)
(***************************************************************************)
\* A nonempty set of natural numbers has a least one.
LEMMA LeastNat == ASSUME NEW S \in SUBSET Nat, S # {} PROVE Min(S) \in S
<1>1. \E x \in S : \A y \in S : ~(<<y, x>> \in OpToRel(<, Nat))
  BY NatLessThanWellFounded, WFMin
<1>2. PICK x \in S : \A y \in S : ~(<<y, x>> \in OpToRel(<, Nat))
  BY <1>1
<1>3. \A y \in S : x <= y
  <2> SUFFICES ASSUME NEW y \in S, y < x PROVE FALSE
    OBVIOUS
  <2>1. <<y, x>> \in OpToRel(<, Nat)
    BY DEF OpToRel
  <2>2. QED
    BY <1>2, <2>1
<1>4. QED
  BY <1>3 DEF Min

\* open(tmp, "wb"): there is an inode that no name and no handle refers to.
LEMMA FreeInode ==
  ASSUME FilesTypeOK, tmpName = 0, NEW p \in Savers, saver[p] = "open"
  PROVE  Free \in Inodes \ {target}
<1> DEFINE Open == {q \in Savers : HasOpen(q)}
           Held == {handle[q] : q \in Open}
           held == [q \in Open |-> handle[q]]
           Taken == {tmpName, target} \cup Held
<1> USE SaversAssumption
<1>1. /\ IsFiniteSet(Open) /\ Cardinality(Open) \in Nat /\ Cardinality(Savers) \in Nat
      /\ Cardinality(Open) < Cardinality(Savers)
  <2>1. Open \subseteq Savers /\ p \notin Open
    BY DEF HasOpen
  <2>2. QED
    BY <2>1, FS_Subset, FS_CardinalityType
<1>2. IsFiniteSet(Held) /\ Cardinality(Held) <= Cardinality(Open)
  <2>1. held \in [Open -> Held]
    OBVIOUS
  <2>2. \A i \in Held : \E q \in Open : held[q] = i
    OBVIOUS
  <2> HIDE DEF held, Open, Held
  <2>3. held \in Surjection(Open, Held)
    BY <2>1, <2>2, Fun_IsSurj
  <2>4. QED
    BY <1>1, <2>3, FS_Surjection
<1>3. Taken = Held \cup {0, target}
  OBVIOUS
<1>4. Free = Min(Inodes \ Taken)
  BY DEF Free
<1> HIDE DEF held, Open, Held, Taken
<1>5. Inodes \ Taken # {}
  <2>1. /\ IsFiniteSet(Held \cup {target})
        /\ Cardinality(Held \cup {target}) <= Cardinality(Held) + 1
    <3>1. Cardinality(Held) \in Nat
      BY <1>2, FS_CardinalityType
    <3>2. /\ IsFiniteSet(Held \cup {target})
          /\ Cardinality(Held \cup {target})
               = IF target \in Held THEN Cardinality(Held) ELSE Cardinality(Held) + 1
      BY <1>2, FS_AddElement
    <3>3. QED
      BY <3>1, <3>2
  <2>2. Cardinality(Inodes) = Cardinality(Savers) + 2
    <3>1. 1 \in Int /\ Cardinality(Savers) + 2 \in Int /\ ~(1 > Cardinality(Savers) + 2)
      BY <1>1
    <3>2. Cardinality(1 .. Cardinality(Savers) + 2) = (Cardinality(Savers) + 2) - 1 + 1
      BY <3>1, FS_Interval
    <3>3. QED
      BY <1>1, <3>2 DEF Inodes
  <2>3. SUFFICES ASSUME Inodes \ Taken = {} PROVE FALSE
    OBVIOUS
  <2>4. Inodes \subseteq Held \cup {target}
    BY <1>1, <1>3, <2>3 DEF Inodes
  <2>5. Cardinality(Inodes) <= Cardinality(Held \cup {target})
    BY <2>1, <2>4, FS_Subset
  <2>6. Cardinality(Held \cup {target}) \in Nat /\ Cardinality(Held) \in Nat
    BY <1>2, <2>1, FS_CardinalityType
  <2>7. QED
    BY <1>1, <1>2, <2>1, <2>2, <2>5, <2>6
<1>6. Inodes \ Taken \in SUBSET Nat
  BY <1>1 DEF Inodes
<1>7. QED
  BY <1>3, <1>4, <1>5, <1>6, LeastNat

-----------------------------------------------------------------------------
(***************************************************************************)
(* The invariant holds at the start and in every step.                     *)
(***************************************************************************)
\* An earlier save may be published, and a dead one's temporary file left.
LEMMA FilesInitInv == FilesInit => PublishInv
<1> SUFFICES ASSUME FilesInit PROVE PublishInv
  OBVIOUS
<1>0. /\ kind \in {"cache", "container"} /\ target \in {0, 1} /\ tmpName \in {0, 2}
      /\ saver = [p \in Savers |-> "look"] /\ handle = [p \in Savers |-> 0]
      /\ written = [p \in Savers |-> 0] /\ shared = FALSE
  BY DEF FilesInit
<1>1. PICK f \in Leftovers :
        inode = [i \in Inodes |-> IF i = target THEN Whole ELSE IF i = tmpName THEN f ELSE Nothing]
  BY DEF FilesInit
<1>2. Cardinality(Savers) \in Nat
  BY SaversAssumption, FS_CardinalityType
<1>3. 1 \in Inodes /\ 2 \in Inodes
  BY <1>2 DEF Inodes
<1>4. f \in Contents /\ Whole \in Contents /\ Nothing \in Contents
  BY DEF Leftovers, Contents, Whole, Nothing
<1>5. inode \in [Inodes -> Contents]
  BY <1>1, <1>4
<1>6. target # 0 => inode[target] = Whole
  BY <1>0, <1>1, <1>3
<1>7. FilesTypeOK
  <2>1. 0 \in 0 .. Len(Writes)
    BY <1>0, WritesFill
  <2>2. QED
    BY <1>0, <1>3, <1>5, <2>1 DEF FilesTypeOK, Contents
<1>8. NamesInv
  BY <1>0 DEF NamesInv
<1>9. AloneInv
  BY <1>0, <1>6 DEF AloneInv, HasOpen
<1>10. TogetherInv
  BY <1>0, <1>6 DEF TogetherInv, Sound
<1>11. QED
  BY <1>7, <1>8, <1>9, <1>10 DEF PublishInv

\* _codebook_cache_load, a death: no name and no file changes.
LEMMA LookDieInv ==
  ASSUME PublishInv, NEW p \in Savers, Look(p) \/ Die(p)
  PROVE  PublishInv'
<1>0. /\ UNCHANGED <<kind, inode, tmpName, target, handle, written, shared>>
      /\ \E to \in {"hit", "open", "dead"} : Turns(p, to)
      /\ Writes' = Writes /\ Whole' = Whole
  BY DEF Look, Die, Writes, Whole
<1>1. /\ saver' \in [Savers -> {"look", "open", "write", "saved", "failed", "hit", "dead"}]
      /\ \A q \in Savers : q # p => saver'[q] = saver[q]
      /\ saver'[p] \in {"hit", "open", "dead"}
      /\ saver'[p] = "hit" => target # 0
      /\ saver'[p] = "open" => saver[p] = "look"
      /\ saver'[p] # "dead" => saver[p] = "look"
  BY DEF Look, Die, Turns, PublishInv, FilesTypeOK
<1>2. FilesTypeOK'
  BY <1>0, <1>1 DEF PublishInv, FilesTypeOK
<1>3. NamesInv'
  BY <1>0, <1>1 DEF PublishInv, NamesInv
<1>4. \A q \in Savers, r \in Regions : q # p => (Pending(q, r)' <=> Pending(q, r))
  BY <1>0, <1>1 DEF Pending, HasOpen
<1>5. AloneInv'
  BY <1>0, <1>1, <1>4 DEF PublishInv, AloneInv, HasOpen
<1>6. TogetherInv'
  <2> SUFFICES ASSUME \A q \in Savers : saver'[q] # "dead"
               PROVE  /\ target # 0 => Sound(target)'
                      /\ tmpName # 0 /\ (\E q \in Savers : saver'[q] \in {"write", "saved", "failed"})
                           => Sound(tmpName)'
    BY <1>0 DEF TogetherInv
  <2>1. \A q \in Savers : saver[q] # "dead"
    BY <1>1
  <2>2. \A r \in Regions : ~Pending(p, r)
    BY <1>1 DEF Pending, HasOpen
  <2>3. \A i : Sound(i) => Sound(i)'
    BY <1>0, <1>4, <2>2 DEF Sound
  <2>4. (\E q \in Savers : saver'[q] \in {"write", "saved", "failed"})
          => \E q \in Savers : saver[q] \in {"write", "saved", "failed"}
    BY <1>1
  <2>5. QED
    BY <1>0, <2>1, <2>3, <2>4 DEF PublishInv, TogetherInv
<1>7. QED
  BY <1>2, <1>3, <1>5, <1>6 DEF PublishInv

\* open(tmp, "wb"): whoever had the temporary file open now shares it.
LEMMA OpenInv == ASSUME PublishInv, NEW p \in Savers, OpenTmp(p) PROVE PublishInv'
<1>1. PICK i : /\ i = IF tmpName # 0 THEN tmpName ELSE Free
               /\ tmpName' = i
               /\ handle' = [handle EXCEPT ![p] = i]
               /\ inode' = [inode EXCEPT ![i] = Nothing]
  BY DEF OpenTmp
<1>2. i \in Inodes /\ i # 0 /\ i # target
  <2>1. saver[p] = "open" /\ FilesTypeOK /\ NamesInv
    BY DEF OpenTmp, PublishInv
  <2>2. 0 \notin Inodes
    BY SaversAssumption, FS_CardinalityType DEF Inodes
  <2>3. CASE tmpName # 0
    BY <1>1, <2>1, <2>2, <2>3 DEF FilesTypeOK, NamesInv
  <2>4. CASE tmpName = 0
    BY <1>1, <2>1, <2>2, <2>4, FreeInode
  <2>5. QED
    BY <2>3, <2>4
<1>3. /\ saver[p] = "open" /\ saver' = [saver EXCEPT ![p] = "write"] /\ written[p] = 0
      /\ UNCHANGED <<kind, target, written>>
      /\ shared' = (shared \/ \E q \in Savers : HasOpen(q))
      /\ Writes' = Writes /\ Whole' = Whole
  BY DEF OpenTmp, Turns, PublishInv, NamesInv, Writes, Whole
<1>4. /\ saver' \in [Savers -> {"look", "open", "write", "saved", "failed", "hit", "dead"}]
      /\ \A q \in Savers : saver'[q] = IF q = p THEN "write" ELSE saver[q]
      /\ handle' \in [Savers -> {0} \cup Inodes]
      /\ \A q \in Savers : handle'[q] = IF q = p THEN i ELSE handle[q]
      /\ inode' \in [Inodes -> Contents]
      /\ \A j \in Inodes : inode'[j] = IF j = i THEN Nothing ELSE inode[j]
  BY <1>1, <1>2, <1>3 DEF PublishInv, FilesTypeOK, Contents, Nothing
<1>5. FilesTypeOK'
  <2>1. shared' \in BOOLEAN
    BY <1>3 DEF PublishInv, FilesTypeOK
  <2>2. QED
    BY <1>1, <1>2, <1>3, <1>4, <2>1 DEF PublishInv, FilesTypeOK, Contents
<1>6. NamesInv'
  BY <1>1, <1>2, <1>3, <1>4 DEF PublishInv, NamesInv
<1>7. \A q \in Savers, r \in Regions : q # p => (Pending(q, r)' <=> Pending(q, r))
  BY <1>3, <1>4 DEF Pending, HasOpen
<1>8. \A r \in Regions : ~Pending(p, r)
  BY <1>3 DEF Pending, HasOpen
<1>9. \A r \in Regions : inode'[i][r] = Whole[r] \/ Pending(p, r)'
  <2>1. FilesTypeOK' /\ written'[p] = 0 /\ HasOpen(p)'
    BY <1>3, <1>4, <1>5 DEF HasOpen
  <2>2. \A r \in Regions : Nothing[r] = Whole[r] \/ Pending(p, r)'
    <3> SUFFICES ASSUME NEW r \in Regions PROVE Nothing[r] = Whole[r] \/ Pending(p, r)'
      OBVIOUS
    <3>1. Nothing[r] = "none" /\ kind \in {"cache", "container"}
      BY DEF Nothing, PublishInv, FilesTypeOK
    <3>2. Whole[r] = "none" \/ \E k \in 1 .. Len(Writes) : r \in Writes[k].at
      BY <3>1, WritesFill
    <3>3. (\E k \in 1 .. Len(Writes) : r \in Writes[k].at) => Pending(p, r)'
      BY <1>3, <2>1 DEF Pending
    <3>4. QED
      BY <3>1, <3>2, <3>3
  <2>3. QED
    BY <1>2, <1>4, <2>2
<1>10. target # 0 => inode'[target] = inode[target]
  BY <1>2, <1>4 DEF PublishInv, FilesTypeOK
<1>11. AloneInv'
  <2> SUFFICES ASSUME ~shared'
               PROVE  /\ target # 0 => inode'[target] = Whole
                      /\ \A q \in Savers :
                           /\ saver'[q] # "failed"
                           /\ HasOpen(q)' =>
                                /\ handle'[q] = i /\ \A s \in Savers : HasOpen(s)' => s = q
                                /\ \A r \in Regions : inode'[i][r] = Whole[r] \/ Pending(q, r)'
    BY <1>1, <1>3 DEF AloneInv
  <2>1. ~shared /\ \A q \in Savers : HasOpen(q)' => q = p
    BY <1>3, <1>4 DEF HasOpen
  <2>2. QED
    BY <1>4, <1>9, <1>10, <2>1 DEF PublishInv, AloneInv
<1>12. TogetherInv'
  <2> SUFFICES ASSUME \A q \in Savers : saver'[q] # "dead"
               PROVE  (target # 0 => Sound(target)') /\ Sound(i)'
    BY <1>1, <1>3 DEF TogetherInv
  <2>1. \A q \in Savers : saver[q] # "dead"
    BY <1>3, <1>4
  <2>2. Sound(i)'
    BY <1>3, <1>4, <1>9 DEF Sound
  <2>3. target # 0 => Sound(target)'
    <3> SUFFICES ASSUME target # 0, NEW r \in Regions
                 PROVE  \/ inode'[target][r] = Whole[r]
                        \/ \E q \in Savers : handle'[q] = target /\ Pending(q, r)'
      BY <1>3 DEF Sound
    <3>1. inode[target][r] = Whole[r] \/ \E q \in Savers : handle[q] = target /\ Pending(q, r)
      BY <2>1 DEF PublishInv, TogetherInv, Sound
    <3>2. QED
      BY <1>4, <1>7, <1>8, <1>10, <3>1
  <2>4. QED
    BY <2>2, <2>3
<1>13. QED
  BY <1>5, <1>6, <1>11, <1>12 DEF PublishInv

\* One write of a save, in whatever state the others have left the file.
LEMMA WriteInv == ASSUME PublishInv, NEW p \in Savers, WriteNext(p) PROVE PublishInv'
<1> DEFINE h == handle[p]
<1>1. /\ UNCHANGED <<kind, tmpName, target, saver, handle, shared>> /\ HasOpen(p)
      /\ Writes' = Writes /\ Whole' = Whole
      /\ \A q \in Savers : HasOpen(q)' <=> HasOpen(q)
  BY DEF WriteNext, Writes, Whole, HasOpen
<1>2. FilesTypeOK /\ h # 0 /\ h \in Inodes
  BY <1>1 DEF PublishInv, NamesInv, FilesTypeOK, HasOpen
<1>3. /\ inode' \in [Inodes -> Contents] /\ written' \in [Savers -> 0 .. Len(Writes)]
      /\ \A i \in Inodes : i # h => inode'[i] = inode[i]
      /\ \A q \in Savers, r \in Regions : q # p => (Pending(q, r)' <=> Pending(q, r))
      /\ \A r \in Regions :
           \/ inode'[h][r] = Whole[r]
           \/ Pending(p, r)'
           \/ inode'[h][r] = inode[h][r] /\ (Pending(p, r) => Pending(p, r)')
  BY <1>2, WriteProgress
<1>4. \A q \in Savers : q # p => written'[q] = written[q]
  BY DEF WriteNext, PublishInv, FilesTypeOK
<1> HIDE DEF h
<1>5. FilesTypeOK'
  BY <1>1, <1>2, <1>3 DEF FilesTypeOK, Contents
<1>6. NamesInv'
  BY <1>1, <1>4 DEF PublishInv, NamesInv, HasOpen
<1>7. AloneInv'
  <2> SUFFICES ASSUME ~shared
               PROVE  /\ target # 0 => inode'[target] = Whole
                      /\ \A q \in Savers :
                           /\ saver[q] # "failed"
                           /\ HasOpen(q) =>
                                /\ handle[q] = tmpName /\ \A s \in Savers : HasOpen(s) => s = q
                                /\ \A r \in Regions : inode'[tmpName][r] = Whole[r] \/ Pending(q, r)'
    BY <1>1 DEF AloneInv
  <2>1. /\ target # 0 => inode[target] = Whole
        /\ \A q \in Savers :
             /\ saver[q] # "failed"
             /\ HasOpen(q) =>
                  /\ handle[q] = tmpName /\ \A s \in Savers : HasOpen(s) => s = q
                  /\ \A r \in Regions : inode[tmpName][r] = Whole[r] \/ Pending(q, r)
    BY DEF PublishInv, AloneInv
  <2>2. h = tmpName /\ h # target
    BY <1>1, <1>2, <2>1 DEF PublishInv, NamesInv, h
  <2>3. target # 0 => inode'[target] = Whole
    BY <1>2, <1>3, <2>1, <2>2 DEF FilesTypeOK
  <2>4. \A r \in Regions : inode'[h][r] = Whole[r] \/ Pending(p, r)'
    BY <1>1, <1>3, <2>1, <2>2
  <2>5. \A q \in Savers : HasOpen(q) => q = p
    BY <1>1, <2>1
  <2>6. QED
    BY <2>1, <2>2, <2>3, <2>4, <2>5
<1>8. ASSUME NEW i \in Inodes, Sound(i) PROVE Sound(i)'
  <2> SUFFICES ASSUME NEW r \in Regions
               PROVE  inode'[i][r] = Whole[r] \/ \E q \in Savers : handle[q] = i /\ Pending(q, r)'
    BY <1>1 DEF Sound
  <2>1. inode[i][r] = Whole[r] \/ \E q \in Savers : handle[q] = i /\ Pending(q, r)
    BY <1>8 DEF Sound
  <2>2. CASE i = h
    BY <1>3, <2>1, <2>2 DEF h
  <2>3. CASE i # h
    BY <1>3, <2>1, <2>3 DEF h
  <2>4. QED
    BY <2>2, <2>3
<1>9. TogetherInv'
  BY <1>1, <1>2, <1>8 DEF PublishInv, TogetherInv, FilesTypeOK
<1>10. QED
  BY <1>5, <1>6, <1>7, <1>9 DEF PublishInv

\* replace, rename: the file that has the temporary name is published, or
\* the name is gone because another saver has published it.
LEMMA RenameInv == ASSUME PublishInv, NEW p \in Savers, Rename(p) PROVE PublishInv'
<1>1. /\ UNCHANGED <<kind, inode, handle, written, shared>> /\ HasOpen(p) /\ AllWritten(p)
      /\ Writes' = Writes /\ Whole' = Whole
  BY DEF Rename, Writes, Whole
<1>2. \/ tmpName = 0 /\ UNCHANGED <<tmpName, target>> /\ target # 0
         /\ saver' = [saver EXCEPT ![p] = "failed"]
      \/ tmpName # 0 /\ target' = tmpName /\ tmpName' = 0
         /\ saver' = [saver EXCEPT ![p] = "saved"]
  BY <1>1 DEF Rename, Turns, PublishInv, NamesInv, HasOpen
<1>3. /\ saver' \in [Savers -> {"look", "open", "write", "saved", "failed", "hit", "dead"}]
      /\ saver[p] = "write" /\ saver'[p] \in {"saved", "failed"} /\ target' # 0
      /\ \A q \in Savers : q # p => saver'[q] = saver[q]
  BY <1>1, <1>2 DEF PublishInv, FilesTypeOK, HasOpen
<1>4. FilesTypeOK'
  BY <1>1, <1>2, <1>3 DEF PublishInv, FilesTypeOK
<1>5. NamesInv'
  BY <1>1, <1>2, <1>3 DEF PublishInv, NamesInv
<1>6. \A r \in Regions : ~Pending(p, r)
  <2>1. Len(Writes) \in Nat /\ written[p] = Len(Writes)
    BY <1>1, WritesFill DEF AllWritten, PublishInv, FilesTypeOK
  <2>2. written[p] + 1 .. Len(Writes) = {}
    BY <2>1
  <2>3. QED
    BY <2>2 DEF Pending
<1>7. \A q \in Savers, r \in Regions : Pending(q, r) => Pending(q, r)'
  BY <1>1, <1>3, <1>6 DEF Pending, HasOpen
<1>8. \A i : Sound(i) => Sound(i)'
  BY <1>1, <1>7 DEF Sound
<1>9. AloneInv'
  <2> SUFFICES ASSUME ~shared
               PROVE  /\ inode[target'] = Whole
                      /\ \A q \in Savers : saver'[q] # "failed" /\ ~HasOpen(q)'
    BY <1>1 DEF AloneInv
  <2>1. /\ handle[p] = tmpName /\ \A q \in Savers : HasOpen(q) => q = p
        /\ \A r \in Regions : inode[tmpName][r] = Whole[r] \/ Pending(p, r)
        /\ \A q \in Savers : saver[q] # "failed"
    BY <1>1 DEF PublishInv, AloneInv
  <2>2. tmpName # 0 /\ target' = tmpName /\ saver'[p] = "saved" /\ tmpName \in Inodes
    BY <1>1, <1>2, <2>1 DEF PublishInv, NamesInv, HasOpen, FilesTypeOK
  <2>3. inode[tmpName] = Whole
    <3>1. \A r \in Regions : inode[tmpName][r] = Whole[r]
      BY <1>6, <2>1
    <3>2. inode[tmpName] \in [Regions -> {"none", "blank", "good"}]
      BY <2>2 DEF PublishInv, FilesTypeOK
    <3>3. QED
      BY <3>1, <3>2 DEF Whole
  <2>4. \A q \in Savers : saver'[q] # "failed" /\ ~HasOpen(q)'
    BY <1>3, <2>1, <2>2 DEF HasOpen
  <2>5. QED
    BY <2>2, <2>3, <2>4
<1>10. TogetherInv'
  <2> SUFFICES ASSUME \A q \in Savers : saver'[q] # "dead"
               PROVE  /\ target' # 0 => Sound(target)'
                      /\ tmpName' # 0 => Sound(tmpName)'
    BY DEF TogetherInv
  <2>1. \A q \in Savers : saver[q] # "dead"
    BY <1>3
  <2>2. (target # 0 => Sound(target)) /\ (tmpName # 0 => Sound(tmpName))
    BY <1>3, <2>1 DEF PublishInv, TogetherInv
  <2>3. CASE UNCHANGED <<tmpName, target>>
    BY <1>8, <2>2, <2>3 DEF Sound
  <2>4. CASE tmpName # 0 /\ target' = tmpName /\ tmpName' = 0
    <3>1. Sound(tmpName)
      BY <2>2, <2>4
    <3>2. \A r \in Regions :
            inode'[tmpName][r] = Whole'[r] \/ \E q \in Savers : handle'[q] = tmpName /\ Pending(q, r)'
      BY <1>1, <1>7, <3>1 DEF Sound
    <3>3. Sound(target)'
      BY <2>4, <3>2 DEF Sound
    <3>4. QED
      BY <2>4, <3>3
  <2>5. QED
    BY <1>2, <2>3, <2>4
<1>11. QED
  BY <1>4, <1>5, <1>9, <1>10 DEF PublishInv

\* No action: nothing changes.
LEMMA FilesStutterInv == ASSUME PublishInv, UNCHANGED fileVars PROVE PublishInv'
<1>1. /\ UNCHANGED <<kind, inode, tmpName, target, saver, handle, written, shared>>
      /\ Writes' = Writes /\ Whole' = Whole
  BY DEF fileVars, Writes, Whole
<1>2. FilesTypeOK' /\ NamesInv'
  BY <1>1 DEF PublishInv, FilesTypeOK, NamesInv
<1>3. \A q, r : Pending(q, r)' <=> Pending(q, r)
  BY <1>1 DEF Pending, HasOpen
<1>4. AloneInv' /\ TogetherInv'
  BY <1>1, <1>3 DEF PublishInv, AloneInv, TogetherInv, HasOpen, Sound
<1>5. QED
  BY <1>2, <1>4 DEF PublishInv

\* Every step of every saver keeps the invariant.
LEMMA FilesNextInv == PublishInv /\ [FilesNext]_fileVars => PublishInv'
BY LookDieInv, OpenInv, WriteInv, RenameInv, FilesStutterInv DEF FilesNext

\* The invariant of the directory holds whichever savers meet or die.
LEMMA FilesInvariant == FilesSpec => []PublishInv
BY FilesInitInv, FilesNextInv, PTL DEF FilesSpec
-----------------------------------------------------------------------------
\* The names of the directory always refer to files that exist.
THEOREM FilesTypeCorrect == FilesSpec => []FilesTypeOK
<1>1. PublishInv => FilesTypeOK
  BY DEF PublishInv
<1>2. QED
  BY <1>1, FilesInvariant, PTL

\* codebook/cache.py and artifact/container.py: no torn file is ever
\* published while the savers keep out of each other's way, and when they
\* meet the published file is whole again once they are done and none died.
THEOREM PublicationIsWhole == FilesSpec => []PublishedWhole
<1>1. PublishInv => PublishedWhole
  <2> SUFFICES ASSUME PublishInv PROVE PublishedWhole
    OBVIOUS
  <2>1. ~shared => Published /\ \A p \in Savers : saver[p] # "failed"
    BY DEF PublishInv, AloneInv, Published
  <2>2. ASSUME \A p \in Savers : saver[p] \in {"saved", "failed", "hit"}
        PROVE  target # 0 /\ Published
    <3>1. target # 0
      BY <2>2, SaversAssumption DEF PublishInv, NamesInv
    <3>2. Sound(target)
      BY <2>2, <3>1 DEF PublishInv, TogetherInv
    <3>3. \A q \in Savers, r \in Regions : ~Pending(q, r)
      BY <2>2 DEF Pending, HasOpen
    <3>4. \A r \in Regions : inode[target][r] = Whole[r]
      BY <3>2, <3>3 DEF Sound
    <3>5. inode[target] \in [Regions -> {"none", "blank", "good"}]
      BY <3>1 DEF PublishInv, FilesTypeOK
    <3>6. inode[target] = Whole
      BY <3>4, <3>5 DEF Whole
    <3>7. QED
      BY <3>1, <3>6 DEF Published
  <2>3. QED
    BY <2>1, <2>2 DEF PublishedWhole
<1>2. QED
  BY <1>1, FilesInvariant, PTL

-----------------------------------------------------------------------------
(* A session of packs. *)
Phases == {"waiting", "running", "joining", "joined", "done", "raised"}

\* The places of a pack's writes in a queue, and how many they are.
Places(q, p) == {i \in 1 .. Len(q) : q[i] = p}
Waiting(q, p) == Cardinality(Places(q, p))

SessionTypes ==
  /\ pack \in [PackIds -> Phases]
  /\ submitted \in [PackIds -> 0 .. PackWrites] /\ landed \in [PackIds -> Nat]
  /\ tasks \in Seq(PackIds) /\ errors \subseteq PackIds
  /\ monitors \subseteq Capped /\ exceeded \subseteq Capped

\* What the writer owes a pack: a write that was submitted waits, has landed
\* or has left its pack among the errors for good.
Ledger ==
  \A p \in PackIds :
    /\ landed[p] + Waiting(tasks, p) <= submitted[p]
    /\ p \notin errors => landed[p] + Waiting(tasks, p) = submitted[p]

\* What wait() gives: a pack submits nothing once it joins, so once the queue
\* has been seen empty none of its writes waits, whatever the others submit.
Drained ==
  \A p \in PackIds :
    /\ pack[p] \in {"joining", "joined"} => submitted[p] = PackWrites
    /\ pack[p] = "joined" => Places(tasks, p) = {}

\* The flag of the RAM monitor is only set by an overage.
FlagInv == exceeded # {} => overran

BooksInv == SessionTypes /\ Ledger /\ Drained /\ FlagInv /\ SessionHonest
-----------------------------------------------------------------------------
(***************************************************************************)
(* How put and get of a queue change the places of a pack's writes.        *)
(***************************************************************************)
\* queue.Queue keeps finitely many tasks: the places are a finite set.
LEMMA PlacesFinite ==
  ASSUME NEW S, NEW q \in Seq(S), NEW p
  PROVE  IsFiniteSet(Places(q, p)) /\ Waiting(q, p) \in Nat
<1>1. Len(q) \in Nat /\ IsFiniteSet(1 .. Len(q))
  BY LenProperties, FS_Interval
<1>2. Places(q, p) \subseteq 1 .. Len(q)
  BY DEF Places
<1>3. IsFiniteSet(Places(q, p))
  BY <1>1, <1>2, FS_Subset
<1>4. QED
  BY <1>3, FS_CardinalityType DEF Waiting

\* An empty queue holds no write of any pack.
LEMMA EmptyPlaces == \A p : Places(<<>>, p) = {} /\ Waiting(<<>>, p) = 0
<1>1. \A p : Places(<<>>, p) = {}
  <2>1. 1 .. Len(<<>>) = {}
    BY EmptySeq
  <2>2. QED
    BY <2>1, Zenon DEF Places
<1>2. QED
  BY <1>1, FS_EmptySet DEF Waiting

\* submit (io.py): the queue has one more write of that pack, and no other.
LEMMA PutPlaces ==
  ASSUME NEW S, NEW q \in Seq(S), NEW e \in S, NEW p
  PROVE  /\ p # e => Places(Append(q, e), p) = Places(q, p)
         /\ Waiting(Append(q, e), p) = IF p = e THEN Waiting(q, p) + 1 ELSE Waiting(q, p)
<1>1. /\ Append(q, e) \in Seq(S) /\ Len(q) \in Nat /\ Len(Append(q, e)) = Len(q) + 1
      /\ \A i \in 1 .. Len(q) : Append(q, e)[i] = q[i]
      /\ Append(q, e)[Len(q) + 1] = e
  BY LenProperties, AppendProperties
<1>2. CASE p = e
  <2>1. Places(Append(q, e), p) = Places(q, p) \cup {Len(q) + 1}
    BY <1>1, <1>2 DEF Places
  <2>2. Len(q) + 1 \notin Places(q, p)
    BY <1>1 DEF Places
  <2>3. QED
    BY <1>2, <2>1, <2>2, PlacesFinite, FS_AddElement DEF Waiting
<1>3. CASE p # e
  <2>1. Places(Append(q, e), p) = Places(q, p)
    BY <1>1, <1>3 DEF Places
  <2>2. QED
    BY <1>3, <2>1 DEF Waiting
<1>4. QED
  BY <1>2, <1>3

\* _worker (io.py): get and task_done take the oldest write, and no other.
LEMMA GetPlaces ==
  ASSUME NEW S, NEW q \in Seq(S), q # <<>>, NEW p
  PROVE  /\ Head(q) \in S /\ Tail(q) \in Seq(S)
         /\ Places(q, p) = {} => Places(Tail(q), p) = {}
         /\ Waiting(Tail(q), p) = IF p = Head(q) THEN Waiting(q, p) - 1 ELSE Waiting(q, p)
<1>1. /\ Head(q) \in S /\ Tail(q) \in Seq(S) /\ Len(q) \in Nat \ {0}
      /\ Len(Tail(q)) = Len(q) - 1 /\ Head(q) = q[1]
      /\ \A i \in 1 .. Len(Tail(q)) : Tail(q)[i] = q[i + 1]
  BY HeadTailProperties, EmptySeq
<1> DEFINE Later == Places(q, p) \ {1}
           shift == [i \in Places(Tail(q), p) |-> i + 1]
<1>2. shift \in [Places(Tail(q), p) -> Later]
  BY <1>1 DEF Places
<1>3. \A i, j \in Places(Tail(q), p) : shift[i] = shift[j] => i = j
  BY <1>1 DEF Places
<1>4. \A k \in Later : \E i \in Places(Tail(q), p) : shift[i] = k
  <2> SUFFICES ASSUME NEW k \in Later PROVE k - 1 \in Places(Tail(q), p) /\ shift[k - 1] = k
    OBVIOUS
  <2>1. k \in 2 .. Len(q) /\ q[k] = p
    BY <1>1 DEF Places
  <2>2. k - 1 \in 1 .. Len(Tail(q)) /\ Tail(q)[k - 1] = q[(k - 1) + 1] /\ (k - 1) + 1 = k
    BY <1>1, <2>1
  <2>3. k - 1 \in Places(Tail(q), p)
    BY <2>1, <2>2 DEF Places
  <2>4. QED
    BY <2>2, <2>3
<1> HIDE DEF shift
<1>5. shift \in Bijection(Places(Tail(q), p), Later)
  BY <1>2, <1>3, <1>4, Fun_IsBij
<1>6. Cardinality(Later) = Waiting(Tail(q), p)
  <2>1. ExistsBijection(Places(Tail(q), p), Later)
    BY <1>5, Fun_ExistsBij
  <2>2. IsFiniteSet(Places(Tail(q), p))
    BY <1>1, PlacesFinite
  <2> HIDE DEF Later
  <2>3. QED
    BY <2>1, <2>2, FS_Bijection DEF Waiting
<1>7. Cardinality(Later) = IF 1 \in Places(q, p) THEN Waiting(q, p) - 1 ELSE Waiting(q, p)
  BY PlacesFinite, FS_RemoveElement DEF Waiting
<1>8. 1 \in Places(q, p) <=> p = Head(q)
  BY <1>1 DEF Places
<1>9. Places(q, p) = {} => Places(Tail(q), p) = {}
  BY <1>2
<1>10. QED
  BY <1>1, <1>6, <1>7, <1>8, <1>9
-----------------------------------------------------------------------------
(***************************************************************************)
(* The invariant holds at the start and in every step.                     *)
(***************************************************************************)
\* A session starts with an idle writer and no monitor.
LEMMA SessionInitInv == SessionInit => BooksInv
<1> SUFFICES ASSUME SessionInit PROVE BooksInv
  OBVIOUS
<1> USE SessionAssumption DEF SessionInit
<1>1. SessionTypes
  BY EmptySeq DEF SessionTypes, Phases
<1>2. \A p \in PackIds : Places(tasks, p) = {} /\ Waiting(tasks, p) = 0
  BY EmptyPlaces
<1>3. Ledger /\ Drained
  BY <1>2 DEF Ledger, Drained
<1>4. FlagInv /\ SessionHonest
  BY DEF FlagInv, SessionHonest
<1>5. QED
  BY <1>1, <1>3, <1>4 DEF BooksInv

\* submit (io.py): the write joins the queue and is owed.
LEMMA SubmitInv == ASSUME BooksInv, NEW p \in PackIds, SubmitWrite(p) PROVE BooksInv'
<1> USE SessionAssumption DEF SubmitWrite, BooksInv, writer, ram
<1>1. tasks' \in Seq(PackIds)
  BY AppendProperties DEF SessionTypes
<1>2. /\ submitted' \in [PackIds -> 0 .. PackWrites]
      /\ \A r \in PackIds : submitted'[r] = IF r = p THEN submitted[r] + 1 ELSE submitted[r]
  BY DEF SessionTypes
<1>3. SessionTypes'
  BY <1>1, <1>2 DEF SessionTypes
<1>4. \A r \in PackIds :
        /\ r # p => Places(tasks', r) = Places(tasks, r)
        /\ Waiting(tasks', r) = IF r = p THEN Waiting(tasks, r) + 1 ELSE Waiting(tasks, r)
  BY PutPlaces DEF SessionTypes
<1>5. \A r \in PackIds : Waiting(tasks, r) \in Nat
  BY PlacesFinite DEF SessionTypes
<1>6. Ledger'
  BY <1>2, <1>4, <1>5 DEF Ledger, SessionTypes
<1>7. Drained'
  BY <1>2, <1>4 DEF Drained
<1>8. FlagInv' /\ SessionHonest'
  BY DEF FlagInv, SessionHonest
<1>9. QED
  BY <1>3, <1>6, <1>7, <1>8

\* _worker (io.py): the oldest write lands, or its failure is kept for good.
LEMMA WriterInv == ASSUME BooksInv, WriterDoes PROVE BooksInv'
<1> USE SessionAssumption DEF WriterDoes, BooksInv, ram
<1> DEFINE h == Head(tasks)
<1>1. h \in PackIds /\ tasks' \in Seq(PackIds)
  BY GetPlaces DEF SessionTypes
<1>2. \A r \in PackIds :
        /\ Places(tasks, r) = {} => Places(tasks', r) = {}
        /\ Waiting(tasks', r) = IF r = h THEN Waiting(tasks, r) - 1 ELSE Waiting(tasks, r)
  BY GetPlaces DEF SessionTypes
<1>3. \A r \in PackIds : Waiting(tasks, r) \in Nat
  BY PlacesFinite DEF SessionTypes
<1>4. Drained' /\ FlagInv'
  BY <1>2 DEF Drained, FlagInv
<1> HIDE DEF h
<1>5. CASE landed' = [landed EXCEPT ![h] = @ + 1] /\ UNCHANGED errors
  <2>1. /\ landed' \in [PackIds -> Nat]
        /\ \A r \in PackIds : landed'[r] = IF r = h THEN landed[r] + 1 ELSE landed[r]
    BY <1>1, <1>5 DEF SessionTypes
  <2>2. SessionTypes'
    BY <1>1, <1>5, <2>1 DEF SessionTypes
  <2>3. Ledger'
    <3> SUFFICES ASSUME NEW r \in PackIds
                 PROVE  /\ landed'[r] + Waiting(tasks', r) <= submitted[r]
                        /\ r \notin errors => landed'[r] + Waiting(tasks', r) = submitted[r]
      BY <1>5 DEF Ledger
    <3>1. landed[r] \in Nat /\ submitted[r] \in Nat /\ Waiting(tasks, r) \in Nat
      BY <1>3 DEF SessionTypes
    <3>2. /\ landed[r] + Waiting(tasks, r) <= submitted[r]
          /\ r \notin errors => landed[r] + Waiting(tasks, r) = submitted[r]
      BY DEF Ledger
    <3>3. /\ Waiting(tasks', r) = IF r = h THEN Waiting(tasks, r) - 1 ELSE Waiting(tasks, r)
          /\ landed'[r] = IF r = h THEN landed[r] + 1 ELSE landed[r]
      BY <1>2, <2>1
    <3>4. QED
      BY <3>1, <3>2, <3>3
  <2>4. SessionHonest'
    <3>1. \A r \in PackIds : pack[r] = "done" => r # h
      <4> SUFFICES ASSUME pack[h] = "done" PROVE FALSE
        OBVIOUS
      <4>1. Waiting(tasks, h) - 1 \in Nat
        BY <1>1, <1>2, PlacesFinite
      <4>2. landed[h] = PackWrites
        BY <1>1 DEF SessionHonest
      <4>3. QED
        BY <1>1, <1>3, <4>1, <4>2 DEF Ledger, SessionTypes
    <3>2. QED
      BY <1>5, <2>1, <3>1 DEF SessionHonest
  <2>5. QED
    BY <1>4, <2>2, <2>3, <2>4
<1>6. CASE errors' = errors \cup {h} /\ UNCHANGED landed
  <2>1. SessionTypes'
    BY <1>1, <1>6 DEF SessionTypes
  <2>2. Ledger'
    <3> SUFFICES ASSUME NEW r \in PackIds
                 PROVE  /\ landed[r] + Waiting(tasks', r) <= submitted[r]
                        /\ r \notin errors' => landed[r] + Waiting(tasks', r) = submitted[r]
      BY <1>6 DEF Ledger
    <3>1. landed[r] \in Nat /\ submitted[r] \in Nat /\ Waiting(tasks, r) \in Nat
      BY <1>3 DEF SessionTypes
    <3>2. /\ landed[r] + Waiting(tasks, r) <= submitted[r]
          /\ r \notin errors => landed[r] + Waiting(tasks, r) = submitted[r]
      BY DEF Ledger
    <3>3. Waiting(tasks', r) = IF r = h THEN Waiting(tasks, r) - 1 ELSE Waiting(tasks, r)
      BY <1>2
    <3>4. QED
      BY <1>6, <3>1, <3>2, <3>3
  <2>3. SessionHonest'
    BY <1>6 DEF SessionHonest
  <2>4. QED
    BY <1>4, <2>1, <2>2, <2>3
<1>7. QED
  BY <1>5, <1>6 DEF h

\* A step that leaves the writer's books alone keeps what they say.
LEMMA BooksKept ==
  ASSUME BooksInv, UNCHANGED <<submitted, writer>>, pack' \in [PackIds -> Phases],
         monitors' \subseteq Capped, exceeded' \subseteq Capped
  PROVE  SessionTypes' /\ Ledger'
BY DEF BooksInv, SessionTypes, Ledger, writer

\* A pack that begins, passes no checkpoint or joins: nobody's outcome.
LEMMA MovesInv ==
  ASSUME BooksInv, NEW p \in PackIds, BeginPack(p) \/ StartJoin(p) \/ Join(p)
  PROVE  BooksInv'
<1>0. /\ UNCHANGED <<submitted, writer, exceeded, overran, broke>>
      /\ pack[p] \in {"waiting", "running", "joining"}
      /\ \E to \in {"running", "joining", "joined"} : Moves(p, to)
      /\ monitors' \subseteq Capped
  BY DEF BeginPack, StartJoin, Join, ram, BooksInv, SessionTypes
<1>1. SessionTypes' /\ Ledger'
  BY <1>0, BooksKept DEF Moves, Phases, BooksInv, SessionTypes
<1>2. Drained'
  <2>1. CASE BeginPack(p)
    BY <2>1, <1>0 DEF BeginPack, Moves, BooksInv, SessionTypes, Drained, writer
  <2>2. CASE StartJoin(p)
    BY <2>2, <1>0 DEF StartJoin, Moves, BooksInv, SessionTypes, Drained, writer
  <2>3. CASE Join(p)
    <3>1. Places(tasks, p) = {}
      BY <2>3, EmptySeq DEF Join, Places
    <3>2. QED
      BY <2>3, <3>1, <1>0 DEF Join, Moves, BooksInv, SessionTypes, Drained, writer
  <2>4. QED
    BY <2>1, <2>2, <2>3
<1>3. FlagInv' /\ SessionHonest'
  BY <1>0 DEF Moves, BooksInv, SessionTypes, FlagInv, SessionHonest, writer
<1>4. QED
  BY <1>1, <1>2, <1>3 DEF BooksInv

\* A pack raises: at a checkpoint that finds the flag, or by itself.
LEMMA RaisesInv ==
  ASSUME BooksInv, NEW p \in PackIds, Checkpoint(p) \/ Break(p)
  PROVE  BooksInv'
<1>0. /\ UNCHANGED <<submitted, writer, monitors, overran>>
      /\ pack' = [pack EXCEPT ![p] = "raised"]
      /\ p \in broke' \/ overran
      /\ broke \subseteq broke' /\ exceeded' \subseteq exceeded
  BY DEF Checkpoint, Break, Ends, Moves, BooksInv, FlagInv
<1>1. SessionTypes' /\ Ledger'
  BY <1>0, BooksKept DEF Phases, BooksInv, SessionTypes
<1>2. Drained'
  BY <1>0 DEF BooksInv, SessionTypes, Drained, writer
<1>3. FlagInv' /\ SessionHonest'
  BY <1>0 DEF BooksInv, SessionTypes, FlagInv, SessionHonest, writer
<1>4. QED
  BY <1>1, <1>2, <1>3 DEF BooksInv

\* wait (io.py), after the join: no write of the pack waits, so without an
\* error all of them have landed.
LEMMA JudgeInv == ASSUME BooksInv, NEW p \in PackIds, Judge(p) PROVE BooksInv'
<1>0. /\ pack[p] = "joined" /\ UNCHANGED <<submitted, writer, monitors, exceeded, overran, broke>>
      /\ pack' = [pack EXCEPT ![p] = IF errors = {} THEN "done" ELSE "raised"]
  BY DEF Judge, Ends, Moves
<1>1. SessionTypes' /\ Ledger'
  BY <1>0, BooksKept DEF Phases, BooksInv, SessionTypes
<1>2. Drained'
  BY <1>0 DEF BooksInv, SessionTypes, Drained, writer
<1>3. errors = {} => landed[p] = PackWrites
  <2>1. submitted[p] = PackWrites /\ Waiting(tasks, p) = 0
    BY <1>0, FS_EmptySet DEF BooksInv, Drained, Waiting
  <2>2. QED
    BY <2>1 DEF BooksInv, Ledger, SessionTypes
<1>4. FlagInv' /\ SessionHonest'
  BY <1>0, <1>3 DEF BooksInv, SessionTypes, FlagInv, SessionHonest, writer
<1>5. QED
  BY <1>1, <1>2, <1>4 DEF BooksInv

\* _monitor_ram_task: only an overage raises the flag.
LEMMA PollInv == ASSUME BooksInv, NEW p \in PackIds, Poll(p) PROVE BooksInv'
<1>0. /\ UNCHANGED <<pack, submitted, writer, broke>> /\ monitors' \subseteq monitors
      /\ overran => overran'
      /\ \/ exceeded' = exceeded /\ overran' = overran
         \/ exceeded' = {p} /\ overran'
      /\ p \in Capped
  BY DEF Poll, BooksInv, SessionTypes
<1>1. SessionTypes' /\ Ledger'
  BY <1>0, BooksKept DEF BooksInv, SessionTypes
<1>2. Drained'
  BY <1>0 DEF BooksInv, Drained, writer
<1>3. FlagInv' /\ SessionHonest'
  BY <1>0 DEF BooksInv, FlagInv, SessionHonest, writer
<1>4. QED
  BY <1>1, <1>2, <1>3 DEF BooksInv

\* Every step of every pack, and of the writer they share.
LEMMA SessionNextInv == BooksInv /\ [SessionNext]_sessionVars => BooksInv'
<1> SUFFICES ASSUME BooksInv, [SessionNext]_sessionVars PROVE BooksInv'
  OBVIOUS
<1>1. CASE WriterDoes
  BY <1>1, WriterInv
<1>2. ASSUME NEW p \in PackIds, SessionStep(p) PROVE BooksInv'
  BY <1>2, SubmitInv, MovesInv, RaisesInv, JudgeInv, PollInv DEF SessionStep
<1>3. CASE UNCHANGED sessionVars
  BY <1>3 DEF sessionVars, writer, ram, BooksInv, SessionTypes, Ledger, Drained, FlagInv, SessionHonest
<1>4. QED
  BY <1>1, <1>2, <1>3 DEF SessionNext

\* The invariant of a session holds however its packs interleave.
LEMMA SessionInvariant == SessionSpec => []BooksInv
BY SessionInitInv, SessionNextInv, PTL DEF SessionSpec
-----------------------------------------------------------------------------
\* The writer's books: no pack has more writes on disk than it submitted.
THEOREM SessionTypeCorrect == SessionSpec => []SessionTypeOK
<1>1. BooksInv => SessionTypeOK
  <2> SUFFICES ASSUME BooksInv PROVE SessionTypeOK
    OBVIOUS
  <2>1. \A p \in PackIds : Waiting(tasks, p) \in Nat
    BY PlacesFinite DEF BooksInv, SessionTypes
  <2>2. \A p \in PackIds : landed[p] <= submitted[p] /\ submitted[p] <= PackWrites
    <3> SUFFICES ASSUME NEW p \in PackIds
                 PROVE  landed[p] <= submitted[p] /\ submitted[p] <= PackWrites
      OBVIOUS
    <3>1. landed[p] \in Nat /\ submitted[p] \in 0 .. PackWrites
      BY DEF BooksInv, SessionTypes
    <3>2. landed[p] + Waiting(tasks, p) <= submitted[p]
      BY DEF BooksInv, Ledger
    <3>3. QED
      BY <2>1, <3>1, <3>2, SessionAssumption
  <2>3. QED
    BY <2>2 DEF BooksInv, SessionTypes, Phases, SessionTypeOK
<1>2. QED
  BY <1>1, SessionInvariant, PTL

\* _BG_WRITER outlives a pack: a pack returns a manifest only when every write
\* of its own has landed, and raises only by a failure that did happen.
THEOREM SessionsAreHonest == SessionSpec => []SessionHonest
<1>1. BooksInv => SessionHonest
  BY DEF BooksInv
<1>2. QED
  BY <1>1, SessionInvariant, PTL

-----------------------------------------------------------------------------
(* The AutoQuant loop. *)
Active == pc \in {"loop", "ask", "act"}

\* What the bounds of a run rest on: only the head of the loop lets a step
\* through, and a pack tool is called at most once in a step.
StepsInv ==
  /\ pc \in {"ask", "act"} => step < MaxSteps
  /\ pc # "raised" => artifact.pack <= step

\* What the verdict rests on: only Finish sets it, and a manifest is never
\* taken away from the directory it was found in.
VerdictInv ==
  /\ Active => status = "running"
  /\ artifact.manifest => artifact.kind = "dir"
  /\ verification.ok => artifact.manifest
  /\ status = "succeeded" => verification.ok

HarnessInv ==
  /\ TypeOK
  /\ StepsInv
  /\ SpendBounded
  /\ VerdictInv
-----------------------------------------------------------------------------
(***************************************************************************)
(* The steps, grouped by what they leave alone.                            *)
(***************************************************************************)
\* A tool call that is answered: record books the step and asks the gate.
Answered ==
  \/ BadArguments \/ Refused \/ Inspect \/ Derive \/ Allocate \/ Refine
  \/ Pack \/ PackComplains \/ PulseCheck \/ Verify

\* What an answered tool call may do to the artifact and to the evidence
\* about it: nothing, a pack, a measurement or a verification.
ArtifactStep ==
  \/ UNCHANGED <<artifact, quality, verification>>
  \/ /\ artifact' = Packed \/ artifact' \in HalfPacked
     /\ UNCHANGED <<quality, verification>>
  \/ /\ \E met \in BOOLEAN : quality' = Evidence(met, artifact.pack)
     /\ UNCHANGED <<artifact, verification>>
  \/ /\ \E ok \in BOOLEAN : MayVerify(ok) /\ verification' = Evidence(ok, artifact.pack)
     /\ UNCHANGED <<artifact, quality>>

\* What an answered tool call may do to the plan.
PlanStep ==
  /\ candidate' \in {candidate, TRUE}
  /\ allocation' \in {allocation, TRUE}
  /\ roles' \in {roles, "inspect", "derive"}

\* execute_validated and record (runner.py): every answered call is taken in
\* the act phase, books one step, and touches the state in one of four ways.
LEMMA AnsweredSteps ==
  Answered => pc = "act" /\ Record /\ ArtifactStep /\ PlanStep
<1>1. BadArguments => pc = "act" /\ Record /\ ArtifactStep /\ PlanStep
  BY DEF BadArguments, Complain, ArtifactStep, PlanStep, evidence
<1>2. Refused => pc = "act" /\ Record /\ ArtifactStep /\ PlanStep
  BY DEF Refused, Complain, ArtifactStep, PlanStep, evidence
<1>3. Inspect => pc = "act" /\ Record /\ ArtifactStep /\ PlanStep
  BY DEF Inspect, ArtifactStep, PlanStep
<1>4. Derive => pc = "act" /\ Record /\ ArtifactStep /\ PlanStep
  BY DEF Derive, ArtifactStep, PlanStep
<1>5. Allocate => pc = "act" /\ Record /\ ArtifactStep /\ PlanStep
  BY DEF Allocate, ArtifactStep, PlanStep
<1>6. Refine => pc = "act" /\ Record /\ ArtifactStep /\ PlanStep
  BY DEF Refine, ArtifactStep, PlanStep, evidence
<1>7. Pack => pc = "act" /\ Record /\ ArtifactStep /\ PlanStep
  BY DEF Pack, ArtifactStep, PlanStep, evidence
<1>8. PackComplains => pc = "act" /\ Record /\ ArtifactStep /\ PlanStep
  BY DEF PackComplains, ArtifactStep, PlanStep, evidence
<1>9. PulseCheck => pc = "act" /\ Record /\ ArtifactStep /\ PlanStep
  BY DEF PulseCheck, ArtifactStep, PlanStep
<1>10. Verify => pc = "act" /\ Record /\ ArtifactStep /\ PlanStep
  BY DEF Verify, ArtifactStep, PlanStep
<1>11. QED
  BY <1>1, <1>2, <1>3, <1>4, <1>5, <1>6, <1>7, <1>8, <1>9, <1>10 DEF Answered

\* pack_tool (tools.py): a pack, finished or not, is one pack later at most,
\* leaves no manifest outside a directory, and removes none.
LEMMA PackSteps ==
  ASSUME TypeOK, artifact.manifest => artifact.kind = "dir", artifact.pack < MaxSteps,
         artifact' = Packed \/ artifact' \in HalfPacked
  PROVE  /\ artifact' \in [kind : {"absent", "file", "dir"}, manifest : BOOLEAN, pack : Packs]
         /\ artifact'.pack <= artifact.pack + 1
         /\ artifact'.manifest => artifact'.kind = "dir"
         /\ artifact.manifest => artifact'.manifest
<1>1. CASE artifact' = Packed
  BY <1>1, HarnessAssumption DEF TypeOK, Packed, NextPack, Packs
<1>2. CASE artifact' = [artifact EXCEPT !.kind = IF artifact.kind = "file" THEN "absent" ELSE artifact.kind]
  <2>1. artifact.manifest => artifact.kind # "file"
    OBVIOUS
  <2>2. QED
    BY <1>2, <2>1, HarnessAssumption DEF TypeOK, Packs
<1>3. CASE artifact' = [kind |-> "dir", manifest |-> artifact.manifest, pack |-> NextPack]
  BY <1>3, HarnessAssumption DEF TypeOK, NextPack, Packs
<1>4. QED
  BY <1>1, <1>2, <1>3 DEF HalfPacked
-----------------------------------------------------------------------------
(***************************************************************************)
(* The invariant holds at the start and in every step.                     *)
(***************************************************************************)
\* run_autoquant starts with nothing spent, no step taken and no evidence,
\* whatever an earlier run left at artifact_path.
LEMMA LoopInitInv == Init => HarnessInv
<1> SUFFICES ASSUME Init PROVE HarnessInv
  OBVIOUS
<1> USE HarnessAssumption DEF Init, Absent, None
<1>1. TypeOK
  <2>1. artifact \in [kind : {"absent", "file", "dir"}, manifest : BOOLEAN, pack : Packs]
    <3>1. CASE artifact \in [kind : {"dir"}, manifest : BOOLEAN, pack : {0}]
      BY <3>1 DEF Packs
    <3>2. CASE artifact \in {Absent, [kind |-> "file", manifest |-> FALSE, pack |-> 0]}
      <4>1. 0 \in Packs
        BY DEF Packs
      <4>2. artifact = Absent \/ artifact = [kind |-> "file", manifest |-> FALSE, pack |-> 0]
        BY <3>2
      <4>3. Absent \in [kind : {"absent", "file", "dir"}, manifest : BOOLEAN, pack : Packs]
        BY <4>1
      <4>4. [kind |-> "file", manifest |-> FALSE, pack |-> 0]
              \in [kind : {"absent", "file", "dir"}, manifest : BOOLEAN, pack : Packs]
        BY <4>1
      <4>5. QED
        BY <4>2, <4>3, <4>4
    <3>3. QED
      BY <3>1, <3>2
  <2>2. {billed, client, spent} \subseteq 0 .. MaxUsd + MaxCost
    OBVIOUS
  <2>3. {quality, verification} \subseteq {None} \cup [ok : BOOLEAN, of : Packs]
    OBVIOUS
  <2>4. /\ pc = "loop" /\ status = "running" /\ reason = "none" /\ roles = "none"
        /\ step \in 0 .. MaxSteps
    OBVIOUS
  <2>5. expired \in BOOLEAN /\ inspectFits \in BOOLEAN /\ candidate \in BOOLEAN /\ allocation \in BOOLEAN
    OBVIOUS
  <2> HIDE DEF Init, Absent, None
  <2>6. QED
    BY <2>1, <2>2, <2>3, <2>4, <2>5 DEF TypeOK, Reasons
<1>2. StepsInv
  BY DEF StepsInv
<1>3. SpendBounded
  BY DEF SpendBounded
<1>4. VerdictInv
  BY DEF VerdictInv, Active
<1>5. QED
  BY <1>1, <1>2, <1>3, <1>4 DEF HarnessInv

\* What the clock, the head of the loop, a failing call of the reasoner or a
\* request for an unregistered tool leave alone.
Untouched == UNCHANGED <<inspectFits, artifact, step, evidence>>

\* Fail of runner.py: the run returns, failed.
LEMMA FailInv ==
  ASSUME HarnessInv, Active, Untouched, NEW why \in Reasons \ {"none"}, Fail(why),
         expired' \in BOOLEAN,
         {billed', client', spent'} \subseteq 0 .. MaxUsd + MaxCost,
         spent' <= client', client' <= billed', client' <= MaxUsd, billed' - spent' <= MaxCost
  PROVE  HarnessInv'
<1> USE DEF HarnessInv, Untouched, evidence
<1>0. pc' = "returned" /\ status' = "failed" /\ reason' = why
  BY DEF Fail, Finish
<1>1. TypeOK'
  BY <1>0 DEF TypeOK, Packs
<1>2. StepsInv'
  BY <1>0 DEF StepsInv, Active
<1>3. SpendBounded'
  BY <1>0 DEF SpendBounded
<1>4. VerdictInv'
  BY <1>0 DEF VerdictInv, Active
<1>5. QED
  BY <1>1, <1>2, <1>3, <1>4

\* The head of the loop (runner.py): the step limit, then the deadline.
LEMMA LoopInv == ASSUME HarnessInv, Loop PROVE HarnessInv'
<1> USE DEF Loop
<1>1. Untouched /\ Active /\ UNCHANGED <<expired, money>>
  BY DEF Untouched, Active
<1>2. CASE \E why \in {"step_limit_exceeded", "timeout_exceeded"} : Fail(why)
  BY <1>1, <1>2, FailInv DEF HarnessInv, TypeOK, SpendBounded, money, Reasons
<1>3. CASE step < MaxSteps /\ pc' = "ask" /\ UNCHANGED verdict
  <2> USE <1>1, <1>3 DEF HarnessInv, Untouched, evidence, money, verdict
  <2>1. TypeOK'
    BY DEF TypeOK, Packs
  <2>2. StepsInv' /\ SpendBounded' /\ VerdictInv'
    BY DEF StepsInv, SpendBounded, VerdictInv, Active
  <2>3. QED
    BY <2>1, <2>2
<1>4. QED
  BY <1>2, <1>3

\* GratisClient.next_action: what the call costs is booked on the client only
\* below the ceiling, and on the state only when an action comes back.
LEMMA ReasonerInv == ASSUME HarnessInv, Reasoner PROVE HarnessInv'
<1> USE HarnessAssumption
<1>0. /\ billed \in Int /\ client = billed /\ spent = billed
      /\ billed \in 0 .. MaxUsd /\ pc = "ask" /\ Active
  BY DEF HarnessInv, TypeOK, SpendBounded, Reasoner, Ask, AskOverBudget, AskMalformed,
         AskUnavailable, AskRaises, Active
<1>1. CASE Ask
  <2> USE <1>0, <1>1 DEF Ask, HarnessInv, evidence, verdict
  <2>1. PICK cost \in 0 .. MaxCost :
          /\ Affordable(cost)
          /\ billed' = billed + cost /\ client' = client + cost /\ spent' = client'
    OBVIOUS
  <2>2. /\ {billed', client', spent'} \subseteq 0 .. MaxUsd + MaxCost
        /\ client' <= MaxUsd /\ billed' = client' /\ spent' = client'
    BY <2>1 DEF Affordable
  <2>3. TypeOK'
    BY <2>2 DEF TypeOK, Packs
  <2>4. StepsInv' /\ VerdictInv'
    BY DEF StepsInv, VerdictInv, Active
  <2>5. SpendBounded'
    BY <2>2 DEF SpendBounded
  <2>6. QED
    BY <2>3, <2>4, <2>5
<1>2. CASE AskOverBudget
  <2>1. PICK cost \in 0 .. MaxCost : billed' = billed + cost
    BY <1>2 DEF AskOverBudget
  <2>2. /\ {billed', client', spent'} \subseteq 0 .. MaxUsd + MaxCost
        /\ spent' <= client' /\ client' <= billed' /\ client' <= MaxUsd
        /\ billed' - spent' <= MaxCost
    BY <1>0, <1>2, <2>1 DEF AskOverBudget
  <2>3. Untouched /\ expired' \in BOOLEAN /\ Fail("gratis_budget_exhausted")
    BY <1>2 DEF AskOverBudget, Untouched, HarnessInv, TypeOK
  <2>4. QED
    BY <1>0, <2>2, <2>3, FailInv DEF Reasons
<1>3. CASE AskMalformed
  <2>1. PICK cost \in 0 .. MaxCost :
          Affordable(cost) /\ billed' = billed + cost /\ client' = client + cost
    BY <1>3 DEF AskMalformed
  <2>2. /\ {billed', client', spent'} \subseteq 0 .. MaxUsd + MaxCost
        /\ spent' <= client' /\ client' <= billed' /\ client' <= MaxUsd
        /\ billed' - spent' <= MaxCost
    BY <1>0, <1>3, <2>1 DEF AskMalformed, Affordable
  <2>3. Untouched /\ expired' \in BOOLEAN /\ Fail("gratis_unavailable")
    BY <1>3 DEF AskMalformed, Untouched, HarnessInv, TypeOK
  <2>4. QED
    BY <1>0, <2>2, <2>3, FailInv DEF Reasons
<1>4. CASE AskUnavailable
  <2>1. PICK cost \in 0 .. MaxCost : billed' = billed + cost
    BY <1>4 DEF AskUnavailable
  <2>2. /\ {billed', client', spent'} \subseteq 0 .. MaxUsd + MaxCost
        /\ spent' <= client' /\ client' <= billed' /\ client' <= MaxUsd
        /\ billed' - spent' <= MaxCost
    BY <1>0, <1>4, <2>1 DEF AskUnavailable
  <2>3. Untouched /\ expired' \in BOOLEAN /\ Fail("gratis_unavailable")
    BY <1>4 DEF AskUnavailable, Untouched, HarnessInv, TypeOK
  <2>4. QED
    BY <1>0, <2>2, <2>3, FailInv DEF Reasons
<1>5. CASE AskRaises
  <2> USE <1>0, <1>5 DEF AskRaises, Escape, HarnessInv, evidence, verdict
  <2>1. PICK cost \in 0 .. MaxCost :
          /\ billed' = billed + cost
          /\ client' = client \/ (Affordable(cost) /\ client' = client + cost)
    OBVIOUS
  <2>2. /\ {billed', client', spent'} \subseteq 0 .. MaxUsd + MaxCost
        /\ spent' <= client' /\ client' <= billed' /\ client' <= MaxUsd
        /\ billed' - spent' <= MaxCost
    BY <2>1 DEF Affordable
  <2>3. TypeOK'
    BY <2>2 DEF TypeOK, Packs
  <2>4. StepsInv' /\ VerdictInv'
    BY DEF StepsInv, VerdictInv, Active
  <2>5. SpendBounded'
    BY <2>2 DEF SpendBounded
  <2>6. QED
    BY <2>3, <2>4, <2>5
<1>6. QED
  BY <1>1, <1>2, <1>3, <1>4, <1>5 DEF Reasoner

\* An answered call (runner.py, record): the step is booked, the evidence is
\* of the artifact it names, and the gate reads it at once.
LEMMA AnsweredInv == ASSUME HarnessInv, Answered PROVE HarnessInv'
<1> USE HarnessAssumption
<1>0. pc = "act" /\ Active /\ Record /\ ArtifactStep /\ PlanStep
  BY AnsweredSteps DEF Active
<1>1. step' = step + 1 /\ step < MaxSteps /\ artifact.pack <= step
  BY <1>0 DEF Record, HarnessInv, StepsInv
<1>2. UNCHANGED <<expired, inspectFits, billed, client, spent>>
  BY <1>0 DEF Record, money
<1>3. /\ artifact \in [kind : {"absent", "file", "dir"}, manifest : BOOLEAN, pack : Packs]
      /\ {quality, verification} \subseteq {None} \cup [ok : BOOLEAN, of : Packs]
      /\ step \in 0 .. MaxSteps /\ artifact.pack \in Packs
  BY DEF HarnessInv, TypeOK
<1>4. /\ artifact' \in [kind : {"absent", "file", "dir"}, manifest : BOOLEAN, pack : Packs]
      /\ artifact'.pack <= artifact.pack + 1
      /\ artifact'.manifest => artifact'.kind = "dir"
      /\ artifact.manifest => artifact'.manifest
  <2>1. CASE UNCHANGED artifact
    BY <2>1, <1>3 DEF HarnessInv, VerdictInv, Packs
  <2>2. CASE artifact' = Packed \/ artifact' \in HalfPacked
    <3>1. artifact.pack < MaxSteps
      BY <1>1, <1>3 DEF Packs
    <3>2. QED
      BY <2>2, <3>1, PackSteps DEF HarnessInv, VerdictInv
  <2>3. QED
    BY <1>0, <2>1, <2>2 DEF ArtifactStep
<1>5. /\ {quality', verification'} \subseteq {None} \cup [ok : BOOLEAN, of : Packs]
      /\ verification'.ok => artifact'.manifest
  <2>1. CASE UNCHANGED <<quality, verification>>
    BY <2>1, <1>3, <1>4 DEF HarnessInv, VerdictInv
  <2>2. CASE /\ \E met \in BOOLEAN : quality' = Evidence(met, artifact.pack)
             /\ UNCHANGED <<artifact, verification>>
    BY <2>2, <1>3 DEF HarnessInv, VerdictInv, Evidence
  <2>3. CASE /\ \E ok \in BOOLEAN : MayVerify(ok) /\ verification' = Evidence(ok, artifact.pack)
             /\ UNCHANGED <<artifact, quality>>
    BY <2>3, <1>3 DEF MayVerify, Evidence
  <2>4. QED
    BY <1>0, <2>1, <2>2, <2>3 DEF ArtifactStep
<1>6. candidate' \in BOOLEAN /\ allocation' \in BOOLEAN /\ roles' \in {"none", "inspect", "derive"}
  BY <1>0 DEF PlanStep, HarnessInv, TypeOK
<1>7. \/ /\ Gate(verification', quality')
         /\ pc' = "returned" /\ status' = "succeeded" /\ reason' = "none"
      \/ pc' = "loop" /\ UNCHANGED <<status, reason>>
  BY <1>0 DEF Record, Finish, verdict
<1>8. TypeOK'
  <2>1. pc' \in {"loop", "returned"} /\ status' \in {"running", "succeeded"} /\ reason' = "none"
    BY <1>0, <1>7 DEF HarnessInv, TypeOK, VerdictInv
  <2>2. step' \in 0 .. MaxSteps
    BY <1>1, <1>3
  <2>3. QED
    BY <2>1, <2>2, <1>2, <1>4, <1>5, <1>6 DEF HarnessInv, TypeOK, Packs, Reasons
<1>9. StepsInv'
  BY <1>1, <1>3, <1>4, <1>7 DEF StepsInv, Packs
<1>10. SpendBounded'
  BY <1>0, <1>2 DEF HarnessInv, SpendBounded
<1>11. VerdictInv'
  BY <1>0, <1>4, <1>5, <1>7 DEF HarnessInv, VerdictInv, Active, Gate
<1>12. QED
  BY <1>8, <1>9, <1>10, <1>11 DEF HarnessInv

\* An exception of a tool leaves run_autoquant: a pack may be half done, the
\* verdict is still that of a running run, and no report is written.
LEMMA ToolRaisesInv == ASSUME HarnessInv, ToolRaises PROVE HarnessInv'
<1> USE HarnessAssumption
<1>0. /\ pc = "act" /\ pc' = "raised" /\ Active
      /\ UNCHANGED <<expired, inspectFits, step, money, evidence, verdict>>
  BY DEF ToolRaises, Escape, Active, money
<1>1. /\ artifact' \in [kind : {"absent", "file", "dir"}, manifest : BOOLEAN, pack : Packs]
      /\ artifact'.manifest => artifact'.kind = "dir"
      /\ artifact.manifest => artifact'.manifest
  <2>1. CASE UNCHANGED artifact
    BY <2>1 DEF HarnessInv, TypeOK, VerdictInv
  <2>2. CASE artifact' \in HalfPacked
    <3>1. artifact.pack < MaxSteps
      BY <1>0 DEF HarnessInv, StepsInv, TypeOK, Packs
    <3>2. QED
      BY <2>2, <3>1, PackSteps DEF HarnessInv, VerdictInv
  <2>3. QED
    BY <2>1, <2>2 DEF ToolRaises
<1> USE <1>0, <1>1 DEF HarnessInv, money, evidence, verdict
<1>2. TypeOK'
  BY DEF TypeOK, Packs
<1>3. StepsInv' /\ SpendBounded' /\ VerdictInv'
  BY DEF StepsInv, SpendBounded, VerdictInv, Active
<1>4. QED
  BY <1>2, <1>3

\* A request for a tool that is not registered ends the run, failed.
LEMMA UnregisteredInv == ASSUME HarnessInv, Unregistered PROVE HarnessInv'
<1>1. Active /\ Untouched /\ UNCHANGED <<expired, money>> /\ Fail("unregistered_tool")
  BY DEF Unregistered, Active, Untouched
<1>2. QED
  BY <1>1, FailInv DEF HarnessInv, TypeOK, SpendBounded, money, Reasons, Active

\* The deadline passes while the run is busy: nothing else changes.
LEMMA DeadlineInv == ASSUME HarnessInv, Deadline PROVE HarnessInv'
<1> USE DEF Deadline, HarnessInv, money, evidence, verdict
<1>1. TypeOK'
  BY DEF TypeOK, Packs
<1>2. StepsInv' /\ SpendBounded' /\ VerdictInv'
  BY DEF StepsInv, SpendBounded, VerdictInv, Active
<1>3. QED
  BY <1>1, <1>2

\* No action: nothing changes.
LEMMA LoopStutterInv == ASSUME HarnessInv, UNCHANGED vars PROVE HarnessInv'
<1> USE DEF HarnessInv, vars, money, evidence, verdict
<1>1. TypeOK'
  BY DEF TypeOK, Packs
<1>2. StepsInv' /\ SpendBounded' /\ VerdictInv'
  BY DEF StepsInv, SpendBounded, VerdictInv, Active
<1>3. QED
  BY <1>1, <1>2

\* Every step of run_autoquant keeps the invariant.
LEMMA LoopNextInv == HarnessInv /\ [Next]_vars => HarnessInv'
<1> SUFFICES ASSUME HarnessInv, [Next]_vars PROVE HarnessInv'
  OBVIOUS
<1>1. CASE Answered
  BY <1>1, AnsweredInv
<1>2. CASE Tool /\ ~Answered
  BY <1>2, ToolRaisesInv, UnregisteredInv DEF Tool, Answered
<1>3. CASE Deadline \/ Loop \/ Reasoner
  BY <1>3, DeadlineInv, LoopInv, ReasonerInv
<1>4. CASE UNCHANGED vars
  BY <1>4, LoopStutterInv
<1>5. QED
  BY <1>1, <1>2, <1>3, <1>4 DEF Next

\* The invariant of the harness holds in every run of run_autoquant.
LEMMA HarnessInvariant == Spec => []HarnessInv
BY LoopInitInv, LoopNextInv, PTL DEF Spec
-----------------------------------------------------------------------------
\* The fields of HarnessState keep their types, no run takes more than
\* max_steps steps, and a run has failed exactly when it has a reason.
THEOREM TypeCorrect == Spec => []TypeOK
<1>1. HarnessInv => TypeOK
  BY DEF HarnessInv
<1>2. QED
  BY <1>1, HarnessInvariant, PTL

\* GratisClient (gratis.py): what is booked never exceeds --max-usd, the bill
\* exceeds the state's spent_usd by the last call at most, and only in a run
\* that has failed by it or that an exception of the client has ended.
THEOREM SpendingBounded == Spec => []SpendBounded
<1>1. HarnessInv => SpendBounded
  BY DEF HarnessInv
<1>2. QED
  BY <1>1, HarnessInvariant, PTL

\* A run that succeeded leaves a directory with a manifest at artifact_path,
\* however many packs failed half-way after the verification it rests on.
THEOREM SuccessLeavesArtifact == Spec => []SuccessHasArtifact
<1>1. HarnessInv => SuccessHasArtifact
  BY DEF HarnessInv, VerdictInv, SuccessHasArtifact
<1>2. QED
  BY <1>1, HarnessInvariant, PTL
=============================================================================
