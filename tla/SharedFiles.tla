----------------------------- MODULE SharedFiles -----------------------------
(***************************************************************************)
(* Files published by writing a temporary file and renaming it: a codebook *)
(* of the cache (codebook/cache.py) and a single-file container            *)
(* (artifact/container.py).  The temporary name is the target's name with  *)
(* a suffix, so two processes that save the same file share it.            *)
(*                                                                         *)
(* A file is an inode; an open handle, the temporary name and the target   *)
(* name each refer to one.  Savers of one name write the same bytes.       *)
(*                                                                         *)
(* An operator commented "Mutant of X" is a plausible bug in the code of   *)
(* X; no specification uses it.                                            *)
(***************************************************************************)
EXTENDS Integers, Sequences, FiniteSetsExt

CONSTANTS Savers   \* processes, each of which saves the file once

ASSUME SaversAssumption == IsFiniteSet(Savers) /\ Savers # {}

VARIABLES
  kind,            \* fixed: cache or container
  inode,           \* inode -> what is at each region of the file
  tmpName, target, \* the inodes of the two names; 0: there is none
  saver,           \* saver -> look, open, write, saved, failed, hit or dead
  handle,          \* saver -> the inode it has open
  written,         \* saver -> how many writes it has made
  shared           \* two savers had a temporary file open at one time

fileVars == <<kind, inode, tmpName, target, saver, handle, written, shared>>

Inodes == 1 .. Cardinality(Savers) + 2

\* In the order of their offsets.  none: past the end of the file or, before
\* a region that is written, a hole of zeros.  blank: the digest's
\* placeholder.
Regions == {"header", "digest", "body", "tail"}
Nothing == [r \in Regions |-> "none"]
Whole   == [r \in Regions |-> IF r = "digest" /\ kind = "cache" THEN "none" ELSE "good"]

Rewritten(f, rs, what) == [r \in Regions |-> IF r \in rs THEN what ELSE f[r]]

\* The writes of one save.  np.save writes a header and the data, which
\* reach the file in blocks; pack_container streams the payload and then
\* seeks back to fill in the digest.
Writes ==
  IF kind = "cache"
    THEN <<[at |-> {"header"}, blank |-> {}], [at |-> {"body"}, blank |-> {}],
           [at |-> {"tail"}, blank |-> {}]>>
    ELSE <<[at |-> {"header"}, blank |-> {"digest"}], [at |-> {"body"}, blank |-> {}],
           [at |-> {"tail"}, blank |-> {}], [at |-> {"digest"}, blank |-> {}]>>

After(f, w) == Rewritten(Rewritten(f, w.at, "good"), w.blank, "blank")

\* _codebook_cache_load: np.load fails on a file without header or too short.
Parses(f) == f["header"] = "good" /\ f["tail"] # "none"

Leftovers == {Nothing, [Nothing EXCEPT !["header"] = "good"]}

FilesInit ==
  /\ kind \in {"cache", "container"}
  /\ target \in {0, 1} /\ tmpName \in {0, 2}
  \* an earlier save, and the temporary file of one that died
  /\ \E f \in Leftovers :
       inode = [i \in Inodes |-> IF i = target THEN Whole
                                 ELSE IF i = tmpName THEN f ELSE Nothing]
  /\ saver = [p \in Savers |-> "look"]
  /\ handle = [p \in Savers |-> 0] /\ written = [p \in Savers |-> 0]
  /\ shared = FALSE

Turns(p, to) == saver' = [saver EXCEPT ![p] = to]

\* A codebook is fitted and saved only when the cache does not have it.
Look(p) ==
  /\ saver[p] = "look"
  /\ Turns(p, IF kind = "cache" /\ target # 0 /\ Parses(inode[target]) THEN "hit" ELSE "open")
  /\ UNCHANGED <<kind, inode, tmpName, target, handle, written, shared>>

HasOpen(p) == saver[p] = "write"
Free == Min(Inodes \ ({tmpName, target} \cup {handle[p] : p \in {q \in Savers : HasOpen(q)}}))

\* open(tmp, "wb"): truncates the file that has the name or creates one.
OpenTmp(p) ==
  /\ saver[p] = "open"
  /\ LET i == IF tmpName # 0 THEN tmpName ELSE Free IN
     /\ tmpName' = i
     /\ handle' = [handle EXCEPT ![p] = i]
     /\ inode' = [inode EXCEPT ![i] = Nothing]
  /\ Turns(p, "write")
  /\ shared' = (shared \/ \E q \in Savers : HasOpen(q))
  /\ UNCHANGED <<kind, target, written>>

WriteNext(p) ==
  /\ HasOpen(p) /\ written[p] < Len(Writes)
  /\ inode' = [inode EXCEPT ![handle[p]] = After(@, Writes[written[p] + 1])]
  /\ written' = [written EXCEPT ![p] = @ + 1]
  /\ UNCHANGED <<kind, tmpName, target, saver, handle, shared>>

\* Mutant of AllWritten: the file is renamed before its last block is out.
AllButOne(p) == written[p] >= Len(Writes) - 1

AllWritten(p) == written[p] = Len(Writes)

\* tmp.replace(path), tmp.rename(out_file): whatever has the name now.
Rename(p) ==
  /\ HasOpen(p) /\ AllWritten(p)
  /\ IF tmpName = 0
       THEN Turns(p, "failed") /\ UNCHANGED <<tmpName, target>>   \* FileNotFoundError
       ELSE Turns(p, "saved") /\ target' = tmpName /\ tmpName' = 0
  /\ UNCHANGED <<kind, inode, handle, written, shared>>

\* The process dies, or an exception leaves the temporary file behind.
Die(p) ==
  /\ saver[p] \in {"look", "open", "write"}
  /\ Turns(p, "dead")
  /\ UNCHANGED <<kind, inode, tmpName, target, handle, written, shared>>

FilesNext ==
  \E p \in Savers : Look(p) \/ OpenTmp(p) \/ WriteNext(p) \/ Rename(p) \/ Die(p)

FilesSpec == FilesInit /\ [][FilesNext]_fileVars
-----------------------------------------------------------------------------
FilesTypeOK ==
  /\ kind \in {"cache", "container"}
  /\ inode \in [Inodes -> [Regions -> {"none", "blank", "good"}]]
  /\ {tmpName, target} \subseteq {0} \cup Inodes
  /\ saver \in [Savers -> {"look", "open", "write", "saved", "failed", "hit", "dead"}]
  /\ handle \in [Savers -> {0} \cup Inodes]
  /\ written \in [Savers -> 0 .. Len(Writes)] /\ shared \in BOOLEAN

Published == target # 0 => inode[target] = Whole

\* A published file is whole at every moment, whichever savers die, as long
\* as no two of them have the temporary file open together.  When they do, a
\* reader may see a torn file or one with a hole, but once they have all
\* come to an end, none of them dead, the published file is whole again.
PublishedWhole ==
  /\ ~shared => Published /\ \A p \in Savers : saver[p] # "failed"
  /\ (\A p \in Savers : saver[p] \in {"saved", "failed", "hit"}) => target # 0 /\ Published
=============================================================================
