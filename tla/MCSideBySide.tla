---------------------------- MODULE MCSideBySide ----------------------------
(***************************************************************************)
(* Instances for TLC of the components that share no variable with each    *)
(* other: the fetch memo, the files published by renaming, a session of    *)
(* packs, the index coders, the trellis quantizer and the bit allocation.  *)
(* Since a step of one disables no step of another, it is enough to look   *)
(* at the runs in which only one of them, the focus, leaves its initial    *)
(* state; what the others would start from is then pinned.                 *)
(***************************************************************************)
EXTENDS FetchMemo, SharedFiles, PackSession, RansCoder, IndexPacking,
        TrellisQuantizer, BitAllocation

VARIABLE focus

all == <<memoVars, fileVars, sessionVars, ransVars, packVars, trellisVars, allocVars>>

(* Streams: all short ones of three symbols, one that lacks symbol 0 and    *)
(* one whose rounded frequencies exceed the table so far that it falls back *)
(* to the peaked one.                                                       *)
ShortStreams == UNION {[1 .. k -> 0 .. 2] : k \in 1 .. 4}
AllStreams == ShortStreams \cup {<<2, 1, 2, 2, 2, 1>>, <<0, 1, 2, 3, 0, 1, 0, 1>>}

RowWeights == {-4, -1, 0, 3}

(* Specs: a coded one with a codebook tax, a planar one of a higher rate    *)
(* and none, and a finer coded one.  Curves: convex, with a jump, with a    *)
(* plateau, and with a spec that is worse than the one before.              *)
SpecTable == <<[rate |-> 1, tax |-> 4], [rate |-> 2, tax |-> 0], [rate |-> 3, tax |-> 2]>>
CurveSet  == {<<12, 6, 1>>, <<9, 8, 1>>, <<5, 5, 0>>, <<4, 6, 1>>}

Init ==
  /\ focus \in {"memo", "files", "session", "rans", "packing", "trellis", "allocation"}
  /\ MemoInit /\ SessionInit
  /\ IF focus # "files" THEN kind = "cache" /\ target = 0 /\ tmpName = 0 ELSE TRUE
  /\ FilesInit
  /\ IF focus # "rans" THEN syms = <<0>> /\ precision = RenormBits ELSE TRUE
  /\ RansInit
  /\ IF focus # "packing"
       THEN count = 1 /\ width = 1 /\ planes = FALSE /\ writeChunk = 8 /\ readChunk = 8
       ELSE TRUE
  /\ PackInit
  /\ IF focus # "trellis" THEN W = <<0>> /\ R = 1 ELSE TRUE
  /\ TrellisInit
  /\ IF focus # "allocation"
       THEN numel = [r \in AllRows |-> 1] /\ distortion = [r \in AllRows |-> <<12, 6, 1>>] /\ budget = 2
       ELSE TRUE
  /\ AllocInit

Next ==
  /\ UNCHANGED focus
  /\ \/ focus = "memo" /\ MemoNext
        /\ UNCHANGED <<fileVars, sessionVars, ransVars, packVars, trellisVars, allocVars>>
     \/ focus = "files" /\ FilesNext
        /\ UNCHANGED <<memoVars, sessionVars, ransVars, packVars, trellisVars, allocVars>>
     \/ focus = "session" /\ SessionNext
        /\ UNCHANGED <<memoVars, fileVars, ransVars, packVars, trellisVars, allocVars>>
     \/ focus = "rans" /\ RansNext
        /\ UNCHANGED <<memoVars, fileVars, sessionVars, packVars, trellisVars, allocVars>>
     \/ focus = "packing" /\ PackNext
        /\ UNCHANGED <<memoVars, fileVars, sessionVars, ransVars, trellisVars, allocVars>>
     \/ focus = "trellis" /\ TrellisNext
        /\ UNCHANGED <<memoVars, fileVars, sessionVars, ransVars, packVars, allocVars>>
     \/ focus = "allocation" /\ AllocNext
        /\ UNCHANGED <<memoVars, fileVars, sessionVars, ransVars, packVars, trellisVars>>

Spec == Init /\ [][Next]_<<focus, all>>
=============================================================================
