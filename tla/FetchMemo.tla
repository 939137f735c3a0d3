------------------------------ MODULE FetchMemo ------------------------------
(***************************************************************************)
(* The config and shape memos of the UI backend: _memo_get of              *)
(* ui/backend/fetch.py, called by the threads of the server's pool, which  *)
(* share one dict and no lock.  A dict keeps its keys in the order of      *)
(* insertion; between two steps below another thread may run.              *)
(*                                                                         *)
(* An operator commented "Mutant of X" is a plausible bug in the code of   *)
(* X; no specification uses it.                                            *)
(***************************************************************************)
EXTENDS Integers, Sequences, FiniteSets

CONSTANTS
  Threads,    \* of the server's pool
  Models,     \* the keys: (model, has_token)
  NoModel,    \* no key: of a thread without a lookup
  MemoMax     \* _MEMO_MAX

ASSUME MemoAssumption ==
  IsFiniteSet(Threads) /\ NoModel \notin Models /\ MemoMax \in Nat \ {0}

VARIABLES
  memo,    \* the keys of the dict, oldest first
  mpc,     \* where each thread is
  key,     \* thread -> the key it looks up
  size,    \* thread -> len(memo) when it made its iterator
  victim   \* thread -> the key it is about to pop

memoVars == <<memo, mpc, key, size, victim>>

Held == {memo[k] : k \in DOMAIN memo}

MemoInit ==
  /\ memo = <<>>
  /\ mpc = [t \in Threads |-> "idle"]
  /\ key = [t \in Threads |-> NoModel]
  /\ size = [t \in Threads |-> 0]
  /\ victim = [t \in Threads |-> NoModel]

Goes(t, to) == mpc' = [mpc EXCEPT ![t] = to]

\* if key not in memo
Lookup(t) ==
  /\ mpc[t] = "idle"
  /\ \E m \in Models :
       /\ key' = [key EXCEPT ![t] = m]
       /\ Goes(t, IF m \in Held THEN "read" ELSE "room")
  /\ UNCHANGED <<memo, size, victim>>

\* Mutant of Room: the bound is tested one key too late.
RoomLate(t) ==
  /\ mpc[t] = "room"
  /\ Goes(t, IF Len(memo) > MemoMax THEN "iter" ELSE "build")
  /\ UNCHANGED <<memo, key, size, victim>>

\* if len(memo) >= _MEMO_MAX
Room(t) ==
  /\ mpc[t] = "room"
  /\ Goes(t, IF Len(memo) >= MemoMax THEN "iter" ELSE "build")
  /\ UNCHANGED <<memo, key, size, victim>>

Iterate(t) ==
  /\ mpc[t] = "iter"
  /\ size' = [size EXCEPT ![t] = Len(memo)]
  /\ Goes(t, "next")
  /\ UNCHANGED <<memo, key, victim>>

\* next(): an error if the dict is empty or not of the size it had.
Oldest(t) ==
  /\ mpc[t] = "next"
  /\ IF memo = <<>> \/ Len(memo) # size[t]
       THEN Goes(t, "error") /\ UNCHANGED victim
       ELSE Goes(t, "pop") /\ victim' = [victim EXCEPT ![t] = Head(memo)]
  /\ size' = [size EXCEPT ![t] = 0]
  /\ UNCHANGED <<memo, key>>

Place(m) == CHOOSE k \in DOMAIN memo : memo[k] = m
Without(m) == SubSeq(memo, 1, Place(m) - 1) \o SubSeq(memo, Place(m) + 1, Len(memo))

\* memo.pop: a KeyError if the key is gone.
Pop(t) ==
  /\ mpc[t] = "pop"
  /\ IF victim[t] \in Held
       THEN /\ memo' = Without(victim[t])
            /\ Goes(t, "build")
       ELSE Goes(t, "error") /\ UNCHANGED memo
  /\ victim' = [victim EXCEPT ![t] = NoModel]
  /\ UNCHANGED <<key, size>>

\* build() answers or raises.
Build(t) ==
  /\ mpc[t] = "build"
  /\ Goes(t, "store") \/ Goes(t, "refused")
  /\ UNCHANGED <<memo, key, size, victim>>

\* memo[key] = ...: a key that is there keeps its place.
Store(t) ==
  /\ mpc[t] = "store"
  /\ memo' = IF key[t] \in Held THEN memo ELSE Append(memo, key[t])
  /\ Goes(t, "read")
  /\ UNCHANGED <<key, size, victim>>

\* dict(memo[key]): a KeyError if the key was evicted since.
Read(t) ==
  /\ mpc[t] = "read"
  /\ Goes(t, IF key[t] \in Held THEN "served" ELSE "error")
  /\ UNCHANGED <<memo, key, size, victim>>

\* The response is sent and the thread goes back to the pool.
Respond(t) ==
  /\ mpc[t] \in {"served", "error", "refused"}
  /\ Goes(t, "idle")
  /\ key' = [key EXCEPT ![t] = NoModel]
  /\ UNCHANGED <<memo, size, victim>>

MemoStep(t) ==
  \/ Lookup(t) \/ Room(t) \/ Iterate(t) \/ Oldest(t) \/ Pop(t)
  \/ Build(t) \/ Store(t) \/ Read(t) \/ Respond(t)

MemoNext == \E t \in Threads : MemoStep(t)

MemoSpec == MemoInit /\ [][MemoNext]_memoVars
-----------------------------------------------------------------------------
MemoTypeOK ==
  /\ memo \in Seq(Models)
  /\ mpc \in [Threads -> {"idle", "room", "iter", "next", "pop", "build",
                          "store", "read", "served", "error", "refused"}]
  /\ key \in [Threads -> Models \cup {NoModel}]
  /\ \A t \in Threads : mpc[t] # "idle" => key[t] \in Models
  /\ victim \in [Threads -> Models \cup {NoModel}]
  /\ size \in [Threads -> Nat]

\* The threads that will add a key without looking at the bound again.
Building == {t \in Threads : mpc[t] \in {"build", "store"}}

\* "Bounded so a long-lived server cannot grow without limit": however the
\* threads interleave, the memo exceeds its limit by fewer keys than there
\* are threads, and what is being built is already counted.
MemoBounded == Len(memo) + Cardinality(Building) <= MemoMax - 1 + Cardinality(Threads)
=============================================================================
