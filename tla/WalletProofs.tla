---------------------------- MODULE WalletProofs ----------------------------
(* Proofs about Wallet, for any references, users, calls, readers, faults. *)
EXTENDS Wallet, TLAPS

LEMMA InitIInv == Init => IInv
<1> SUFFICES ASSUME Init PROVE IInv
  OBVIOUS
<1>1. TypeOK
  BY DEF Init, TypeOK, Types, Places
<1>2. LockOK
  BY DEF Init, LockOK
<1>3. FetchedOK /\ StaleOnlyForACause
  BY DEF Init, FetchedOK, StaleOnlyForACause, Stale
<1> QED BY <1>1, <1>2, <1>3 DEF IInv

(* Steps that touch neither the rows nor the cached lists, nor take a       *)
(* pending Invalidate away.                                                 *)
LEMMA ListsKept ==
    ASSUME IInv, UNCHANGED <<rows, cache, reading, fetched, overtaken, excused>>,
           \A c \in Calls : at[c] = "invalidate" => at'[c] = "invalidate" /\ ref'[c] = ref[c]
    PROVE  FetchedOK' /\ StaleOnlyForACause'
<1>1. \A u : RowsOf(u)' = RowsOf(u)
  BY DEF RowsOf
<1>2. FetchedOK'
  BY <1>1 DEF IInv, FetchedOK
<1>3. ASSUME NEW u \in Users, Stale(u)' PROVE Pending(u)' \/ u \in excused'
  <2>1. Pending(u) \/ u \in excused
    BY <1>1, <1>3 DEF IInv, StaleOnlyForACause, Stale
  <2> QED BY <2>1 DEF Pending
<1> QED BY <1>2, <1>3 DEF StaleOnlyForACause

(* Steps that leave the calls, the lock and the store alone. *)
LEMMA OthersKeepLockOK ==
    ASSUME LockOK, UNCHANGED <<balance, rows, lock, at, type, ref, read, isNew>>
    PROVE  LockOK'
BY DEF LockOK, Holds, PreparedOK

(* What a call leaves behind when it returns. *)
LEMMA LeaveEffect ==
    ASSUME TypeOK, NEW c \in Calls, Leave(c)
    PROVE  /\ at' \in [Calls -> Places] /\ type' \in [Calls -> Types]
           /\ ref' \in [Calls -> References \cup {NoReference}]
           /\ read' \in [Calls -> Nat] /\ isNew' \in [Calls -> BOOLEAN]
           /\ at'[c] = "idle"
           /\ \A d \in Calls : d # c =>
                 /\ at'[d] = at[d] /\ type'[d] = type[d] /\ ref'[d] = ref[d]
                 /\ read'[d] = read[d] /\ isNew'[d] = isNew[d]
<1>1. at' \in [Calls -> Places] /\ at'[c] = "idle"
  BY DEF Leave, TypeOK, Places
<1>2. type' \in [Calls -> Types] /\ ref' \in [Calls -> References \cup {NoReference}]
  BY DEF Leave, TypeOK, Types
<1>3. read' \in [Calls -> Nat] /\ isNew' \in [Calls -> BOOLEAN]
  BY DEF Leave, TypeOK
<1>4. \A d \in Calls : d # c =>
          /\ at'[d] = at[d] /\ type'[d] = type[d] /\ ref'[d] = ref[d]
          /\ read'[d] = read[d] /\ isNew'[d] = isNew[d]
  BY DEF Leave, TypeOK
<1> QED BY <1>1, <1>2, <1>3, <1>4

(* Letting go of one's own locks leaves the locks of the others alone. *)
LEMMA UnlockEffect ==
    ASSUME TypeOK, NEW c \in Calls, Unlock(c)
    PROVE  /\ lock' \in [Users -> Calls \cup {NoCall}]
           /\ \A u \in Users : lock[u] # c => lock'[u] = lock[u]
BY DEF Unlock, TypeOK

(* Calls that hold a lock hold different ones. *)
LEMMA LocksDiffer ==
    ASSUME IInv, NEW c \in Calls, NEW d \in Calls, c # d,
           at[c] \in {"find", "commit"}, at[d] \in {"find", "commit"}
    PROVE  Owner[ref[c]] # Owner[ref[d]]
BY DEF IInv, LockOK, Holds

LEMMA RollbackIInv ==
    ASSUME IInv, NEW c \in Calls, at[c] # "invalidate", Rollback(c) PROVE IInv'
<1>1. /\ Unlock(c) /\ Leave(c)
      /\ UNCHANGED <<wallets, balance, rows, cache, reading, fetched, overtaken, excused>>
  BY DEF Rollback, store, list
<1>2. TypeOK'
  BY <1>1, LeaveEffect, UnlockEffect DEF IInv, TypeOK
<1>3. LockOK'
  <2> SUFFICES ASSUME NEW d \in Calls
               PROVE  /\ at'[d] \in {"find", "commit"} => Holds(d)'
                      /\ at'[d] = "commit" => PreparedOK(d)'
                      /\ at'[d] # "idle" => ref'[d] \in References
    BY DEF LockOK
  <2>1. CASE d = c
    BY <1>1, <2>1, LeaveEffect DEF IInv
  <2>2. CASE d # c
    <3>1. /\ at'[d] = at[d] /\ type'[d] = type[d] /\ ref'[d] = ref[d]
          /\ read'[d] = read[d] /\ isNew'[d] = isNew[d]
      BY <1>1, <2>2, LeaveEffect DEF IInv
    <3>2. at[d] \in {"find", "commit"} =>
              Owner[ref[d]] \in Users /\ lock[Owner[ref[d]]] = d
      BY WalletAssumption DEF IInv, LockOK, Holds
    <3>3. at[d] \in {"find", "commit"} => lock'[Owner[ref[d]]] = d
      BY <1>1, <2>2, <3>2, UnlockEffect DEF IInv
    <3> QED BY <1>1, <3>1, <3>3 DEF IInv, LockOK, Holds, PreparedOK
  <2> QED BY <2>1, <2>2
<1>4. FetchedOK' /\ StaleOnlyForACause'
  BY <1>1, LeaveEffect, ListsKept DEF IInv
<1> QED BY <1>2, <1>3, <1>4 DEF IInv

LEMMA BeginIInv ==
    ASSUME IInv, NEW c \in Calls, NEW what \in Types, NEW f \in References, Begin(c, what, f)
    PROVE  IInv'
<1>1. /\ at[c] = "idle"
      /\ at' = [at EXCEPT ![c] = "lock"] /\ type' = [type EXCEPT ![c] = what]
      /\ ref' = [ref EXCEPT ![c] = f]
      /\ UNCHANGED <<wallets, balance, rows, lock, read, isNew, cache, reading, fetched, overtaken, excused>>
  BY DEF Begin, store, list
<1>2. TypeOK'
  BY <1>1 DEF IInv, TypeOK, Places
<1>3. LockOK'
  BY <1>1 DEF IInv, TypeOK, LockOK, Holds, PreparedOK
<1>4. FetchedOK' /\ StaleOnlyForACause'
  <2>1. \A d \in Calls : d # c => at'[d] = at[d] /\ ref'[d] = ref[d]
    BY <1>1 DEF IInv, TypeOK
  <2> QED BY <1>1, <2>1, ListsKept
<1> QED BY <1>2, <1>3, <1>4 DEF IInv

LEMMA GetWalletForUpdateIInv ==
    ASSUME IInv, NEW c \in Calls, GetWalletForUpdate(c) PROVE IInv'
<1> DEFINE u == Owner[ref[c]]
<1>1. /\ at[c] = "lock" /\ lock[u] = NoCall
      /\ lock' = [lock EXCEPT ![u] = c] /\ read' = [read EXCEPT ![c] = balance[u]]
      /\ at' = [at EXCEPT ![c] = "find"]
      /\ UNCHANGED <<wallets, balance, rows, type, ref, isNew, cache, reading, fetched, overtaken, excused>>
  BY DEF GetWalletForUpdate, store, list
<1>2. ref[c] \in References /\ u \in Users
  BY <1>1, WalletAssumption DEF IInv, LockOK
<1>3. TypeOK'
  BY <1>1, <1>2 DEF IInv, TypeOK, Places
<1>4. ASSUME NEW d \in Calls
      PROVE  /\ at'[d] \in {"find", "commit"} => Holds(d)'
             /\ at'[d] = "commit" => PreparedOK(d)'
             /\ at'[d] # "idle" => ref'[d] \in References
  <2>1. CASE d = c
    BY <1>1, <1>2, <2>1 DEF IInv, TypeOK, Holds
  <2>2. CASE d # c
    <3>1. at'[d] = at[d] /\ read'[d] = read[d]
      BY <1>1, <2>2 DEF IInv, TypeOK
    <3>2. at[d] \in {"find", "commit"} => lock[Owner[ref[d]]] = d /\ Owner[ref[d]] \in Users
      BY WalletAssumption DEF IInv, LockOK, Holds
    <3>3. at[d] \in {"find", "commit"} => lock'[Owner[ref[d]]] = d
      BY <1>1, <3>2, WalletAssumption DEF IInv, TypeOK
    <3> QED BY <1>1, <3>1, <3>3 DEF IInv, LockOK, Holds, PreparedOK
  <2> QED BY <2>1, <2>2
<1>5. LockOK'
  BY <1>4 DEF LockOK
<1>6. FetchedOK' /\ StaleOnlyForACause'
  <2>1. \A d \in Calls : d # c => at'[d] = at[d]
    BY <1>1 DEF IInv, TypeOK
  <2> QED BY <1>1, <2>1, ListsKept
<1> QED BY <1>3, <1>5, <1>6 DEF IInv

LEMMA PrepareIInv == ASSUME IInv, NEW c \in Calls, Prepare(c) PROVE IInv'
<1>1. CASE Rollback(c)
  BY <1>1, RollbackIInv DEF Prepare
<1>2. CASE ~Rollback(c)
  <2>1. /\ at[c] = "find"
        /\ ~(<<type[c], ref[c]>> \notin rows /\ type[c] = "debit" /\ read[c] < Amount[ref[c]])
        /\ isNew' = [isNew EXCEPT ![c] = <<type[c], ref[c]>> \notin rows]
        /\ at' = [at EXCEPT ![c] = "commit"]
        /\ UNCHANGED <<wallets, balance, rows, lock, type, ref, read, cache, reading, fetched, overtaken, excused>>
    BY <1>2 DEF Prepare, store, list
  <2>2. Holds(c) /\ ref[c] \in References
    BY <2>1 DEF IInv, LockOK
  <2>3. TypeOK'
    <3>1. at' \in [Calls -> Places]
      BY <2>1 DEF IInv, TypeOK, Places
    <3>2. isNew' \in [Calls -> BOOLEAN]
      BY <2>1, Zenon DEF IInv, TypeOK
    <3> QED BY <2>1, <3>1, <3>2 DEF IInv, TypeOK
  <2>4. read[c] \in Nat /\ Amount[ref[c]] \in Nat
    BY <2>2, WalletAssumption DEF IInv, TypeOK
  <2>5. isNew'[c] => <<type[c], ref[c]>> \notin rows
    BY <2>1, Zenon DEF IInv, TypeOK
  <2>6. PreparedOK(c)'
    BY <2>1, <2>4, <2>5 DEF PreparedOK
  <2>7. \A d \in Calls : d # c => at'[d] = at[d] /\ isNew'[d] = isNew[d]
    BY <2>1 DEF IInv, TypeOK
  <2>8. LockOK'
    BY <2>1, <2>2, <2>6, <2>7 DEF IInv, TypeOK, LockOK, Holds, PreparedOK
  <2>9. FetchedOK' /\ StaleOnlyForACause'
    BY <2>1, <2>7, ListsKept
  <2> QED BY <2>3, <2>8, <2>9 DEF IInv
<1> QED BY <1>1, <1>2
(* The COMMIT of a call that has something to write. *)
LEMMA CommitEffect ==
    ASSUME IInv, NEW c \in Calls, at[c] = "commit", isNew[c], Commit(c)
    PROVE  LET u == Owner[ref[c]] IN
           /\ ref[c] \in References /\ u \in Users /\ lock[u] = c
           /\ <<type[c], ref[c]>> \notin rows
           /\ rows' = rows \cup {<<type[c], ref[c]>>}
           /\ balance' = [balance EXCEPT ![u] = NewBalance(c)]
           /\ NewBalance(c) = IF type[c] = "debit" THEN balance[u] - Amount[ref[c]]
                                                   ELSE balance[u] + Amount[ref[c]]
           /\ type[c] = "debit" => balance[u] >= Amount[ref[c]]
           /\ NewBalance(c) \in Nat
<1> DEFINE u == Owner[ref[c]]
<1>1. Holds(c) /\ PreparedOK(c)
  BY DEF IInv, LockOK
<1>2. /\ ref[c] \in References /\ u \in Users /\ lock[u] = c /\ read[c] = balance[u]
      /\ <<type[c], ref[c]>> \notin rows
      /\ type[c] = "debit" => read[c] >= Amount[ref[c]]
  BY <1>1, WalletAssumption DEF Holds, PreparedOK
<1>3. balance[u] \in Nat /\ Amount[ref[c]] \in Nat
  BY <1>2, WalletAssumption DEF IInv, TypeOK
<1>4. /\ rows' = rows \cup {<<type[c], ref[c]>>}
      /\ balance' = [balance EXCEPT ![u] = NewBalance(c)]
  BY DEF Commit
<1>5. NewBalance(c) = IF type[c] = "debit" THEN balance[u] - Amount[ref[c]]
                                           ELSE balance[u] + Amount[ref[c]]
  BY <1>2 DEF NewBalance
<1>6. NewBalance(c) \in Nat
  BY <1>2, <1>3, <1>5
<1> QED BY <1>2, <1>4, <1>5, <1>6

(* A COMMIT makes the lists of one wallet old: the readers that have        *)
(* fetched one are overtaken, and its Invalidate follows or is excused.     *)
LEMMA FinishLists ==
    ASSUME IInv, NEW c \in Calls, Finish(c), ~Rollback(c)
    PROVE  FetchedOK' /\ StaleOnlyForACause'
<1> DEFINE w == Owner[ref[c]]
<1>1. /\ at[c] = "commit" /\ Commit(c)
      /\ \/ /\ isNew[c] /\ at' = [at EXCEPT ![c] = "invalidate"] /\ ref' = ref
            /\ excused \subseteq excused'
         \/ /\ Leave(c) /\ excused \subseteq excused'
            /\ isNew[c] => w \in excused'
      /\ UNCHANGED <<cache, reading, fetched>>
  BY DEF Finish, Invalidates, Ends
<1>2. \A u : u # w \/ ~isNew[c] => RowsOf(u)' = RowsOf(u)
  BY <1>1 DEF Commit, RowsOf
<1>3. /\ overtaken \subseteq overtaken'
      /\ isNew[c] => \A r \in Readers : Overtakes(c, r) => r \in overtaken'
  BY <1>1 DEF Commit
<1>4. FetchedOK'
  BY <1>1, <1>2, <1>3 DEF IInv, FetchedOK, Overtakes
<1>5. \A d \in Calls : at[d] = "invalidate" => at'[d] = "invalidate" /\ ref'[d] = ref[d]
  BY <1>1, LeaveEffect DEF IInv, TypeOK
<1>6. ASSUME NEW u \in Users, Stale(u)' PROVE Pending(u)' \/ u \in excused'
  <2>1. CASE u = w /\ isNew[c]
    <3>1. at' = [at EXCEPT ![c] = "invalidate"] /\ ref' = ref => Pending(u)'
      BY <2>1 DEF Pending, IInv, TypeOK
    <3> QED BY <1>1, <2>1, <3>1
  <2>2. CASE u # w \/ ~isNew[c]
    <3>1. Pending(u) \/ u \in excused
      BY <1>1, <1>2, <1>6, <2>2 DEF IInv, StaleOnlyForACause, Stale
    <3> QED BY <1>1, <1>5, <3>1 DEF Pending
  <2> QED BY <2>1, <2>2
<1> QED BY <1>4, <1>6 DEF StaleOnlyForACause

LEMMA FinishIInv == ASSUME IInv, NEW c \in Calls, Finish(c) PROVE IInv'
<1>1. CASE Rollback(c)
  BY <1>1, RollbackIInv DEF Finish
<1>2. CASE ~Rollback(c)
  <2>1. /\ at[c] = "commit" /\ Commit(c) /\ Unlock(c)
        /\ \/ /\ at' = [at EXCEPT ![c] = "invalidate"]
              /\ UNCHANGED <<type, ref, read, isNew>>
           \/ Leave(c)
        /\ excused' \subseteq excused \cup {Owner[ref[c]]}
        /\ UNCHANGED <<wallets, cache, reading, fetched>>
    BY <1>2 DEF Finish
  <2>2. /\ at' \in [Calls -> Places] /\ type' \in [Calls -> Types]
        /\ ref' \in [Calls -> References \cup {NoReference}]
        /\ read' \in [Calls -> Nat] /\ isNew' \in [Calls -> BOOLEAN]
        /\ at'[c] = "idle" \/ (at'[c] = "invalidate" /\ ref'[c] = ref[c])
        /\ \A d \in Calls : d # c =>
              /\ at'[d] = at[d] /\ type'[d] = type[d] /\ ref'[d] = ref[d]
              /\ read'[d] = read[d] /\ isNew'[d] = isNew[d]
    <3>1. CASE Leave(c)
      BY <3>1, LeaveEffect DEF IInv
    <3>2. CASE ~Leave(c)
      BY <2>1, <3>2 DEF IInv, TypeOK, Places
    <3> QED BY <3>1, <3>2
  <2>3. ref[c] \in References /\ lock[Owner[ref[c]]] = c
    BY <2>1 DEF IInv, LockOK, Holds
  <2>4. /\ balance' \in [Users -> Nat] /\ rows' \subseteq AllRows
        /\ \A u \in Users : u # Owner[ref[c]] => balance'[u] = balance[u]
        /\ \A t \in rows' : t \in rows \/ t = <<type[c], ref[c]>>
    <3>1. CASE isNew[c]
      <4> DEFINE n == NewBalance(c)
                 t == <<type[c], ref[c]>>
      <4>1. /\ ref[c] \in References /\ n \in Nat
            /\ rows' = rows \cup {t} /\ balance' = [balance EXCEPT ![Owner[ref[c]]] = n]
        BY <2>1, <3>1, CommitEffect
      <4>2. t \in AllRows
        BY <4>1 DEF IInv, TypeOK, AllRows
      <4>3. balance \in [Users -> Nat] /\ rows \subseteq AllRows
        BY DEF IInv, TypeOK
      <4> HIDE DEF n, t
      <4>4. balance' \in [Users -> Nat] /\ \A u \in Users : u # Owner[ref[c]] => balance'[u] = balance[u]
        BY <4>1, <4>3
      <4>5. rows' \subseteq AllRows /\ \A x \in rows' : x \in rows \/ x = t
        BY <4>1, <4>2, <4>3
      <4> QED BY <4>4, <4>5 DEF t
    <3>2. CASE ~isNew[c]
      BY <2>1, <3>2 DEF Commit, IInv, TypeOK
    <3> QED BY <3>1, <3>2
  <2>5. TypeOK'
    <3>1. overtaken' \subseteq Readers /\ excused' \subseteq Users
      BY <2>1, <2>3, WalletAssumption DEF Commit, IInv, TypeOK
    <3> QED BY <2>1, <2>2, <2>4, <3>1, UnlockEffect DEF IInv, TypeOK
  <2>6. ASSUME NEW d \in Calls
        PROVE  /\ at'[d] \in {"find", "commit"} => Holds(d)'
               /\ at'[d] = "commit" => PreparedOK(d)'
               /\ at'[d] # "idle" => ref'[d] \in References
    <3>1. CASE d = c
      BY <2>2, <2>3, <3>1
    <3>2. CASE d # c
      <4>1. /\ at'[d] = at[d] /\ type'[d] = type[d] /\ ref'[d] = ref[d]
            /\ read'[d] = read[d] /\ isNew'[d] = isNew[d]
        BY <2>2, <3>2
      <4>2. ASSUME at[d] \in {"find", "commit"}
            PROVE  /\ ref[d] \in References /\ Owner[ref[d]] \in Users
                   /\ lock[Owner[ref[d]]] = d /\ read[d] = balance[Owner[ref[d]]]
                   /\ Owner[ref[d]] # Owner[ref[c]] /\ ref[d] # ref[c]
        BY <2>1, <3>2, <4>2, LocksDiffer, WalletAssumption DEF IInv, LockOK, Holds
      <4>3. at[d] \in {"find", "commit"} => Holds(d)'
        BY <2>1, <2>4, <3>2, <4>1, <4>2, UnlockEffect DEF Holds, IInv
      <4>4. at[d] = "commit" /\ isNew[d] => <<type[d], ref[d]>> \notin rows'
        BY <2>4, <4>2 DEF IInv, LockOK, PreparedOK
      <4>5. at[d] = "commit" => PreparedOK(d)'
        BY <4>1, <4>4 DEF IInv, LockOK, PreparedOK
      <4> QED BY <4>1, <4>3, <4>5 DEF IInv, LockOK
    <3> QED BY <3>1, <3>2
  <2>7. LockOK'
    BY <2>6 DEF LockOK
  <2>8. FetchedOK' /\ StaleOnlyForACause'
    BY <1>2, FinishLists DEF IInv
  <2> QED BY <2>5, <2>7, <2>8 DEF IInv
<1> QED BY <1>1, <1>2

LEMMA InvalidateIInv == ASSUME IInv, NEW c \in Calls, Invalidate(c) PROVE IInv'
<1>1. /\ at[c] = "invalidate" /\ Leave(c)
      /\ UNCHANGED <<wallets, balance, rows, lock, reading, fetched, overtaken>>
  BY DEF Invalidate, store
<1>2. cache' \in [Users -> (SUBSET AllRows) \cup {NoEntry}] /\ excused' \subseteq Users
  <2>1. Owner[ref[c]] \in Users
    BY <1>1, WalletAssumption DEF IInv, LockOK
  <2> QED BY <2>1 DEF Invalidate, IInv, TypeOK
<1>3. TypeOK'
  BY <1>1, <1>2, LeaveEffect DEF IInv, TypeOK
<1>4. LockOK'
  BY <1>1, LeaveEffect DEF IInv, LockOK, Holds, PreparedOK
<1>5. FetchedOK'
  BY <1>1 DEF IInv, FetchedOK, RowsOf
<1>6. ASSUME NEW u \in Users, Stale(u)' PROVE Pending(u)' \/ u \in excused'
  <2>1. CASE u = Owner[ref[c]]
    BY <1>6, <2>1 DEF Invalidate, Stale, IInv, TypeOK
  <2>2. CASE u # Owner[ref[c]]
    <3>1. cache'[u] = cache[u] /\ (u \in excused => u \in excused') /\ rows' = rows
      BY <1>1, <2>2 DEF Invalidate, IInv, TypeOK
    <3>2. Pending(u) \/ u \in excused
      BY <1>6, <3>1 DEF IInv, StaleOnlyForACause, Stale, RowsOf
    <3>3. \A d \in Calls : d # c => at'[d] = at[d] /\ ref'[d] = ref[d]
      BY <1>1, LeaveEffect DEF IInv
    <3> QED BY <2>2, <3>1, <3>2, <3>3 DEF Pending
  <2> QED BY <2>1, <2>2
<1>7. StaleOnlyForACause'
  BY <1>6 DEF StaleOnlyForACause
<1> QED BY <1>3, <1>4, <1>5, <1>7 DEF IInv

(* Readers, the TTL, new wallets and a crash. *)
(* A list is saved whole or excused; one that goes takes its excuse along.  *)
LEMMA OthersLists ==
    ASSUME IInv,
           \/ \E u \in Users : CreateWallet(u) \/ Expire(u)
           \/ \E r \in Readers : (\E u \in Users : Miss(r, u)) \/ Query(r) \/ SetRecent(r)
    PROVE  FetchedOK' /\ StaleOnlyForACause'
<1>1. UNCHANGED <<rows, at, ref>>
  BY DEF CreateWallet, Expire, Miss, Query, SetRecent, store, call
<1>2. (\A u : RowsOf(u)' = RowsOf(u)) /\ (\A u : Pending(u)' = Pending(u))
  BY <1>1 DEF RowsOf, Pending
<1>3. ASSUME NEW u \in Users, CreateWallet(u) PROVE FetchedOK' /\ StaleOnlyForACause'
  BY <1>1, <1>3, ListsKept DEF CreateWallet, list
<1>4. ASSUME NEW u \in Users, Expire(u) PROVE FetchedOK' /\ StaleOnlyForACause'
  BY <1>2, <1>4 DEF Expire, IInv, TypeOK, FetchedOK, StaleOnlyForACause, Stale
<1>5. ASSUME NEW r \in Readers, NEW u \in Users, Miss(r, u) PROVE FetchedOK' /\ StaleOnlyForACause'
  BY <1>2, <1>5 DEF Miss, IInv, TypeOK, FetchedOK, StaleOnlyForACause, Stale
<1>6. ASSUME NEW r \in Readers, Query(r) PROVE FetchedOK' /\ StaleOnlyForACause'
  <2>1. StaleOnlyForACause'
    BY <1>2, <1>6 DEF Query, IInv, StaleOnlyForACause, Stale
  <2>2. FetchedOK'
    BY <1>2, <1>6 DEF Query, IInv, TypeOK, FetchedOK
  <2> QED BY <2>1, <2>2
<1>7. ASSUME NEW r \in Readers, SetRecent(r) PROVE FetchedOK' /\ StaleOnlyForACause'
  <2>1. FetchedOK'
    BY <1>2, <1>7 DEF SetRecent, IInv, TypeOK, FetchedOK
  <2>2. ASSUME NEW u \in Users, Stale(u)' PROVE Pending(u)' \/ u \in excused'
    <3>1. CASE cache'[u] = cache[u] /\ (u \in excused => u \in excused')
      BY <1>2, <2>2, <3>1 DEF IInv, StaleOnlyForACause, Stale
    <3>2. CASE ~(cache'[u] = cache[u] /\ (u \in excused => u \in excused'))
      <4>1. /\ u = reading[r] /\ cache'[u] = fetched[r] /\ fetched[r] # NoEntry
            /\ r \in overtaken => u \in excused'
        BY <1>7, <3>2 DEF SetRecent, IInv, TypeOK
      <4>2. CASE r \notin overtaken
        BY <1>2, <2>2, <4>1, <4>2 DEF IInv, FetchedOK, Stale
      <4> QED BY <4>1, <4>2
    <3> QED BY <3>1, <3>2
  <2> QED BY <2>1, <2>2 DEF StaleOnlyForACause
<1> QED BY <1>3, <1>4, <1>5, <1>6, <1>7

LEMMA OthersIInv ==
    ASSUME IInv,
           \/ \E u \in Users : CreateWallet(u) \/ Expire(u)
           \/ \E r \in Readers : (\E u \in Users : Miss(r, u)) \/ Query(r) \/ SetRecent(r)
    PROVE  IInv'
<1>1. UNCHANGED <<balance, rows, lock, at, type, ref, read, isNew>>
  BY DEF CreateWallet, Expire, Miss, Query, SetRecent, store, call
<1>2. LockOK'
  BY <1>1, OthersKeepLockOK DEF IInv
<1>3. ASSUME NEW u \in Users, CreateWallet(u) PROVE TypeOK'
  BY <1>3 DEF IInv, TypeOK, CreateWallet, call, list
<1>4. ASSUME NEW u \in Users, Expire(u) PROVE TypeOK'
  BY <1>4 DEF IInv, TypeOK, Expire, store, call
<1>5. ASSUME NEW r \in Readers, NEW u \in Users, Miss(r, u) PROVE TypeOK'
  BY <1>5 DEF IInv, TypeOK, Miss, store, call
<1>6. ASSUME NEW r \in Readers, Query(r) PROVE TypeOK'
  <2>1. RowsOf(reading[r]) \subseteq AllRows
    BY DEF RowsOf, IInv, TypeOK
  <2>2. fetched' \in [Readers -> (SUBSET AllRows) \cup {NoEntry}]
    BY <1>6, <2>1 DEF Query, IInv, TypeOK
  <2>3. reading' \in [Readers -> Users \cup {NoEntry}]
    BY <1>6 DEF Query, IInv, TypeOK
  <2> QED BY <1>6, <2>2, <2>3 DEF IInv, TypeOK, Query, store, call
<1>7. ASSUME NEW r \in Readers, SetRecent(r) PROVE TypeOK'
  <2>1. cache' \in [Users -> (SUBSET AllRows) \cup {NoEntry}]
    BY <1>7 DEF SetRecent, IInv, TypeOK
  <2>2. fetched[r] # NoEntry => reading[r] # NoEntry
    BY DEF IInv, FetchedOK
  <2>3. overtaken' \subseteq Readers /\ excused' \subseteq Users
    BY <1>7, <2>2 DEF SetRecent, IInv, TypeOK
  <2> QED BY <1>7, <2>1, <2>3 DEF IInv, TypeOK, SetRecent, store, call
<1>8. TypeOK'
  BY <1>3, <1>4, <1>5, <1>6, <1>7
<1>9. FetchedOK' /\ StaleOnlyForACause'
  BY OthersLists
<1> QED BY <1>2, <1>8, <1>9 DEF IInv

LEMMA CrashIInv == ASSUME IInv, Crash PROVE IInv'
<1>1. TypeOK'
  BY DEF IInv, TypeOK, Crash, store, Places, Types
<1>2. LockOK'
  BY DEF LockOK, Crash
<1>3. FetchedOK'
  BY DEF FetchedOK, Crash
<1>4. StaleOnlyForACause'
  BY DEF IInv, StaleOnlyForACause, Stale, RowsOf, Crash, store
<1> QED BY <1>1, <1>2, <1>3, <1>4 DEF IInv

LEMMA NextIInv == IInv /\ [Next]_vars => IInv'
<1> SUFFICES ASSUME IInv, [Next]_vars PROVE IInv'
  OBVIOUS
<1>1. ASSUME NEW c \in Calls, Charge(c) \/ Refund(c) PROVE IInv'
  BY <1>1, BeginIInv DEF Charge, Refund, Types
<1>2. ASSUME NEW c \in Calls, Proceed(c) \/ Fail(c) PROVE IInv'
  BY <1>2, GetWalletForUpdateIInv, RollbackIInv, PrepareIInv, FinishIInv, InvalidateIInv
  DEF Proceed, FindNoWallet, Fail
<1>3. CASE UNCHANGED vars
  BY <1>3 DEF vars, IInv, TypeOK, LockOK, Holds, PreparedOK, FetchedOK,
     StaleOnlyForACause, Stale, Pending, RowsOf
<1> QED BY <1>1, <1>2, <1>3, OthersIInv, CrashIInv DEF Next

(* What the theorems below rest on. *)
THEOREM InductiveInvariant == Spec => []IInv
BY InitIInv, NextIInv, PTL DEF Spec

(* Every variable keeps its type; no balance ever becomes negative, however *)
(* many charges run at once on a wallet.                                    *)
THEOREM TypeCorrect == Spec => []TypeOK
<1>1. IInv => TypeOK
  BY DEF IInv
<1> QED BY <1>1, InductiveInvariant, PTL

(* The row lock keeps every insert from losing the race on the unique       *)
(* constraint, so CreateTransaction's refetch is never needed.              *)
THEOREM InsertNeverRaces == Spec => []NeverLosesTheRace
<1>1. IInv => NeverLosesTheRace
  BY LocksDiffer DEF IInv, LockOK, PreparedOK, NeverLosesTheRace
<1> QED BY <1>1, InductiveInvariant, PTL

(* list_transactions.go, charge.go, refund.go: a cached list that is not    *)
(* the list has its Invalidate still to come, or one of four causes.        *)
THEOREM StaleHasACause == Spec => []StaleOnlyForACause
<1>1. IInv => StaleOnlyForACause
  BY DEF IInv
<1> QED BY <1>1, InductiveInvariant, PTL

(***************************************************************************)
(* Refinement: the only step the ledger can see is Finish.                 *)
(***************************************************************************)

LEMMA InitRefines == Init => L!LedgerInit
BY DEF Init, L!LedgerInit, Count

(* A row that appears is counted, and no other. *)
LEMMA CountEffect ==
    ASSUME NEW k \in Types, NEW f \in References,
           <<k, f>> \notin rows, rows' = rows \cup {<<k, f>>}
    PROVE  /\ Count(<<k, f>>) = 0
           /\ [g \in References |-> Count(<<k, g>>)]'
                 = [[g \in References |-> Count(<<k, g>>)] EXCEPT ![f] = @ + 1]
           /\ \A j \in Types \ {k} : [g \in References |-> Count(<<j, g>>)]'
                                        = [g \in References |-> Count(<<j, g>>)]
<1>1. Count(<<k, f>>) = 0 /\ Count(<<k, f>>)' = 1
  BY DEF Count
<1>2. ASSUME NEW j \in Types, NEW g \in References, j # k \/ g # f
      PROVE  Count(<<j, g>>)' = Count(<<j, g>>)
  <2>1. <<j, g>> # <<k, f>>
    BY <1>2
  <2>2. <<j, g>> \in rows' <=> <<j, g>> \in rows
    BY <2>1
  <2> QED BY <2>2 DEF Count
<1> DEFINE F == [g \in References |-> Count(<<k, g>>)]
           G == [g \in References |-> Count(<<k, g>>)']
<1>3. G = [F EXCEPT ![f] = F[f] + 1]
  <2>1. \A g \in References : G[g] = IF g = f THEN F[f] + 1 ELSE F[g]
    BY <1>1, <1>2
  <2> QED BY <2>1
<1>4. \A j \in Types \ {k} : [g \in References |-> Count(<<j, g>>)']
                             = [g \in References |-> Count(<<j, g>>)]
  BY <1>2
<1> QED BY <1>1, <1>3, <1>4

LEMMA FinishRefines ==
    ASSUME IInv, NEW c \in Calls, at[c] = "commit", isNew[c], Commit(c)
    PROVE  L!LedgerNext
<1> DEFINE f == ref[c]
           u == Owner[f]
           D == [g \in References |-> Count(<<"debit", g>>)]
           C == [g \in References |-> Count(<<"credit", g>>)]
<1>1. /\ f \in References
      /\ <<type[c], f>> \notin rows /\ rows' = rows \cup {<<type[c], f>>}
      /\ balance' = [balance EXCEPT ![u] = NewBalance(c)]
      /\ NewBalance(c) = IF type[c] = "debit" THEN balance[u] - Amount[f]
                                              ELSE balance[u] + Amount[f]
      /\ type[c] = "debit" => balance[u] >= Amount[f]
  BY CommitEffect
<1>2. type[c] = "debit" \/ type[c] = "credit"
  BY DEF IInv, TypeOK, Types
<1>3. ASSUME type[c] = "debit" PROVE L!Charge(f)
  <2>1. D[f] = 0 /\ D' = [D EXCEPT ![f] = @ + 1] /\ C' = C
    BY <1>1, <1>3, CountEffect DEF Types
  <2>2. balance' = [balance EXCEPT ![u] = balance[u] - Amount[f]] /\ balance[u] >= Amount[f]
    BY <1>1, <1>3
  <2> HIDE DEF f
  <2> QED BY <2>1, <2>2 DEF L!Charge, L!Chargeable
<1>4. ASSUME type[c] = "credit" PROVE L!Refund(f)
  <2>1. C[f] = 0 /\ C' = [C EXCEPT ![f] = @ + 1] /\ D' = D
    BY <1>1, <1>4, CountEffect DEF Types
  <2>2. balance' = [balance EXCEPT ![u] = balance[u] + Amount[f]]
    BY <1>1, <1>4
  <2> HIDE DEF f
  <2> QED BY <2>1, <2>2 DEF L!Refund
<1> QED BY <1>1, <1>2, <1>3, <1>4 DEF L!LedgerNext

LEMMA NextRefines == IInv /\ [Next]_vars => [L!LedgerNext]_(L!ledgerVars)
<1> SUFFICES ASSUME IInv, [Next]_vars PROVE [L!LedgerNext]_(L!ledgerVars)
  OBVIOUS
<1>1. ASSUME UNCHANGED <<balance, rows>> PROVE UNCHANGED L!ledgerVars
  BY <1>1 DEF L!ledgerVars, Count
<1>2. ASSUME NEW c \in Calls, Finish(c) PROVE [L!LedgerNext]_(L!ledgerVars)
  <2>1. CASE Rollback(c)
    BY <1>1, <2>1 DEF Rollback, store
  <2>2. CASE ~Rollback(c) /\ isNew[c]
    BY <1>2, <2>2, FinishRefines DEF Finish
  <2>3. CASE ~Rollback(c) /\ ~isNew[c]
    BY <1>1, <1>2, <2>3 DEF Finish, Commit
  <2> QED BY <2>1, <2>2, <2>3
<1>3. ASSUME NEW c \in Calls,
             Charge(c) \/ Refund(c) \/ GetWalletForUpdate(c) \/ FindNoWallet(c)
               \/ Fail(c) \/ Prepare(c) \/ Invalidate(c)
      PROVE  UNCHANGED <<balance, rows>>
  BY <1>3 DEF Charge, Refund, Begin, GetWalletForUpdate, FindNoWallet, Fail, Prepare, Rollback, Invalidate, store
<1>4. CASE \/ \E u \in Users : CreateWallet(u) \/ Expire(u)
           \/ \E r \in Readers : (\E u \in Users : Miss(r, u)) \/ Query(r) \/ SetRecent(r)
           \/ Crash
  BY <1>1, <1>4 DEF CreateWallet, Expire, Miss, Query, SetRecent, Crash, store
<1>5. CASE UNCHANGED vars
  BY <1>1, <1>5 DEF vars
<1> QED BY <1>1, <1>2, <1>3, <1>4, <1>5 DEF Next, Proceed

(* wallet_service implements the ledger order_service relies on: under any  *)
(* interleaving of calls, any failed statement, COMMIT or process, money    *)
(* moves in single Charge and Refund steps, once per reference.             *)
THEOREM WalletImplementsLedger == Spec => ImplementsLedger
BY InitRefines, NextRefines, InductiveInvariant, PTL
DEF Spec, ImplementsLedger, L!LedgerSpec
=============================================================================
