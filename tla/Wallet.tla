------------------------------- MODULE Wallet -------------------------------
(***************************************************************************)
(* wallet_service: Charge and Refund as Postgres transactions under a row  *)
(* lock, with the recent-transactions cache that is deleted after commit   *)
(* and filled by readers (cache-aside with a TTL).  Module Ledger is what  *)
(* all this promises to order_service.                                     *)
(*                                                                         *)
(* What a transaction writes is invisible until COMMIT, so the statements  *)
(* after the idempotency check are one step with it; the COMMIT is         *)
(* another.  A call that is retried is another call with the same          *)
(* reference.  Calls bounds how many requests overlap, not how many come.  *)
(***************************************************************************)
EXTENDS Integers

CONSTANTS References,   \* reference_ids used by the callers
          Users,        \* owners of wallets
          Owner,        \* Owner[f]: the user whose wallet f is charged on
          Amount,       \* Amount[f]: what callers charge or refund under f
          Calls,        \* Charge and Refund requests in progress
          Readers,      \* ListRecentTransactions requests in progress
          Faults,       \* which of "db", "cache", "process" may fail
          NoCall, NoEntry, NoReference

ASSUME WalletAssumption ==
    /\ Owner \in [References -> Users]
    /\ Amount \in [References -> Nat \ {0}]
    /\ NoCall \notin Calls
    /\ NoReference \notin References

VARIABLES wallets,   \* users that have a wallet
          balance,   \* balance[u]: wallets.balance_minor_units, committed
          rows,      \* committed rows of transactions, as <<type, reference>>
          lock,      \* lock[u]: the call holding the row lock of u's wallet
          at,        \* at[c]: where the call stands
          type,      \* type[c]: "debit" for Charge, "credit" for Refund
          ref,       \* ref[c]: its reference_id
          read,      \* read[c]: the balance it has read FOR UPDATE
          isNew,     \* isNew[c]: its transaction writes a row
          cache,     \* cache[u]: rows cached for u's wallet, or NoEntry
          reading,   \* reading[r]: whose list the reader is fetching
          fetched,   \* fetched[r]: the rows it has got from Postgres
          overtaken, \* history: readers whose rows a COMMIT has made old
          excused    \* history: users whose cached list may miss rows, since
                     \* an Invalidate of it failed or never came, or since an
                     \* overtaken reader saved it

store == <<wallets, balance, rows>>
call  == <<at, type, ref, read, isNew>>
list  == <<cache, reading, fetched, overtaken, excused>>
vars  == <<wallets, balance, rows, lock, at, type, ref, read, isNew, cache, reading, fetched,
          overtaken, excused>>

Types == {"debit", "credit"}

AllRows == Types \X References

RowsOf(u) == {t \in rows : Owner[t[2]] = u}

Places == {"idle", "lock", "find", "commit", "invalidate"}

TypeOK ==
    /\ wallets \subseteq Users
    /\ balance \in [Users -> Nat]
    /\ rows \subseteq AllRows
    /\ lock \in [Users -> Calls \cup {NoCall}]
    /\ at \in [Calls -> Places]
    /\ type \in [Calls -> Types]
    /\ ref \in [Calls -> References \cup {NoReference}]
    /\ read \in [Calls -> Nat]
    /\ isNew \in [Calls -> BOOLEAN]
    /\ cache \in [Users -> (SUBSET AllRows) \cup {NoEntry}]
    /\ reading \in [Readers -> Users \cup {NoEntry}]
    /\ fetched \in [Readers -> (SUBSET AllRows) \cup {NoEntry}]
    /\ overtaken \subseteq Readers
    /\ excused \subseteq Users

Init ==
    /\ wallets = {}
    /\ balance = [u \in Users |-> 0]
    /\ rows = {}
    /\ lock = [u \in Users |-> NoCall]
    /\ at = [c \in Calls |-> "idle"]
    /\ type = [c \in Calls |-> "debit"]
    /\ ref = [c \in Calls |-> NoReference]
    /\ read = [c \in Calls |-> 0]
    /\ isNew = [c \in Calls |-> FALSE]
    /\ cache = [u \in Users |-> NoEntry]
    /\ reading = [r \in Readers |-> NoEntry]
    /\ fetched = [r \in Readers |-> NoEntry]
    /\ overtaken = {}
    /\ excused = {}

(* "refused" was not carried out; "lost" was, and its answer never came. *)
Ends(dependency) ==
    IF dependency \in Faults THEN {"ok", "refused", "lost"} ELSE {"ok"}

-----------------------------------------------------------------------------
(* Charge and Refund *)

(* INSERT INTO wallets, from the user_registered event or over HTTP; a      *)
(* second one meets UNIQUE (user_id) and changes nothing.                   *)
CreateWallet(u) ==
    /\ u \notin wallets
    /\ wallets' = wallets \cup {u}
    /\ UNCHANGED <<balance, rows, lock, call, list>>

Begin(c, what, f) ==
    /\ at[c] = "idle"
    /\ at' = [at EXCEPT ![c] = "lock"]
    /\ type' = [type EXCEPT ![c] = what]
    /\ ref' = [ref EXCEPT ![c] = f]
    /\ UNCHANGED <<store, lock, read, isNew, list>>

Charge(c) == \E f \in References : Begin(c, "debit", f)
Refund(c) == \E f \in References : Begin(c, "credit", f)

(* The handler returns and remembers nothing. *)
Leave(c) ==
    /\ at' = [at EXCEPT ![c] = "idle"]
    /\ type' = [type EXCEPT ![c] = "debit"]
    /\ ref' = [ref EXCEPT ![c] = NoReference]
    /\ read' = [read EXCEPT ![c] = 0]
    /\ isNew' = [isNew EXCEPT ![c] = FALSE]

(* COMMIT and ROLLBACK both let go of the row lock. *)
Unlock(c) == lock' = [u \in Users |-> IF lock[u] = c THEN NoCall ELSE lock[u]]

(* transactionalOperation's deferred Abort. *)
Rollback(c) ==
    /\ Unlock(c)
    /\ Leave(c)
    /\ UNCHANGED <<store, list>>

(* Mutant: SELECT without FOR UPDATE. *)
GetWalletUnlocked(c) ==
    /\ at[c] = "lock"
    /\ Owner[ref[c]] \in wallets
    /\ read' = [read EXCEPT ![c] = balance[Owner[ref[c]]]]
    /\ at' = [at EXCEPT ![c] = "find"]
    /\ UNCHANGED <<store, lock, type, ref, isNew, list>>

(* SELECT ... FOR UPDATE: waits for the row, then reads the balance. *)
GetWalletForUpdate(c) ==
    LET u == Owner[ref[c]] IN
    /\ at[c] = "lock"
    /\ u \in wallets
    /\ lock[u] = NoCall
    /\ lock' = [lock EXCEPT ![u] = c]
    /\ read' = [read EXCEPT ![c] = balance[u]]
    /\ at' = [at EXCEPT ![c] = "find"]
    /\ UNCHANGED <<store, type, ref, isNew, list>>

(* ErrWalletNotFound. *)
FindNoWallet(c) ==
    /\ at[c] = "lock"
    /\ Owner[ref[c]] \notin wallets
    /\ Rollback(c)

(* A statement of the transaction fails, or the caller has gone away. *)
Fail(c) ==
    /\ at[c] \in {"lock", "find"}
    /\ "db" \in Faults
    /\ Rollback(c)

(* Mutant: the early return for too little money skips the rollback. *)
PrepareLeaksLock(c) ==
    /\ at[c] = "find"
    /\ IF <<type[c], ref[c]>> \notin rows /\ type[c] = "debit" /\ read[c] < Amount[ref[c]]
       THEN /\ Leave(c)
            /\ UNCHANGED <<store, lock, list>>
       ELSE /\ isNew' = [isNew EXCEPT ![c] = <<type[c], ref[c]>> \notin rows]
            /\ at' = [at EXCEPT ![c] = "commit"]
            /\ UNCHANGED <<store, lock, type, ref, read, list>>

(* FindTransactionByReference, then the balance check of Charge, then       *)
(* UpdateBalance and CreateTransaction, which nobody sees yet.              *)
Prepare(c) ==
    /\ at[c] = "find"
    /\ IF <<type[c], ref[c]>> \notin rows /\ type[c] = "debit" /\ read[c] < Amount[ref[c]]
       THEN Rollback(c)
       ELSE /\ isNew' = [isNew EXCEPT ![c] = <<type[c], ref[c]>> \notin rows]
            /\ at' = [at EXCEPT ![c] = "commit"]
            /\ UNCHANGED <<store, lock, type, ref, read, list>>

NewBalance(c) ==
    IF type[c] = "debit" THEN read[c] - Amount[ref[c]] ELSE read[c] + Amount[ref[c]]

Overtakes(c, r) == fetched[r] # NoEntry /\ reading[r] = Owner[ref[c]]

(* What the COMMIT makes visible. *)
Commit(c) ==
    IF isNew[c]
    THEN /\ balance' = [balance EXCEPT ![Owner[ref[c]]] = NewBalance(c)]
         /\ rows' = rows \cup {<<type[c], ref[c]>>}
         /\ overtaken' = overtaken \cup {r \in Readers : Overtakes(c, r)}
    ELSE UNCHANGED <<balance, rows, overtaken>>

(* Mutant: Refund does not delete the cached list. *)
InvalidatesChargeOnly(c) == isNew[c] /\ type[c] = "debit"

(* After COMMIT the cached list goes, if the row is new. *)
Invalidates(c) == isNew[c]

(* COMMIT; a caller that sees it fail returns, and leaves the cache alone. *)
Finish(c) ==
    /\ at[c] = "commit"
    /\ \E end \in Ends("db") :
          \/ end = "refused" /\ Rollback(c)
          \/ /\ end # "refused"
             /\ Commit(c)
             /\ Unlock(c)
             /\ IF end = "ok" /\ Invalidates(c)
                THEN at' = [at EXCEPT ![c] = "invalidate"] /\ UNCHANGED <<type, ref, read, isNew>>
                ELSE Leave(c)
             /\ excused' = IF end = "lost" /\ isNew[c] THEN excused \cup {Owner[ref[c]]}
                           ELSE excused
             /\ UNCHANGED <<wallets, cache, reading, fetched>>

(* DEL of the cached list; its failure is only logged. *)
Invalidate(c) ==
    LET u == Owner[ref[c]] IN
    /\ at[c] = "invalidate"
    /\ \E end \in Ends("cache") :
          IF end = "refused"
          THEN excused' = excused \cup {u} /\ UNCHANGED cache
          ELSE excused' = excused \ {u} /\ cache' = [cache EXCEPT ![u] = NoEntry]
    /\ Leave(c)
    /\ UNCHANGED <<store, lock, reading, fetched, overtaken>>

(* The Invalidate of u's list is still to come. *)
Pending(u) == \E c \in Calls : at[c] = "invalidate" /\ Owner[ref[c]] = u

-----------------------------------------------------------------------------
(* ListRecentTransactions: the list of a wallet, from the cache if it is    *)
(* there.  The 20 rows it is cut to are all the rows here.                  *)

Miss(r, u) ==
    /\ reading[r] = NoEntry
    /\ u \in wallets
    /\ cache[u] = NoEntry \/ "cache" \in Faults
    /\ reading' = [reading EXCEPT ![r] = u]
    /\ UNCHANGED <<store, lock, call, cache, fetched, overtaken, excused>>

Query(r) ==
    /\ reading[r] # NoEntry /\ fetched[r] = NoEntry
    /\ \/ /\ fetched' = [fetched EXCEPT ![r] = RowsOf(reading[r])]
          /\ UNCHANGED reading
       \/ /\ "db" \in Faults
          /\ reading' = [reading EXCEPT ![r] = NoEntry]
          /\ UNCHANGED fetched
    /\ UNCHANGED <<store, lock, call, cache, overtaken, excused>>

SetRecent(r) ==
    /\ fetched[r] # NoEntry
    /\ \E end \in Ends("cache") :
          IF end = "refused"
          THEN UNCHANGED <<cache, excused>>
          ELSE /\ cache' = [cache EXCEPT ![reading[r]] = fetched[r]]
               /\ excused' = IF r \in overtaken THEN excused \cup {reading[r]}
                             ELSE excused \ {reading[r]}
    /\ overtaken' = overtaken \ {r}
    /\ reading' = [reading EXCEPT ![r] = NoEntry]
    /\ fetched' = [fetched EXCEPT ![r] = NoEntry]
    /\ UNCHANGED <<store, lock, call>>

(* The entry is recentTransactionsTTL old. *)
Expire(u) ==
    /\ cache[u] # NoEntry
    /\ cache' = [cache EXCEPT ![u] = NoEntry]
    /\ excused' = excused \ {u}
    /\ UNCHANGED <<store, lock, call, reading, fetched, overtaken>>

-----------------------------------------------------------------------------
(* The process dies; Postgres rolls back and unlocks, Redis keeps its list. *)
Crash ==
    /\ "process" \in Faults
    /\ lock' = [u \in Users |-> NoCall]
    /\ at' = [c \in Calls |-> "idle"]
    /\ type' = [c \in Calls |-> "debit"]
    /\ ref' = [c \in Calls |-> NoReference]
    /\ read' = [c \in Calls |-> 0]
    /\ isNew' = [c \in Calls |-> FALSE]
    /\ reading' = [r \in Readers |-> NoEntry]
    /\ fetched' = [r \in Readers |-> NoEntry]
    /\ overtaken' = {}
    /\ excused' = excused \cup {u \in Users : Pending(u)}
    /\ UNCHANGED <<store, cache>>

Proceed(c) ==
    GetWalletForUpdate(c) \/ FindNoWallet(c) \/ Prepare(c) \/ Finish(c) \/ Invalidate(c)

Next ==
    \/ \E u \in Users : CreateWallet(u) \/ Expire(u)
    \/ \E c \in Calls : Charge(c) \/ Refund(c) \/ Proceed(c) \/ Fail(c)
    \/ \E r \in Readers : (\E u \in Users : Miss(r, u)) \/ Query(r) \/ SetRecent(r)
    \/ Crash

Spec == Init /\ [][Next]_vars

(* Postgres serves waiters for a row lock in turn, so a call that finds the *)
(* lock free again and again gets it.  Nothing has to fail: a call may not  *)
(* wait for an error to free it.                                            *)
Fairness == \A c \in Calls : SF_vars(GetWalletForUpdate(c)) /\ WF_vars(Proceed(c))

LiveSpec == Spec /\ Fairness

-----------------------------------------------------------------------------
(* Properties *)

Count(t) == IF t \in rows THEN 1 ELSE 0

L == INSTANCE Ledger
     WITH Orders <- References, Rider <- Owner, Price <- Amount,
          InitialBalance <- [u \in Users |-> 0],
          debits  <- [f \in References |-> Count(<<"debit", f>>)],
          credits <- [f \in References |-> Count(<<"credit", f>>)]

(* Every COMMIT is one Charge or Refund of the abstract ledger: atomic,     *)
(* idempotent by reference, never below zero.  A lost update, a replay that *)
(* pays twice, or a row without its balance would be a step Ledger lacks.   *)
ImplementsLedger == L!LedgerSpec

(* A transaction about to commit a row is alone in doing so: the row lock   *)
(* keeps the insert from ever losing the race on UNIQUE (wallet_id,         *)
(* reference_id, type) for which CreateTransaction has its refetch.         *)
NeverLosesTheRace ==
    \A c \in Calls :
        at[c] = "commit" /\ isNew[c] =>
            /\ <<type[c], ref[c]>> \notin rows
            /\ \A d \in Calls : d # c /\ at[d] = "commit" /\ isNew[d]
                                   => Owner[ref[d]] # Owner[ref[c]]

(* Every Charge and Refund returns: whatever fails, no path of the handler  *)
(* leaves a wallet locked for those behind it.                              *)
CallsReturn == \A c \in Calls : at[c] # "idle" ~> at[c] = "idle"

Stale(u) == cache[u] # NoEntry /\ cache[u] # RowsOf(u)

(* A cached list misses a row, or shows one that is not there, only while   *)
(* the Invalidate of the Charge or Refund is about to come, or for one of   *)
(* four causes: its DEL failed, its COMMIT was carried out and not          *)
(* answered, the process died in between, or the list was saved by a reader *)
(* that had asked Postgres before a COMMIT.  A list saved after any of them *)
(* is whole again.                                                          *)
StaleOnlyForACause == \A u \in Users : Stale(u) => Pending(u) \/ u \in excused

(* "any successful charge/refund on that wallet deletes the cache key so    *)
(* the next read isn't stale": when no Charge or Refund is in progress, the *)
(* cached list is the list.  A reader that is overtaken by a COMMIT breaks  *)
(* it without any fault; README.md tells how, and no run checks it.         *)
NextReadIsNotStale ==
    \A u \in Users : (\A c \in Calls : at[c] = "idle") => ~Stale(u)

-----------------------------------------------------------------------------
(* The inductive invariant behind ImplementsLedger, NeverLosesTheRace and  *)
(* StaleOnlyForACause                                                      *)

(* A transaction past its SELECT holds the lock of its wallet, and what it  *)
(* has read is still so.                                                    *)
Holds(c) ==
    /\ ref[c] \in References
    /\ lock[Owner[ref[c]]] = c
    /\ read[c] = balance[Owner[ref[c]]]

PreparedOK(c) ==
    isNew[c] => /\ <<type[c], ref[c]>> \notin rows
                /\ type[c] = "debit" => read[c] >= Amount[ref[c]]

LockOK ==
    \A c \in Calls :
        /\ at[c] \in {"find", "commit"} => Holds(c)
        /\ at[c] = "commit" => PreparedOK(c)
        /\ at[c] # "idle" => ref[c] \in References

(* What a reader that nobody has overtaken is about to save is the list.    *)
FetchedOK ==
    \A r \in Readers :
        fetched[r] # NoEntry =>
            /\ reading[r] # NoEntry
            /\ r \notin overtaken => fetched[r] = RowsOf(reading[r])

IInv == TypeOK /\ LockOK /\ FetchedOK /\ StaleOnlyForACause
=============================================================================
