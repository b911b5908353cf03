---------------------------- MODULE SafeConnection ----------------------------
(***************************************************************************)
(* One SQLite connection shared by threads: SafeSqliteConnection and its    *)
(* cursor in core/sqlite_utils.py.  Every operation takes the re-entrant    *)
(* lock of the connection, and leaves it held by its thread as long as a    *)
(* transaction is open, in an outer `with` block or not.                    *)
(*                                                                          *)
(* An operation holds the lock from its beginning to its end, so it is one  *)
(* step.  SQLite itself decides whether a statement opens a transaction,    *)
(* and any statement or commit may fail.  Savepoints are left out, and so   *)
(* are the settings made at connect time, which no thread shares yet.       *)
(***************************************************************************)
EXTENDS Naturals

CONSTANTS Threads,
          Nobody,
          MaxBlocks,     \* bound: nested `with` blocks of a thread
          CloseOnExit    \* _close_on_exit

ASSUME ConnectionAssumption ==
  Nobody \notin Threads /\ MaxBlocks \in Nat /\ CloseOnExit \in BOOLEAN

VARIABLES owner, count,   \* _op_lock, an RLock
          tx,             \* in_transaction
          held,           \* _tx_lock_held
          depth,          \* _enter_depth
          closed,         \* _is_closed
          blocks,         \* open `with` blocks of each thread
          wrote           \* threads with writes that are not committed

oplock == <<owner, count>>
connectionVars == <<oplock, tx, held, depth, closed, blocks, wrote>>

ConnectionInit ==
  /\ owner = Nobody /\ count = 0
  /\ tx = FALSE /\ held = FALSE /\ depth = 0 /\ closed = FALSE
  /\ blocks = [t \in Threads |-> 0]
  /\ wrote = {}

MayLock(t) == owner \in {t, Nobody}
(* The lock after t gave back what it took, with n acquisitions left. *)
Left(t, n) == count' = n /\ owner' = IF n = 0 THEN Nobody ELSE t

SyncLate(t, n) ==
  LET keep == tx' /\ ~ closed'
  IN  held' = keep /\ Left(t, IF held THEN n ELSE IF keep THEN n + 1 ELSE n)
(* _sync_tx_lock, with n acquisitions otherwise: the transaction holds the   *)
(* lock once more for as long as it is open.                                *)
Sync(t, n) ==
  LET keep == tx' /\ ~ closed'
      free == IF held /\ ~ keep THEN n - 1 ELSE n
  IN  held' = keep /\ Left(t, IF keep /\ ~ held THEN n + 1 ELSE free)

(* execute, executemany of a cursor: a statement that writes opens a        *)
(* transaction if none is open, even if it fails then.                      *)
Execute(t) ==
  /\ MayLock(t) /\ ~ closed
  /\ \E opens, done \in BOOLEAN :
       /\ tx' = (tx \/ opens)
       /\ wrote' = IF tx' /\ done THEN wrote \cup {t} ELSE wrote
  /\ closed' = closed /\ Sync(t, count)
  /\ UNCHANGED <<depth, blocks>>

(* executescript commits what is pending, and runs in autocommit. *)
Script(t) ==
  /\ MayLock(t) /\ ~ closed
  /\ tx' = FALSE /\ wrote' = {}
  /\ closed' = closed /\ Sync(t, count)
  /\ UNCHANGED <<depth, blocks>>

Commit(t) ==
  /\ MayLock(t) /\ ~ closed
  /\ \/ tx' = FALSE /\ wrote' = {}
     \/ UNCHANGED <<tx, wrote>>
  /\ closed' = closed /\ Sync(t, count)
  /\ UNCHANGED <<depth, blocks>>
Rollback(t) ==
  /\ MayLock(t) /\ ~ closed
  /\ tx' = FALSE /\ wrote' = {}
  /\ closed' = closed /\ Sync(t, count)
  /\ UNCHANGED <<depth, blocks>>

(* close loses what is not committed. *)
CloseConnection(t) ==
  /\ MayLock(t) /\ ~ closed
  /\ closed' = TRUE /\ tx' = FALSE /\ wrote' = {}
  /\ Sync(t, count)
  /\ UNCHANGED <<depth, blocks>>

(* __enter__ takes the lock, __exit__ gives it back. *)
EnterBlock(t) ==
  /\ MayLock(t) /\ ~ closed /\ blocks[t] < MaxBlocks
  /\ blocks' = [blocks EXCEPT ![t] = @ + 1] /\ depth' = depth + 1
  /\ UNCHANGED <<tx, closed, wrote>> /\ Sync(t, count + 1)

(* The block ends: commit or, if it failed or the commit does, rollback;     *)
(* the outermost one may close the connection.                              *)
ExitBlock(t) ==
  /\ blocks[t] > 0
  /\ blocks' = [blocks EXCEPT ![t] = @ - 1] /\ depth' = depth - 1
  /\ tx' = FALSE /\ wrote' = {}
  /\ closed' = (closed \/ (CloseOnExit /\ depth' = 0))
  /\ Sync(t, count - 1)

ConnectionNext == \E t \in Threads : \/ Execute(t) \/ Script(t) \/ Commit(t) \/ Rollback(t)
                           \/ CloseConnection(t) \/ EnterBlock(t) \/ ExitBlock(t)
ConnectionSpec == ConnectionInit /\ [][ConnectionNext]_connectionVars

-------------------------------------------------------------------------------
(* Who has written and not committed holds the lock, so that nobody commits, *)
(* rolls back or reads in between; and the lock is held for open blocks and *)
(* an open transaction only: a thread that has ended both, however they     *)
(* ended, blocks nobody.                                                    *)
LockFollowsTransaction ==
  /\ wrote \subseteq {owner}
  /\ IF owner = Nobody THEN count = 0 /\ ~ held /\ \A t \in Threads : blocks[t] = 0
     ELSE count = blocks[owner] + (IF tx /\ ~ closed THEN 1 ELSE 0)
===============================================================================
