---------------------------- MODULE AuditChain -----------------------------
(***************************************************************************)
(* The audit chain of one organisation: writeAuditEvent, called by every   *)
(* transaction of the API and the workers, and the trigger that positions  *)
(* the event (0003_audit_immutability.sql, seal_audit_event), as READ      *)
(* COMMITTED runs them.                                                    *)
(*                                                                         *)
(* The trigger reads the last row its statement can see, waits for the     *)
(* lock on it, and goes on with the row it read: one that was only locked  *)
(* is not read again.  Then the unique index on the sequence is consulted, *)
(* which waits for another's uncommitted row and refuses a committed one.  *)
(***************************************************************************)
EXTENDS Integers, FiniteSets

CONSTANTS
  Writers,    \* the transactions in flight at the same time
  MaxEvents   \* bound on the events there have been

VARIABLES
  log,      \* the committed rows of audit_events
  draft,    \* draft[w]: the rows that w has inserted and not committed
  writer,   \* writer[w]: how far w is with its INSERT, and the row it continues
  events    \* counts the events; its number is the digest of an event

avars == <<log, draft, writer, events>>

Genesis == 0
NoTail == [sequence |-> 0, previous |-> Genesis, hash |-> Genesis]
Done == [at |-> "done", tail |-> NoTail, locks |-> {}]

AInit == /\ log = {}
         /\ draft = [w \in Writers |-> {}]
         /\ writer = [w \in Writers |-> Done]
         /\ events = 0

---------------------------------------------------------------------------
Begin(w) ==
  /\ writer[w].at = "done"
  /\ writer' = [writer EXCEPT ![w].at = "open"]
  /\ UNCHANGED <<log, draft, events>>

Visible(w) == log \cup draft[w]
IsTail(row, rows) == IF rows = {} THEN row = NoTail
                     ELSE row \in rows /\ \A other \in rows : other.sequence <= row.sequence

\* SELECT ... ORDER BY sequence DESC LIMIT 1, with the snapshot it has.
ReadTail(w) == \E tail \in Visible(w) \cup {NoTail} :
  /\ writer[w].at = "open" /\ events < MaxEvents
  /\ IsTail(tail, Visible(w))
  /\ writer' = [writer EXCEPT ![w].at = "tail read", ![w].tail = tail]
  /\ UNCHANGED <<log, draft, events>>

\* ... FOR UPDATE: the first event of all has nothing to lock.
LockTail(w) ==
  /\ writer[w].at = "tail read"
  /\ \A v \in Writers \ {w} : writer[w].tail \notin writer[v].locks
  /\ writer' = [writer EXCEPT ![w].at = "sealed", ![w].locks = @ \cup ({writer[w].tail} \ {NoTail})]
  /\ UNCHANGED <<log, draft, events>>

Sealed(w) == [sequence |-> writer[w].tail.sequence + 1, previous |-> writer[w].tail.hash,
              hash |-> events + 1]

\* Mutant: the index is not unique.
SequenceTakenNever(rows, s) == FALSE

\* audit_sequence_org_unique
SequenceTaken(rows, s) == \E row \in rows : row.sequence = s

Insert(w) ==
  /\ writer[w].at = "sealed" /\ events < MaxEvents
  /\ \A v \in Writers \ {w} : ~SequenceTaken(draft[v], Sealed(w).sequence)
  /\ ~SequenceTaken(log, Sealed(w).sequence)
  /\ draft' = [draft EXCEPT ![w] = @ \cup {Sealed(w)}]
  /\ writer' = [writer EXCEPT ![w].at = "open"]
  /\ events' = events + 1
  /\ UNCHANGED log

\* The transaction is undone with all it did: the index refuses its row, the
\* work is refused or fails, it waits too long, the process dies.
Rollback(w) ==
  /\ writer[w].at # "done"
  /\ draft' = [draft EXCEPT ![w] = {}]
  /\ writer' = [writer EXCEPT ![w] = Done]
  /\ UNCHANGED <<log, events>>

Commit(w) ==
  /\ writer[w].at = "open"
  /\ log' = log \cup draft[w]
  /\ draft' = [draft EXCEPT ![w] = {}]
  /\ writer' = [writer EXCEPT ![w] = Done]
  /\ UNCHANGED events

ANext == \E w \in Writers : \/ Begin(w) \/ ReadTail(w) \/ LockTail(w) \/ Insert(w)
                            \/ Rollback(w) \/ Commit(w)

ASpec == AInit /\ [][ANext]_avars

---------------------------------------------------------------------------
\* verifyChain, over the committed rows in the order of their sequence.
Follows(row, rows) ==
  IF row.sequence = 1 THEN row.previous = Genesis
  ELSE \E before \in rows : before.sequence = row.sequence - 1 /\ before.hash = row.previous

\* However transactions overlap, wait for each other and roll back, the
\* committed events form one chain from the genesis hash, without a fork or a
\* gap (audit.ts: "insertions, deletions and reorderings break" it).
ChainVerifies ==
  \A row \in log : /\ Follows(row, log)
                   /\ \A other \in log : other.sequence = row.sequence => other = row
============================================================================
