---------------------------- MODULE AuditProofs ----------------------------
(***************************************************************************)
(* The audit chain for any number of transactions and events.              *)
(***************************************************************************)
EXTENDS AuditChain, TLAPS

\* What a transaction has drafted continues what is committed, and the row it
\* is about to continue is one it can see, and none of its own comes later.
Linked == /\ \A row \in log : Follows(row, log)
          /\ \A w \in Writers : \A row \in draft[w] : Follows(row, Visible(w))
Tails == \A w \in Writers : writer[w].at \in {"tail read", "sealed"} =>
           /\ writer[w].tail = NoTail \/ writer[w].tail \in Visible(w)
           /\ \A row \in draft[w] : row.sequence <= writer[w].tail.sequence

\* No sequence is used twice, by whatever rows there are.
Distinct == /\ \A row, other \in log : other.sequence = row.sequence => other = row
            /\ \A w \in Writers : \A row \in draft[w] : \A other \in Visible(w) :
                 other.sequence = row.sequence => other = row
            /\ \A w, v \in Writers : \A row \in draft[w] : \A other \in draft[v] :
                 w # v => other.sequence # row.sequence

Rows == [sequence : Nat \ {0}, previous : Nat, hash : Nat]
WriterRow == [at : {"done", "open", "tail read", "sealed"}, tail : Rows \cup {NoTail}, locks : SUBSET Rows]
Shapes == /\ log \subseteq Rows /\ draft \in [Writers -> SUBSET Rows]
          /\ writer \in [Writers -> WriterRow]
          /\ events \in Nat

Sound == Shapes /\ Linked /\ Tails /\ Distinct

LEMMA FollowsMore ==
  ASSUME NEW row, NEW rows, NEW more, Follows(row, rows), rows \subseteq more
  PROVE  Follows(row, more)
  BY DEF Follows

\* A step of w that leaves the rows alone.
LEMMA Quiet ==
  ASSUME Sound, UNCHANGED <<log, draft, events>>,
         writer' \in [Writers -> WriterRow],
         Tails'
  PROVE  Sound'
  <1>1. Shapes'
    BY DEF Sound, Shapes
  <1>2. Linked'
    BY DEF Sound, Linked, Visible, Follows
  <1>3. Distinct'
    BY DEF Sound, Distinct, Visible
  <1> QED BY <1>1, <1>2, <1>3 DEF Sound

LEMMA BeginSound == ASSUME Sound, NEW w \in Writers, Begin(w) PROVE Sound'
  <1>1. writer[w] \in WriterRow
    BY DEF Sound, Shapes
  <1> DEFINE x == [writer[w] EXCEPT !.at = "open"]
  <1>2. /\ x \in WriterRow
        /\ x.at = "open"
    BY <1>1 DEF WriterRow
  <1>3. writer' = [writer EXCEPT ![w] = x]
    BY DEF Begin
  <1> HIDE DEF x
  <1>4. Tails'
    BY <1>2, <1>3 DEF Sound, Shapes, Tails, Begin, Visible
  <1>5. writer' \in [Writers -> WriterRow]
    BY <1>2, <1>3 DEF Sound, Shapes
  <1> QED BY <1>4, <1>5, Quiet DEF Begin

LEMMA ReadSound == ASSUME Sound, NEW w \in Writers, ReadTail(w) PROVE Sound'
  <1>1. writer[w] \in WriterRow
    BY DEF Sound, Shapes
  <1>2. PICK tail \in Visible(w) \cup {NoTail} :
          /\ IsTail(tail, Visible(w))
          /\ writer' = [writer EXCEPT ![w].at = "tail read", ![w].tail = tail]
    BY DEF ReadTail
  <1> DEFINE x == [writer[w] EXCEPT !.at = "tail read", !.tail = tail]
  <1>3. tail \in Rows \cup {NoTail}
    BY <1>2 DEF Sound, Shapes, Visible
  <1>4. /\ x \in WriterRow
        /\ x.tail = tail
    BY <1>1, <1>3 DEF WriterRow
  <1>5. writer' = [writer EXCEPT ![w] = x]
    BY <1>2
  <1> HIDE DEF x
  <1>6. Tails'
    <2>1. \A row \in draft[w] : row.sequence <= tail.sequence
      BY <1>2 DEF IsTail, Visible, Sound, Shapes, Rows
    <2> QED BY <1>2, <1>4, <1>5, <2>1 DEF Sound, Shapes, Tails, ReadTail, Visible
  <1>7. writer' \in [Writers -> WriterRow]
    BY <1>4, <1>5 DEF Sound, Shapes
  <1> QED BY <1>6, <1>7, Quiet DEF ReadTail

LEMMA LockSound == ASSUME Sound, NEW w \in Writers, LockTail(w) PROVE Sound'
  <1>1. writer[w] \in WriterRow
    BY DEF Sound, Shapes
  <1> DEFINE x == [writer[w] EXCEPT !.at = "sealed",
                                    !.locks = writer[w].locks \cup ({writer[w].tail} \ {NoTail})]
  <1>2. /\ x \in WriterRow
        /\ x.tail = writer[w].tail
    BY <1>1 DEF WriterRow
  <1>3. writer' = [writer EXCEPT ![w] = x] /\ writer[w].at = "tail read"
    BY DEF LockTail
  <1> HIDE DEF x
  <1>4. Tails'
    BY <1>2, <1>3 DEF Sound, Shapes, Tails, LockTail, Visible
  <1>5. writer' \in [Writers -> WriterRow]
    BY <1>2, <1>3 DEF Sound, Shapes
  <1> QED BY <1>4, <1>5, Quiet DEF LockTail

LEMMA InsertSound == ASSUME Sound, NEW w \in Writers, Insert(w) PROVE Sound'
  <1> DEFINE tail == writer[w].tail
             new == Sealed(w)
             x == [writer[w] EXCEPT !.at = "open"]
  <1>1. /\ writer[w] \in WriterRow /\ tail \in Rows \cup {NoTail} /\ events \in Nat
        /\ NoTail.sequence = 0 /\ NoTail.hash = Genesis /\ Genesis \in Nat
    BY DEF Sound, Shapes, WriterRow, NoTail, Genesis
  <1>2. /\ new.sequence = tail.sequence + 1 /\ new.previous = tail.hash /\ new.hash = events + 1
        /\ new = [sequence |-> tail.sequence + 1, previous |-> tail.hash, hash |-> events + 1]
    BY DEF Sealed
  <1>3. tail.sequence \in Nat /\ tail.hash \in Nat
    BY <1>1 DEF Rows
  <1>4. new \in Rows
    BY <1>1, <1>2, <1>3 DEF Rows
  <1>5. x \in WriterRow /\ x.at = "open"
    BY <1>1 DEF WriterRow
  <1>6. /\ log' = log /\ events' = events + 1
        /\ draft' = [draft EXCEPT ![w] = draft[w] \cup {new}]
        /\ writer' = [writer EXCEPT ![w] = x]
        /\ writer[w].at = "sealed"
    BY DEF Insert
  <1>7. /\ \A row \in log : row.sequence # new.sequence
        /\ \A v \in Writers \ {w} : \A row \in draft[v] : row.sequence # new.sequence
    BY DEF Insert, SequenceTaken
  <1>8. Follows(new, Visible(w))
    <2>1. CASE tail = NoTail
      <3>1. new.sequence = 1 /\ new.previous = Genesis
        BY <1>1, <1>2, <2>1
      <3> QED BY <3>1 DEF Follows
    <2>2. CASE tail # NoTail
      <3>1. tail \in Visible(w) /\ tail.sequence \in Nat \ {0}
        BY <1>1, <1>6, <2>2 DEF Sound, Tails, Rows
      <3>2. tail.sequence = new.sequence - 1 /\ tail.hash = new.previous /\ new.sequence # 1
        BY <1>2, <1>3, <3>1
      <3> QED BY <3>1, <3>2 DEF Follows
    <2> QED BY <2>1, <2>2
  <1> HIDE DEF tail, new, x
  <1>9. \A v \in Writers : /\ draft'[v] = IF v = w THEN draft[w] \cup {new} ELSE draft[v]
                           /\ writer'[v] = IF v = w THEN x ELSE writer[v]
    BY <1>6 DEF Sound, Shapes
  <1>10. \A v \in Writers : Visible(v) \subseteq Visible(v)'
    BY <1>6, <1>9 DEF Visible
  <1>11. Shapes'
    BY <1>1, <1>4, <1>5, <1>6 DEF Sound, Shapes
  <1>12. Linked'
    <2>1. \A v \in Writers : \A row \in draft[v] : Follows(row, Visible(v)')
      BY <1>10, FollowsMore DEF Sound, Linked
    <2>2. Follows(new, Visible(w)')
      BY <1>8, <1>10, FollowsMore
    <2>3. \A row \in log : Follows(row, log')
      BY <1>6 DEF Sound, Linked
    <2> QED BY <1>6, <1>9, <2>1, <2>2, <2>3 DEF Linked, Visible, Follows
  <1>13. Tails'
    BY <1>5, <1>6, <1>9, <1>10 DEF Sound, Tails
  <1>14. Distinct'
    <2>1. \A row \in draft[w] : row.sequence # new.sequence
      <3> SUFFICES ASSUME NEW row \in draft[w] PROVE row.sequence # new.sequence
        OBVIOUS
      <3>1. row.sequence \in Nat
        BY DEF Sound, Shapes, Rows
      <3>2. row.sequence <= tail.sequence
        BY <1>6 DEF Sound, Tails, tail
      <3> QED BY <1>2, <1>3, <3>1, <3>2
    <2> QED BY <1>6, <1>7, <1>9, <2>1 DEF Sound, Distinct, Visible
  <1> QED BY <1>11, <1>12, <1>13, <1>14 DEF Sound

\* The transaction ends: what it drafted is gone, or committed.
LEMMA EndSound == ASSUME Sound, NEW w \in Writers, Rollback(w) \/ Commit(w) PROVE Sound'
  <1>1. /\ draft' = [draft EXCEPT ![w] = {}] /\ writer' = [writer EXCEPT ![w] = Done]
        /\ events' = events
        /\ log' = log \/ log' = log \cup draft[w]
    BY DEF Rollback, Commit
  <1>2. Done \in WriterRow /\ Done.at = "done"
    BY DEF Done, WriterRow
  <1>3. \A v \in Writers : /\ draft'[v] = IF v = w THEN {} ELSE draft[v]
                           /\ writer'[v] = IF v = w THEN Done ELSE writer[v]
    BY <1>1 DEF Sound, Shapes
  <1>4. \A v \in Writers \ {w} : Visible(v) \subseteq Visible(v)'
    BY <1>1, <1>3 DEF Visible
  <1>5. Shapes'
    BY <1>1, <1>2 DEF Sound, Shapes
  <1>6. Linked'
    <2>1. \A v \in Writers \ {w} : \A row \in draft[v] : Follows(row, Visible(v)')
      BY <1>4, FollowsMore DEF Sound, Linked
    <2>2. \A row \in log : Follows(row, log')
      BY <1>1, FollowsMore DEF Sound, Linked
    <2>3. log' = log \cup draft[w] => \A row \in draft[w] : Follows(row, log')
      BY DEF Sound, Linked, Visible
    <2> QED BY <1>1, <1>3, <2>1, <2>2, <2>3 DEF Linked, Visible, Follows
  <1>7. Tails'
    BY <1>2, <1>3, <1>4 DEF Sound, Tails
  <1>8. Distinct'
    BY <1>1, <1>3 DEF Sound, Distinct, Visible
  <1> QED BY <1>5, <1>6, <1>7, <1>8 DEF Sound

LEMMA ChainInvariant == ASpec => []Sound
  <1>1. AInit => Sound
    <2> SUFFICES ASSUME AInit PROVE Sound
      OBVIOUS
    <2>1. Done \in WriterRow /\ Done.at = "done"
      BY DEF Done, WriterRow
    <2>2. Shapes
      BY <2>1 DEF AInit, Shapes
    <2> QED BY <2>1, <2>2 DEF AInit, Sound, Linked, Tails, Distinct
  <1>2. Sound /\ [ANext]_avars => Sound'
    <2>1. ASSUME Sound, UNCHANGED avars PROVE Sound'
      BY <2>1, Quiet DEF avars, Sound, Shapes, Tails, Visible
    <2>2. ASSUME Sound, ANext PROVE Sound'
      BY <2>2, BeginSound, ReadSound, LockSound, InsertSound, EndSound, Zenon DEF ANext
    <2> QED BY <2>1, <2>2
  <1> QED BY <1>1, <1>2, PTL DEF ASpec

\* The committed events verify, whatever the number of transactions that seal
\* at once: the unique index alone keeps the chain from forking, and its links
\* are those of rows that cannot be rolled back any more.
THEOREM ChainIsSound == ASpec => []ChainVerifies
  <1>1. Sound => ChainVerifies
    BY DEF Sound, Linked, Distinct, ChainVerifies
  <1> QED BY <1>1, ChainInvariant, PTL
============================================================================
