-------------------------- MODULE PublishTxnProofs --------------------------
(***************************************************************************)
(* A commit delivers the NOTIFYs of exactly the queues it puts eligible    *)
(* rows in, for any queues, any nesting of savepoints and any number of    *)
(* publishes.  The invariant is FramesCovered, with the types: what a      *)
(* frame has in its rows or its memo, it has notified itself.              *)
(***************************************************************************)
EXTENDS PublishTxn, TLAPS

\* The frames of s are well formed, and each is covered by its own NOTIFYs,
\* the innermost one if it can still be kept.
Sound(s, kept) ==
    /\ s \in Seq(Frame)
    /\ Len(s) <= MaxDepth
    /\ \A k \in 1..Len(s) : s[k].notified \cup s[k].memo \subseteq s[k].rows
    /\ \A k \in 1..Len(s) : k < Len(s) \/ kept => Covered(s[k])

TxnInv ==
    /\ Sound(stack, ~broken)
    /\ broken \in BOOLEAN /\ sends \in Nat
    /\ committed \subseteq Queue /\ delivered \subseteq Queue
    /\ committed = delivered

\* The invariant implies the types and the properties of PublishTxn.
LEMMA InvMeans ==
    TxnInv => TypeOK /\ FramesCovered /\ CommittedAreNotified /\ NotifiedAreCommitted
<1> SUFFICES ASSUME TxnInv
             PROVE  TypeOK /\ FramesCovered /\ CommittedAreNotified /\ NotifiedAreCommitted
  OBVIOUS
<1>1. TypeOK
  BY DEF TxnInv, Sound, TypeOK, Depth
<1>2. FramesCovered
  BY DEF TxnInv, Sound, FramesCovered, Depth, InTransaction
<1> QED
  BY <1>1, <1>2 DEF TxnInv, CommittedAreNotified, NotifiedAreCommitted

\* What is said of a new transaction or savepoint: it has done nothing yet.
LEMMA NewFrameSound ==
    /\ NewFrame \in Frame
    /\ NewFrame.notified \cup NewFrame.memo \subseteq NewFrame.rows
    /\ Covered(NewFrame)
BY DEF NewFrame, Frame, Covered

\* A savepoint begun on sound frames leaves them sound.
LEMMA AppendSound ==
    ASSUME NEW s, Sound(s, TRUE), Len(s) < MaxDepth
    PROVE  Sound(Append(s, NewFrame), TRUE)
<1> DEFINE t == Append(s, NewFrame)
<1>1. /\ t \in Seq(Frame) /\ Len(t) = Len(s) + 1
      /\ \A k \in 1..Len(s) : t[k] = s[k]
      /\ t[Len(s) + 1] = NewFrame
  BY NewFrameSound DEF Sound
<1>2. Len(s) \in Nat
  BY DEF Sound
<1> QED
  BY <1>1, <1>2, NewFrameSound, PublishAssumption DEF Sound

\* The innermost frame may be replaced by one that is sound on its own.
LEMMA ReplaceSound ==
    ASSUME NEW s, NEW before, Sound(s, before), Len(s) > 0, NEW kept \in BOOLEAN,
           NEW f \in Frame, f.notified \cup f.memo \subseteq f.rows,
           kept => Covered(f)
    PROVE  Sound([s EXCEPT ![Len(s)] = f], kept)
<1> DEFINE t == [s EXCEPT ![Len(s)] = f]
<1>1. Len(s) \in Nat /\ s \in Seq(Frame)
  BY DEF Sound
<1>2. /\ t \in Seq(Frame) /\ Len(t) = Len(s)
      /\ \A k \in 1..Len(s) : k # Len(s) => t[k] = s[k]
      /\ t[Len(s)] = f
  BY <1>1
<1> HIDE DEF t
<1>3. \A k \in 1..Len(t) : t[k].notified \cup t[k].memo \subseteq t[k].rows
  BY <1>1, <1>2 DEF Sound
<1>4. \A k \in 1..Len(t) : k < Len(t) \/ kept => Covered(t[k])
  BY <1>1, <1>2 DEF Sound
<1>5. Sound(t, kept)
  BY <1>1, <1>2, <1>3, <1>4 DEF Sound
<1> QED
  BY <1>5 DEF t

\* The innermost frame may be dropped, whatever became of it.
LEMMA DropSound ==
    ASSUME NEW s, NEW before, Sound(s, before), Len(s) > 1
    PROVE  Sound(SubSeq(s, 1, Len(s) - 1), TRUE)
<1> DEFINE t == SubSeq(s, 1, Len(s) - 1)
<1>1. Len(s) \in Nat /\ s \in Seq(Frame)
  BY DEF Sound
<1>2. /\ t \in Seq(Frame) /\ Len(t) = Len(s) - 1
      /\ \A k \in 1..Len(t) : t[k] = s[k]
  BY <1>1
<1> QED
  BY <1>1, <1>2, PublishAssumption DEF Sound

\* The statement's autobegun transaction is sound, and its memo is Emitted.
LEMMA BegunSound ==
    ASSUME TxnInv, ~broken
    PROVE  /\ Sound(Begun, TRUE) /\ Len(Begun) > 0 /\ Len(Begun) \in Nat
           /\ Begun[Len(Begun)] \in Frame /\ Begun[Len(Begun)].memo = Emitted
           /\ Begun[Len(Begun)].notified \cup Begun[Len(Begun)].memo
                \subseteq Begun[Len(Begun)].rows
           /\ Covered(Begun[Len(Begun)])
<1>1. CASE InTransaction
  BY <1>1 DEF TxnInv, Sound, Begun, InTransaction, Depth, Emitted
<1>2. CASE ~InTransaction
  <2>1. Begun = <<NewFrame>> /\ Emitted = {}
    BY <1>2 DEF Begun, Emitted
  <2>2. /\ Begun \in Seq(Frame) /\ Len(Begun) = 1 /\ Begun[1] = NewFrame
    BY <2>1, NewFrameSound
  <2>3. NewFrame.memo = {}
    BY DEF NewFrame
  <2> QED
    BY <2>1, <2>2, <2>3, NewFrameSound, PublishAssumption DEF Sound
<1> QED
  BY <1>1, <1>2
-----------------------------------------------------------------------------
\* A publish keeps the innermost frame sound: a row is eligible only where a
\* NOTIFY is sent with it or the memo stands for one.
LEMMA InsertSound ==
    ASSUME TxnInv, ~broken, NEW q \in Queue, NEW future \in BOOLEAN, NEW landed \in BOOLEAN
    PROVE  Sound([Begun EXCEPT ![Len(Begun)] =
                     Inserted(@, q, landed /\ ~future, ~future /\ q \notin Emitted /\ landed)],
                 TRUE)
<1> DEFINE old == Begun[Len(Begun)]
           notify == ~future /\ q \notin Emitted /\ landed
           new == Inserted(old, q, landed /\ ~future, notify)
<1>1. /\ Sound(Begun, TRUE) /\ Len(Begun) > 0 /\ old \in Frame /\ old.memo = Emitted
      /\ old.notified \cup old.memo \subseteq old.rows
      /\ Covered(old) /\ Begun \in Seq(Frame) /\ Len(Begun) \in Nat
  BY BegunSound DEF Sound
<1>2. /\ new.rows = IF landed /\ ~future THEN old.rows \cup {q} ELSE old.rows
      /\ new.notified = IF notify THEN old.notified \cup {q} ELSE old.notified
      /\ new.memo = IF notify THEN old.memo \cup {q} ELSE old.memo
      /\ new \in Frame
  BY <1>1 DEF Inserted, Frame
<1>3. new.notified \cup new.memo \subseteq new.rows
  BY <1>1, <1>2
<1>4. Covered(new)
  BY <1>1, <1>2 DEF Covered
<1>5. Sound([Begun EXCEPT ![Len(Begun)] = new], TRUE)
  BY <1>1, <1>2, <1>3, <1>4, ReplaceSound
<1>6. [Begun EXCEPT ![Len(Begun)] = Inserted(@, q, landed /\ ~future, notify)]
        = [Begun EXCEPT ![Len(Begun)] = new]
  BY <1>1
<1> QED
  BY <1>5, <1>6

\* Without a transaction there is nothing to cover.
LEMMA NothingSound == ASSUME NEW kept PROVE Sound(<<>>, kept)
<1>1. <<>> \in Seq(Frame) /\ Len(<<>>) = 0
  OBVIOUS
<1> QED
  BY <1>1, PublishAssumption DEF Sound

\* Before the first statement there is no transaction.
LEMMA InitTxn == Init => TxnInv
<1> SUFFICES ASSUME Init PROVE TxnInv
  OBVIOUS
<1>1. Sound(stack, ~broken)
  BY NothingSound DEF Init
<1> QED
  BY <1>1 DEF Init, TxnInv

\* Every step keeps the invariant: the statements change only the innermost
\* frame, a savepoint released passes on its rows with their NOTIFYs, and one
\* rolled back takes both with it.
LEMMA NextTxn == TxnInv /\ [Next]_vars => TxnInv'
<1> SUFFICES ASSUME TxnInv, [Next]_vars PROVE TxnInv'
  OBVIOUS
<1> USE DEF TxnInv
<1>1. CASE Begin
  <2>1. Sound(<<NewFrame>>, TRUE)
    <3>1. <<NewFrame>> \in Seq(Frame) /\ Len(<<NewFrame>>) = 1 /\ <<NewFrame>>[1] = NewFrame
      BY NewFrameSound
    <3> QED
      BY <3>1, NewFrameSound, PublishAssumption DEF Sound
  <2>2. Sound(stack', ~broken')
    BY <1>1, <2>1 DEF Begin, Sound
  <2> QED
    BY <1>1, <2>2 DEF Begin
<1>2. CASE BeginNested
  <2>1. Sound(stack', TRUE)
    BY <1>2, BegunSound, AppendSound DEF BeginNested
  <2> QED
    BY <1>2, <2>1 DEF BeginNested, Sound
<1>3. CASE Publishing
  <2>1. ~broken /\ sends' = sends + 1 /\ UNCHANGED <<broken, committed, delivered>>
    BY <1>3 DEF Publishing, Publish, PublishBatch
  <2>2. Sound(stack', TRUE)
    <3>1. PICK q \in Queue, future \in BOOLEAN :
              (\E landed \in BOOLEAN : Publish(q, future, landed)) \/ PublishBatch(q, future)
      BY <1>3 DEF Publishing
    <3>2. CASE \E landed \in BOOLEAN : Publish(q, future, landed)
      BY <2>1, <3>2, InsertSound DEF Publish
    <3>3. CASE PublishBatch(q, future)
      <4>1. stack' = [Begun EXCEPT ![Len(Begun)] =
                         Inserted(@, q, TRUE /\ ~future, ~future /\ q \notin Emitted /\ TRUE)]
        BY <3>3 DEF PublishBatch
      <4> QED
        BY <2>1, <4>1, InsertSound
    <3> QED
      BY <3>1, <3>2, <3>3
  <2> QED
    BY <2>1, <2>2 DEF Sound
<1>4. ASSUME NEW q \in Queue, NotifyFails(q) PROVE TxnInv'
  <2> DEFINE old == Begun[Len(Begun)]
             new == [old EXCEPT !.rows = @ \cup {q}, !.memo = @ \cup {q}]
  <2>1. /\ Sound(Begun, TRUE) /\ Len(Begun) > 0 /\ old \in Frame
        /\ old.notified \cup old.memo \subseteq old.rows
        /\ Begun \in Seq(Frame) /\ Len(Begun) \in Nat
    BY <1>4, BegunSound DEF NotifyFails, Sound
  <2>2. new \in Frame /\ new.notified \cup new.memo \subseteq new.rows
    BY <2>1 DEF Frame
  <2>3. stack' = [Begun EXCEPT ![Len(Begun)] = new]
    BY <1>4, <2>1 DEF NotifyFails, Frame
  <2>4. Sound(stack', FALSE)
    BY <2>1, <2>2, <2>3, ReplaceSound
  <2> QED
    BY <1>4, <2>4 DEF NotifyFails, Sound
<1>5. CASE StatementFails
  BY <1>5 DEF StatementFails, Sound
<1>6. CASE Release
  <2> DEFINE s == SubSeq(stack, 1, Depth - 1)
             new == [Outer EXCEPT !.rows = @ \cup Inner.rows,
                                  !.notified = @ \cup Inner.notified]
  <2>1. /\ ~broken /\ Depth > 1 /\ Depth \in Nat /\ stack \in Seq(Frame)
        /\ Outer \in Frame /\ Inner \in Frame
        /\ Covered(Outer) /\ Covered(Inner)
        /\ Outer.notified \cup Outer.memo \subseteq Outer.rows
        /\ Inner.notified \cup Inner.memo \subseteq Inner.rows
    BY <1>6 DEF Release, Sound, Depth, Inner, Outer
  <2>2. Sound(s, TRUE) /\ s \in Seq(Frame) /\ Len(s) = Depth - 1 /\ s[Len(s)] = Outer
    <3>1. Sound(s, TRUE)
      BY <2>1, DropSound DEF Depth
    <3>2. s \in Seq(Frame) /\ Len(s) = Depth - 1 /\ s[Len(s)] = stack[Depth - 1]
      BY <2>1 DEF Depth
    <3> QED
      BY <3>1, <3>2 DEF Outer
  <2>3. /\ new \in Frame /\ new.notified \cup new.memo \subseteq new.rows
        /\ Covered(new)
    BY <2>1 DEF Frame, Covered
  <2>4. stack' = [s EXCEPT ![Len(s)] = new]
    <3>1. stack' = [s EXCEPT ![Depth - 1].rows = @ \cup Inner.rows,
                            ![Depth - 1].notified = @ \cup Inner.notified]
      BY <1>6 DEF Release
    <3> HIDE DEF s
    <3>2. Depth - 1 \in DOMAIN s
      BY <2>1, <2>2
    <3> QED
      BY <2>1, <2>2, <3>1, <3>2 DEF Frame
  <2>5. Sound(stack', TRUE)
    <3>1. Len(s) > 0
      BY <2>1, <2>2
    <3> HIDE DEF s, new
    <3> QED
      BY <2>2, <2>3, <2>4, <3>1, ReplaceSound
  <2> QED
    BY <1>6, <2>5 DEF Release, Sound
<1>7. CASE RollbackToSavepoint
  <2>1. Sound(stack', TRUE)
    BY <1>7, DropSound DEF RollbackToSavepoint, Depth
  <2> QED
    BY <1>7, <2>1 DEF RollbackToSavepoint, Sound
<1>8. CASE Commit
  <2>a. Depth = 1 /\ Len(stack) = 1 /\ ~broken
    BY <1>8 DEF Commit, Depth
  <2>b. Depth \in DOMAIN stack
    BY <2>a DEF Depth
  <2>1. /\ Inner \in Frame /\ Covered(Inner)
        /\ Inner.notified \cup Inner.memo \subseteq Inner.rows
    BY <2>a, <2>b DEF Sound, Inner
  <2>2. Inner.rows = Inner.notified /\ Inner.rows \subseteq Queue
    BY <2>1 DEF Covered, Frame
  <2>3. Sound(stack', ~broken')
    BY <1>8, NothingSound DEF Commit
  <2> QED
    BY <1>8, <2>2, <2>3 DEF Commit
<1>9. CASE Rollback
  <2>1. Sound(stack', ~broken')
    BY <1>9, NothingSound DEF Rollback
  <2> QED
    BY <1>9, <2>1 DEF Rollback
<1>10. CASE UNCHANGED vars
  BY <1>10 DEF vars, Sound
<1> QED
  BY <1>1, <1>2, <1>3, <1>4, <1>5, <1>6, <1>7, <1>8, <1>9, <1>10 DEF Next

\* The invariant holds of every run.
THEOREM TxnInvariant == Spec => []TxnInv
<1> QED
  BY InitTxn, NextTxn, PTL DEF Spec

\* No committed row waits for a poll: the NOTIFY of its queue is delivered by
\* the same commit (CommittedAreNotified), whatever the memo silenced.
THEOREM CommitsNotify == Spec => []CommittedAreNotified
<1> QED
  BY TxnInvariant, InvMeans, PTL

\* A commit wakes nobody for rows it does not bring (NotifiedAreCommitted).
THEOREM NotifiesCommit == Spec => []NotifiedAreCommitted
<1> QED
  BY TxnInvariant, InvMeans, PTL
=============================================================================
