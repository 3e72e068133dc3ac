------------------------- MODULE OutboxTableProofs -------------------------
(***************************************************************************)
(* Proofs about OutboxTable for every value of its constants: first the    *)
(* leases, then what becomes of the rows over a whole history (how often   *)
(* their handlers run, what they are removed for, what is archived), and   *)
(* that all of it is at-least-once delivery.                               *)
(***************************************************************************)
EXTENDS OutboxRefinement, FiniteSetTheorems, TLAPS

-----------------------------------------------------------------------------
(* Type correctness. *)

\* What a claim does to the rows and to the copies is well typed.
LEMMA ClaimTypes ==
    ASSUME TypeOK, NEW S \in SUBSET Id, ClaimRows(S)
    PROVE  /\ lastToken' \in 0..MaxClaims
           /\ row' \in [Id -> Row]
           /\ \A i \in S : CopyOf(i) \in Copy
<1>a. now \in Nat /\ lastToken \in 0..MaxClaims /\ row \in [Id -> Row]
  BY ConstantsAssumption DEF TypeOK
<1>b. lastToken < MaxClaims /\ lastToken' = lastToken + 1
  BY DEF ClaimRows
<1>1. lastToken' \in 0..MaxClaims /\ lastToken + 1 \in Nat
  BY <1>a, <1>b, ConstantsAssumption
<1>2. ASSUME NEW i \in Id
      PROVE  [row[i] EXCEPT !.token = lastToken + 1, !.acquiredAt = now,
                            !.deliveries = @ + 1] \in Row
  <2>1. row[i] \in Row
    BY <1>a
  <2>2. row[i].deliveries + 1 \in Nat
    BY <2>1 DEF Row
  <2> QED
    BY <1>a, <1>1, <2>1, <2>2 DEF Row
<1>3. row' \in [Id -> Row]
  BY <1>a, <1>2 DEF ClaimRows
<1>4. ASSUME NEW i \in S PROVE CopyOf(i) \in Copy
  <2>1. row[i] \in Row
    BY <1>a
  <2>2. row[i].deliveries + 1 \in Nat /\ row[i].attempts \in Nat /\ row[i].payload \in Nat
    BY <2>1 DEF Row
  <2> QED
    BY <1>1, <2>2 DEF CopyOf, Copy, Phase, Outcome
<1> QED
  BY <1>1, <1>3, <1>4

\* An extended row is a row.
LEMMA ExtendedType ==
    ASSUME NEW r \in Row, NEW due \in Nat
    PROVE  Extended(r, due) \in Row
<1>1. r.payload + 1 \in Nat
  BY DEF Row
<1> QED
  BY <1>1 DEF Extended, Row

\* Every step preserves the types.
LEMMA TypeOKStep == TypeOK /\ [Next]_vars => TypeOK'
<1> SUFFICES ASSUME TypeOK, [Next]_vars PROVE TypeOK'
  OBVIOUS
<1> USE ConstantsAssumption
<1>1. CASE Tick
  BY <1>1 DEF TypeOK, Tick
<1>2. CASE Publishing
  <2> \A t \in Timer \cup {NoTimer}, due \in Nat : FreshRow(t, due) \in Row
    BY DEF FreshRow, BlankRow, Row, NoToken
  <2>1. ASSUME NEW n \in 1..MaxRows, NEW d \in Delay, Publish(n, d) PROVE TypeOK'
    BY <2>1 DEF TypeOK, Publish, Fate, Id
  <2>2. ASSUME NEW t \in Timer, NEW d \in Delay, InsertTimer(t, d) PROVE TypeOK'
    BY <2>2 DEF TypeOK, InsertTimer, Fate, Id
  <2>3. ASSUME NEW t \in Timer, NEW d \in Delay, ExtendTimer(t, d) PROVE TypeOK'
    <3>1. \A i \in Id : Extended(row[i], now + d) \in Row
      BY ExtendedType DEF TypeOK
    <3> QED
      BY <2>3, <3>1 DEF TypeOK, ExtendTimer, LiveTimer
  <2> QED
    BY <1>2, <2>1, <2>2, <2>3 DEF Publishing
<1>3. CASE Cancelling
  BY <1>3 DEF TypeOK, Cancelling, CancelTimer, LiveTimer, Fate
<1>4. CASE Claiming
  <2>1. ASSUME NEW S \in SUBSET Id, Fetch(S) \/ FetchReplyLost(S) PROVE TypeOK'
    BY <2>1, ClaimTypes DEF TypeOK, Fetch, FetchReplyLost
  <2> QED
    BY <1>4, <2>1 DEF Claiming
<1>5. CASE Delivering
  <2> PICK c \in copies :
        \/ StartHandler(c)
        \/ RefuseDelivery(c)
        \/ \E o \in {"ack", "retry", "retry_terminal", "rejected"} : RecordOutcome(c, o)
        \/ Abandon(c)
        \/ GiveUpWrite(c)
    BY <1>5 DEF Delivering
  <2>0. c \in Copy
    BY DEF TypeOK
  <2>1. CASE StartHandler(c)
    <3> [c EXCEPT !.phase = "running"] \in Copy
      BY <2>0 DEF Copy, Phase
    <3> QED
      BY <2>0, <2>1 DEF TypeOK, StartHandler, Become, Copy
  <2>2. CASE RefuseDelivery(c)
    <3>1. [c EXCEPT !.phase = "decided", !.outcome = "max_deliveries"] \in Copy
      BY <2>0 DEF Copy, Phase, Outcome, Reason
    <3>2. VerdictOn(c, "max_deliveries") \in Verdict
      BY <2>0 DEF VerdictOn, Verdict, Copy, Outcome, Reason
    <3> QED
      BY <2>2, <3>1, <3>2 DEF TypeOK, RefuseDelivery, Become
  <2>3. ASSUME NEW o \in {"ack", "retry", "retry_terminal", "rejected"}, RecordOutcome(c, o)
        PROVE  TypeOK'
    <3>0. c.attempts + 1 \in Nat
      BY <2>0 DEF Copy
    <3>1. [c EXCEPT !.phase = "decided", !.outcome = o, !.attempts = @ + 1] \in Copy
      BY <2>0, <3>0 DEF Copy, Phase, Outcome, Reason
    <3>2. VerdictOn(c, o) \in Verdict
      BY <2>0 DEF VerdictOn, Verdict, Copy, Outcome, Reason
    <3> QED
      BY <2>3, <3>1, <3>2 DEF TypeOK, RecordOutcome, Become
  <2>4. CASE Abandon(c)
    BY <2>4 DEF TypeOK, Abandon
  <2>5. CASE GiveUpWrite(c)
    <3> [c EXCEPT !.phase = "orphaned"] \in Copy
      BY <2>0 DEF Copy, Phase
    <3> QED
      BY <2>0, <2>5 DEF TypeOK, GiveUpWrite, Become
  <2> QED
    BY <2>1, <2>2, <2>3, <2>4, <2>5
<1>6. CASE Writing
  <2>1. ASSUME NEW c \in copies, DeleteWithLease(c) PROVE TypeOK'
    <3>1. row[c.id] \in Row /\ c \in Copy
      BY DEF TypeOK, Copy
    <3>2. [fate EXCEPT ![c.id] = FateOf(c)] \in [Id -> Fate]
      BY DEF TypeOK, FateOf, Fate
    <3>3. DeadLettered(c) =>
            [id |-> c.id, deliveries |-> row[c.id].deliveries,
             payload |-> row[c.id].payload, reason |-> c.outcome] \in DeadLetter
      BY <3>1 DEF DeadLettered, DeadLetter, Row, Copy
    <3> QED
      BY <2>1, <3>2, <3>3 DEF TypeOK, DeleteWithLease
  <2>2. ASSUME NEW c \in copies, NEW d \in Delay, MarkPendingWithLease(c, d) PROVE TypeOK'
    <3>1. row[c.id] \in Row /\ c \in Copy
      BY DEF TypeOK, Copy
    <3>2. [row[c.id] EXCEPT !.due = now + d, !.attempts = c.attempts,
                            !.token = NoToken, !.acquiredAt = 0] \in Row
      <4>1. now + d \in Nat /\ c.attempts \in Nat
        BY <3>1 DEF TypeOK, Copy
      <4> QED
        BY <3>1, <4>1 DEF Row, NoToken
    <3>3. row' = row \/ row' = [row EXCEPT ![c.id] =
                 [row[c.id] EXCEPT !.due = now + d, !.attempts = c.attempts,
                                   !.token = NoToken, !.acquiredAt = 0]]
      BY <2>2, <3>1 DEF MarkPendingWithLease, TypeOK, Copy, Row
    <3> QED
      BY <2>2, <3>2, <3>3 DEF TypeOK, MarkPendingWithLease
  <2>3. ASSUME NEW S \in SUBSET copies, DeleteBatchWithLease(S) PROVE TypeOK'
    <3>1. fate' \in [Id -> Fate]
      BY <2>3 DEF TypeOK, DeleteBatchWithLease, FateOf, Fate
    <3> QED
      BY <2>3, <3>1 DEF TypeOK, DeleteBatchWithLease
  <2> QED
    BY <1>6, <2>1, <2>2, <2>3 DEF Writing
<1>7. CASE UNCHANGED vars
  BY <1>7 DEF TypeOK, vars
<1> QED
  BY <1>1, <1>2, <1>3, <1>4, <1>5, <1>6, <1>7 DEF Next

\* The initial state has the declared types.
LEMMA TypeOKInit == Init => TypeOK
BY ConstantsAssumption DEF Init, TypeOK, BlankRow, Row, NoToken, Fate, Id

\* Type correctness: the clock, the counters, the rows, the dead letters and
\* the in-memory copies always have the declared types and bounds.
THEOREM TypeCorrect == Spec => []TypeOK
BY TypeOKInit, TypeOKStep, PTL DEF Spec
-----------------------------------------------------------------------------
(* Leases. *)

\* A fetch yields copies with a token no other copy has, equal to the rows it
\* claimed, and takes the lease of every earlier copy of those rows.
LEMMA ClaimLeaseInv ==
    ASSUME LeaseInv, NEW S \in SUBSET Id, Fetch(S) \/ FetchReplyLost(S)
    PROVE  ClaimsDistinct' /\ HolderIsCurrent'
<1>0. ClaimRows(S) /\ fate' = fate /\ lastId' = lastId
  BY DEF Fetch, FetchReplyLost
<1>1. /\ lastToken \in Nat /\ lastToken' = lastToken + 1
      /\ row \in [Id -> Row] /\ copies \subseteq Copy
      /\ S \subseteq Id /\ fate' = fate /\ lastId' = lastId
      /\ \A i \in S : Stored(i)
  <2>1. lastToken' = lastToken + 1 /\ \A i \in S : Stored(i)
    BY <1>0 DEF ClaimRows, Claimable
  <2> QED
    BY <1>0, <2>1 DEF LeaseInv, TypeOK
<1>2. ASSUME NEW i \in S
      PROVE  /\ row'[i].token = lastToken + 1
             /\ row'[i].deliveries = row[i].deliveries + 1
             /\ row'[i].attempts = row[i].attempts
             /\ row'[i].payload = row[i].payload
  <2>1. row'[i] = [row[i] EXCEPT !.token = lastToken + 1, !.acquiredAt = now,
                                 !.deliveries = @ + 1]
    BY <1>1 DEF Fetch, FetchReplyLost, ClaimRows
  <2>2. row[i] \in Row
    BY <1>1
  <2> QED
    BY <2>1, <2>2 DEF Row
<1>3. \A i \in Id \ S : row'[i] = row[i]
  BY DEF Fetch, FetchReplyLost, ClaimRows
<1>4. copies' \subseteq copies \cup {CopyOf(i) : i \in S}
  BY DEF Fetch, FetchReplyLost
<1>5. \A i \in S :
         /\ CopyOf(i).id = i
         /\ CopyOf(i).token = lastToken + 1
         /\ CopyOf(i).deliveries = row[i].deliveries + 1
         /\ CopyOf(i).attempts = row[i].attempts
         /\ CopyOf(i).payload = row[i].payload
         /\ CopyOf(i).phase = "queued"
  BY DEF CopyOf
<1>6. \A i \in Id : row[i].token \in Nat /\ row[i].attempts \in Nat
  BY <1>1 DEF Row
<1>7. \A i \in S : i \in 1..lastId
  BY <1>1 DEF LeaseInv, IdsInOrder, Stored, TypeOK, Id
<1>8. ClaimsDistinct'
  <2>1. \A i \in Id : row'[i].token <= lastToken'
    BY <1>1, <1>2, <1>3, <1>6 DEF LeaseInv, ClaimsDistinct
  <2>2. \A c \in copies' : c.token \in 1..lastToken' /\ c.id \in 1..lastId'
    BY <1>1, <1>4, <1>5, <1>7 DEF LeaseInv, ClaimsDistinct
  <2>3. \A c, d \in copies' : c.id = d.id /\ c.token = d.token => c = d
    BY <1>1, <1>4, <1>5 DEF LeaseInv, ClaimsDistinct
  <2> QED
    BY <2>1, <2>2, <2>3 DEF ClaimsDistinct
<1>9. HolderIsCurrent'
  <2>1. ASSUME NEW c \in copies', HoldsLease(c)', c \in copies
        PROVE  HoldsLease(c) /\ row'[c.id] = row[c.id]
    BY <1>1, <1>2, <1>3, <2>1 DEF LeaseInv, ClaimsDistinct, HoldsLease, Stored, Copy
  <2>2. ASSUME NEW i \in S
        PROVE  /\ CopyOf(i).payload = row'[i].payload
               /\ CopyOf(i).deliveries = row'[i].deliveries
               /\ CopyOf(i).attempts - row'[i].attempts = 0
    BY <1>1, <1>2, <1>5, <1>6
  <2> QED
    BY <1>1, <1>4, <1>5, <2>1, <2>2 DEF LeaseInv, HolderIsCurrent, WriteSent, CountedAttempts
<1> QED
  BY <1>8, <1>9

\* A copy that moves to another phase stays the copy of its claim.
LEMMA BecomeLeaseInv ==
    ASSUME LeaseInv, NEW c \in copies, NEW d \in Copy, Become(c, d),
           UNCHANGED <<row, fate, lastId, lastToken>>,
           d.id = c.id, d.token = c.token, d.payload = c.payload,
           d.deliveries = c.deliveries,
           d.attempts - c.attempts = CountedAttempts(d) - CountedAttempts(c)
    PROVE  ClaimsDistinct' /\ HolderIsCurrent'
<1>1. copies' = (copies \ {c}) \cup {d}
  BY DEF Become
<1>2. ClaimsDistinct'
  BY <1>1 DEF LeaseInv, ClaimsDistinct
<1>3. HoldsLease(d)' => HoldsLease(c)
  BY DEF HoldsLease, Stored
<1>4. HoldsLease(c) => d.attempts - row[c.id].attempts = CountedAttempts(d)
  <2>1. c \in Copy /\ row[c.id] \in Row
    BY DEF LeaseInv, TypeOK, Copy
  <2>2. c.attempts \in Nat /\ d.attempts \in Nat /\ row[c.id].attempts \in Nat
    BY <2>1 DEF Copy, Row
  <2>3. CountedAttempts(c) \in Int /\ CountedAttempts(d) \in Int
    BY DEF CountedAttempts
  <2>4. HoldsLease(c) => c.attempts - row[c.id].attempts = CountedAttempts(c)
    BY DEF LeaseInv, HolderIsCurrent
  <2> QED
    BY <2>2, <2>3, <2>4
<1>5. \A e \in copies \ {c} : HoldsLease(e)' => HoldsLease(e)
  BY DEF HoldsLease, Stored
<1>6. CountedAttempts(d)' = CountedAttempts(d)
      /\ \A e \in copies : CountedAttempts(e)' = CountedAttempts(e)
  BY DEF CountedAttempts, WriteSent
<1>7. HolderIsCurrent'
  BY <1>1, <1>3, <1>4, <1>5, <1>6 DEF LeaseInv, HolderIsCurrent
<1> QED
  BY <1>2, <1>7

\* Dropping copies, removing rows and changing rows nobody can write any more
\* leaves the other copies as they were.
LEMMA FewerHoldersLeaseInv ==
    ASSUME LeaseInv, copies' \subseteq copies, lastToken' = lastToken,
           lastId' \in Nat, lastId <= lastId',
           \A i \in Id : row'[i].token <= lastToken,
           \A c \in copies' : HoldsLease(c)' => HoldsLease(c) /\ row'[c.id] = row[c.id]
    PROVE  ClaimsDistinct' /\ HolderIsCurrent'
<1>1. \A c \in copies : c.id \in 1..lastId => c.id \in 1..lastId'
  BY DEF LeaseInv, TypeOK
<1>2. ClaimsDistinct'
  BY <1>1 DEF LeaseInv, ClaimsDistinct
<1>3. \A c \in copies : CountedAttempts(c)' = CountedAttempts(c)
  BY DEF CountedAttempts, WriteSent
<1>4. HolderIsCurrent'
  BY <1>3 DEF LeaseInv, HolderIsCurrent
<1> QED
  BY <1>2, <1>4

\* Ids stay in order: rows are inserted with the next ids and never return.
LEMMA IdsInOrderStep ==
    ASSUME TypeOK, IdsInOrder, Next
    PROVE  IdsInOrder'
<1> USE DEF IdsInOrder
<1>1. ASSUME lastId' = lastId, \A i \in Id : (fate'[i] = "unborn") <=> (fate[i] = "unborn")
      PROVE  IdsInOrder'
  BY <1>1
<1>2. CASE Tick \/ Claiming \/ Delivering
  BY <1>2, <1>1 DEF Tick, Claiming, Fetch, FetchReplyLost, Delivering, StartHandler,
                    RefuseDelivery, RecordOutcome, Abandon, GiveUpWrite
<1>3. CASE Publishing
  <2>1. ASSUME NEW n \in 1..MaxRows, NEW d \in Delay, Publish(n, d) PROVE IdsInOrder'
    BY <2>1 DEF Publish, TypeOK, Id
  <2>2. ASSUME NEW t \in Timer, NEW d \in Delay, InsertTimer(t, d) PROVE IdsInOrder'
    BY <2>2 DEF InsertTimer, TypeOK, Id
  <2>3. ASSUME NEW t \in Timer, NEW d \in Delay, ExtendTimer(t, d) PROVE IdsInOrder'
    BY <2>3, <1>1 DEF ExtendTimer
  <2> QED
    BY <1>3, <2>1, <2>2, <2>3 DEF Publishing
<1>4. CASE Cancelling
  BY <1>4, <1>1 DEF Cancelling, CancelTimer, LiveTimer, Stored, TypeOK
<1>5. CASE Writing
  <2>1. ASSUME NEW c \in copies, DeleteWithLease(c) PROVE IdsInOrder'
    BY <2>1, <1>1 DEF DeleteWithLease, HoldsLease, Stored, FateOf, TypeOK, Copy
  <2>2. ASSUME NEW c \in copies, NEW d \in Delay, MarkPendingWithLease(c, d) PROVE IdsInOrder'
    BY <2>2, <1>1 DEF MarkPendingWithLease
  <2>3. ASSUME NEW S \in SUBSET copies, DeleteBatchWithLease(S) PROVE IdsInOrder'
    BY <2>3, <1>1 DEF DeleteBatchWithLease, HoldsLease, Stored, FateOf, TypeOK
  <2> QED
    BY <1>5, <2>1, <2>2, <2>3 DEF Writing
<1> QED
  BY <1>2, <1>3, <1>4, <1>5 DEF Next

\* A row nobody has leased is held by no copy.
LEMMA UnleasedHasNoHolder ==
    ASSUME LeaseInv, NEW c \in copies
    PROVE  c.token # NoToken /\ c.id \in Id /\ (HoldsLease(c) => Leased(c.id))
BY DEF LeaseInv, TypeOK, ClaimsDistinct, Copy, HoldsLease, Leased, NoToken

\* Every step preserves the lease invariant.
LEMMA LeaseInvStep == LeaseInv /\ [Next]_vars => LeaseInv'
<1> SUFFICES ASSUME LeaseInv, [Next]_vars PROVE LeaseInv'
  OBVIOUS
<1> SUFFICES ClaimsDistinct' /\ HolderIsCurrent'
  <2>1. TypeOK'
    BY TypeOKStep DEF LeaseInv
  <2>2. CASE Next
    BY <2>1, <2>2, IdsInOrderStep DEF LeaseInv
  <2>3. CASE UNCHANGED vars
    BY <2>1, <2>3 DEF LeaseInv, IdsInOrder, vars
  <2> QED
    BY <2>2, <2>3
<1>0. /\ lastId \in Nat /\ lastToken \in Nat /\ row \in [Id -> Row]
      /\ copies \subseteq Copy
      /\ \A i \in Id : row[i].token <= lastToken
  BY DEF LeaseInv, TypeOK, ClaimsDistinct
<1>1. CASE Tick \/ UNCHANGED vars
  BY <1>1, <1>0, FewerHoldersLeaseInv DEF Tick, vars, HoldsLease, Stored
<1>2. CASE Publishing
  <2>1. ASSUME NEW n \in 1..MaxRows, NEW d \in Delay, Publish(n, d)
        PROVE  ClaimsDistinct' /\ HolderIsCurrent'
    <3>0. 1..lastId \subseteq Id
      <4>1. lastId \in 0..MaxRows
        BY DEF LeaseInv, TypeOK
      <4> QED
        BY <4>1, ConstantsAssumption DEF Id
    <3>1. \A i \in 1..lastId : fate'[i] = fate[i] /\ row'[i] = row[i]
      <4>1. lastId \in Int /\ n \in Int
        BY <1>0
      <4>2. \A i \in 1..lastId : i \notin lastId + 1 .. lastId + n
        BY <4>1
      <4> QED
        BY <2>1, <3>0, <4>2 DEF Publish
    <3>2. \A c \in copies : HoldsLease(c)' => HoldsLease(c) /\ row'[c.id] = row[c.id]
      BY <3>1 DEF LeaseInv, ClaimsDistinct, HoldsLease, Stored
    <3>3. \A i \in Id : row'[i].token <= lastToken
      BY <2>1, <1>0 DEF Publish, FreshRow, BlankRow, NoToken
    <3> QED
      BY <2>1, <1>0, <3>2, <3>3, FewerHoldersLeaseInv DEF Publish
  <2>2. ASSUME NEW t \in Timer, NEW d \in Delay, InsertTimer(t, d)
        PROVE  ClaimsDistinct' /\ HolderIsCurrent'
    <3>1. \A i \in 1..lastId : fate'[i] = fate[i] /\ row'[i] = row[i]
      BY <2>2, <1>0 DEF InsertTimer, LeaseInv, TypeOK, Id
    <3>2. \A c \in copies : HoldsLease(c)' => HoldsLease(c) /\ row'[c.id] = row[c.id]
      BY <3>1 DEF LeaseInv, ClaimsDistinct, HoldsLease, Stored
    <3>3. \A i \in Id : row'[i].token <= lastToken
      BY <2>2, <1>0 DEF InsertTimer, FreshRow, BlankRow, NoToken
    <3> QED
      BY <2>2, <1>0, <3>2, <3>3, FewerHoldersLeaseInv DEF InsertTimer
  <2>3. ASSUME NEW t \in Timer, NEW d \in Delay, ExtendTimer(t, d)
        PROVE  ClaimsDistinct' /\ HolderIsCurrent'
    <3> PICK i \in LiveTimer(t) :
          ~Leased(i) /\ row' = [row EXCEPT ![i] = Extended(row[i], now + d)]
      BY <2>3 DEF ExtendTimer
    <3>1. Extended(row[i], now + d).token = row[i].token
      BY <1>0 DEF Extended, LiveTimer, Row
    <3>2. \A j \in Id : row'[j].token = row[j].token /\ (j # i => row'[j] = row[j])
      BY <3>1, <1>0
    <3>3. \A c \in copies : HoldsLease(c)' => HoldsLease(c) /\ row'[c.id] = row[c.id]
      BY <2>3, <3>2, UnleasedHasNoHolder DEF ExtendTimer, HoldsLease, Stored
    <3> QED
      BY <2>3, <1>0, <3>2, <3>3, FewerHoldersLeaseInv DEF ExtendTimer
  <2> QED
    BY <1>2, <2>1, <2>2, <2>3 DEF Publishing
<1>3. CASE Cancelling
  <2> PICK t \in Timer : CancelTimer(t)
    BY <1>3 DEF Cancelling
  <2>1. \A c \in copies : HoldsLease(c)' => HoldsLease(c)
    BY UnleasedHasNoHolder DEF CancelTimer, HoldsLease, Stored, LeaseInv, TypeOK
  <2> QED
    BY <1>0, <2>1, FewerHoldersLeaseInv DEF CancelTimer
<1>4. CASE Claiming
  BY <1>4, ClaimLeaseInv DEF Claiming
<1>5. CASE Delivering
  <2> PICK c \in copies :
        \/ StartHandler(c)
        \/ RefuseDelivery(c)
        \/ \E o \in {"ack", "retry", "retry_terminal", "rejected"} : RecordOutcome(c, o)
        \/ Abandon(c)
        \/ GiveUpWrite(c)
    BY <1>5 DEF Delivering
  <2>0. c \in Copy /\ c.attempts \in Nat
    BY <1>0 DEF Copy
  <2>1. CASE StartHandler(c)
    <3> DEFINE d == [c EXCEPT !.phase = "running"]
    <3>1. d \in Copy
      BY <2>0 DEF Copy, Phase
    <3>2. d.attempts - c.attempts = CountedAttempts(d) - CountedAttempts(c)
      BY <2>0, <2>1 DEF Copy, CountedAttempts, WriteSent, StartHandler
    <3>3. /\ d.id = c.id /\ d.token = c.token /\ d.payload = c.payload
          /\ d.deliveries = c.deliveries
      BY <2>0 DEF Copy
    <3> QED
      BY <2>1, <3>1, <3>2, <3>3, BecomeLeaseInv DEF StartHandler
  <2>2. CASE RefuseDelivery(c)
    <3> DEFINE d == [c EXCEPT !.phase = "decided", !.outcome = "max_deliveries"]
    <3>1. d \in Copy
      BY <2>0 DEF Copy, Phase, Outcome, Reason
    <3>2. d.attempts - c.attempts = CountedAttempts(d) - CountedAttempts(c)
      BY <2>0, <2>2 DEF Copy, CountedAttempts, WriteSent, RefuseDelivery
    <3>3. /\ d.id = c.id /\ d.token = c.token /\ d.payload = c.payload
          /\ d.deliveries = c.deliveries
      BY <2>0 DEF Copy
    <3> QED
      BY <2>2, <3>1, <3>2, <3>3, BecomeLeaseInv DEF RefuseDelivery
  <2>3. ASSUME NEW o \in {"ack", "retry", "retry_terminal", "rejected"}, RecordOutcome(c, o)
        PROVE  ClaimsDistinct' /\ HolderIsCurrent'
    <3> DEFINE d == [c EXCEPT !.phase = "decided", !.outcome = o, !.attempts = @ + 1]
    <3>1. d.attempts = c.attempts + 1 /\ d.phase = "decided" /\ d.outcome = o
      BY <2>0 DEF Copy
    <3>2. d \in Copy
      <4>1. c.attempts + 1 \in Nat
        BY <2>0
      <4> QED
        BY <2>0, <4>1 DEF Copy, Phase, Outcome, Reason
    <3>3. d.attempts - c.attempts = CountedAttempts(d) - CountedAttempts(c)
      <4>1. CountedAttempts(d) = 1 /\ CountedAttempts(c) = 0
        BY <2>3, <3>1 DEF CountedAttempts, WriteSent, RecordOutcome
      <4> HIDE DEF d
      <4> QED
        BY <2>0, <3>1, <4>1
    <3>4. /\ d.id = c.id /\ d.token = c.token /\ d.payload = c.payload
          /\ d.deliveries = c.deliveries
      BY <2>0 DEF Copy
    <3> QED
      BY <2>3, <3>2, <3>3, <3>4, BecomeLeaseInv DEF RecordOutcome
  <2>4. CASE Abandon(c)
    BY <1>0, <2>4, FewerHoldersLeaseInv DEF Abandon, HoldsLease, Stored
  <2>5. CASE GiveUpWrite(c)
    <3> DEFINE d == [c EXCEPT !.phase = "orphaned"]
    <3>1. d \in Copy
      BY <2>0 DEF Copy, Phase
    <3>2. d.attempts - c.attempts = CountedAttempts(d) - CountedAttempts(c)
      BY <2>0, <2>5 DEF Copy, CountedAttempts, WriteSent, GiveUpWrite
    <3>3. /\ d.id = c.id /\ d.token = c.token /\ d.payload = c.payload
          /\ d.deliveries = c.deliveries
      BY <2>0 DEF Copy
    <3> QED
      BY <2>5, <3>1, <3>2, <3>3, BecomeLeaseInv DEF GiveUpWrite
  <2> QED
    BY <2>1, <2>2, <2>3, <2>4, <2>5
<1>6. CASE Writing
  <2>1. ASSUME NEW c \in copies, DeleteWithLease(c)
        PROVE  ClaimsDistinct' /\ HolderIsCurrent'
    <3>1. \A e \in copies : HoldsLease(e)' => HoldsLease(e)
      BY <2>1, <1>0 DEF DeleteWithLease, HoldsLease, Stored, Copy, LeaseInv, TypeOK
    <3> QED
      BY <1>0, <2>1, <3>1, FewerHoldersLeaseInv DEF DeleteWithLease
  <2>2. ASSUME NEW c \in copies, NEW d \in Delay, MarkPendingWithLease(c, d)
        PROVE  ClaimsDistinct' /\ HolderIsCurrent'
    <3>1. CASE HoldsLease(c)
      <4>1. /\ c.id \in Id /\ row[c.id] \in Row
            /\ \A e \in copies : e.id \in Id
        BY <1>0 DEF Copy
      <4>2. row'[c.id].token = NoToken /\ \A i \in Id \ {c.id} : row'[i] = row[i]
        BY <2>2, <3>1, <4>1, <1>0 DEF MarkPendingWithLease, Row
      <4>3. \A i \in Id : row'[i].token <= lastToken
        BY <4>2, <1>0 DEF NoToken
      <4>4. \A e \in copies : HoldsLease(e)' => HoldsLease(e) /\ row'[e.id] = row[e.id]
        BY <2>2, <4>1, <4>2, UnleasedHasNoHolder DEF MarkPendingWithLease, HoldsLease, Stored
      <4>5. copies' \subseteq copies /\ lastToken' = lastToken /\ lastId' = lastId
        BY <2>2 DEF MarkPendingWithLease
      <4> QED
        BY <1>0, <4>3, <4>4, <4>5, FewerHoldersLeaseInv
    <3>2. CASE ~HoldsLease(c)
      <4>1. copies' \subseteq copies /\ row' = row /\ UNCHANGED <<lastToken, lastId, fate>>
        BY <2>2, <3>2 DEF MarkPendingWithLease
      <4>2. \A e \in copies : HoldsLease(e)' => HoldsLease(e) /\ row'[e.id] = row[e.id]
        BY <4>1 DEF HoldsLease, Stored
      <4>3. \A i \in Id : row'[i].token <= lastToken
        BY <1>0, <4>1
      <4> QED
        BY <1>0, <4>1, <4>2, <4>3, FewerHoldersLeaseInv
    <3> QED
      BY <3>1, <3>2
  <2>3. ASSUME NEW S \in SUBSET copies, DeleteBatchWithLease(S)
        PROVE  ClaimsDistinct' /\ HolderIsCurrent'
    <3>1. \A e \in copies : HoldsLease(e)' => HoldsLease(e)
      BY <2>3, <1>0 DEF DeleteBatchWithLease, HoldsLease, Stored, Copy, FateOf
    <3> QED
      BY <1>0, <2>3, <3>1, FewerHoldersLeaseInv DEF DeleteBatchWithLease
  <2> QED
    BY <1>6, <2>1, <2>2, <2>3 DEF Writing
<1> QED
  BY <1>1, <1>2, <1>3, <1>4, <1>5, <1>6 DEF Next

\* The lease invariant holds initially.
LEMMA LeaseInvInit == Init => LeaseInv
BY TypeOKInit, ConstantsAssumption
   DEF Init, LeaseInv, IdsInOrder, ClaimsDistinct, HolderIsCurrent, BlankRow, NoToken, Id

\* Mutual exclusion of leases: among all copies of a row in the memory of any
\* replica, at most one can still write it, for any number of rows, claims,
\* replicas and any lease_ttl_seconds.
THEOREM LeaseExclusive == Spec => []SingleHolder
<1>1. LeaseInv => SingleHolder
  BY DEF LeaseInv, ClaimsDistinct, SingleHolder, HoldsLease
<1> QED
  BY <1>1, LeaseInvInit, LeaseInvStep, PTL DEF Spec

\* The copy that can still write a row equals the row, so the attempt count it
\* writes back and the payload its handler saw are never stale.
THEOREM HolderNeverStale == Spec => []HolderIsCurrent
<1>1. LeaseInv => HolderIsCurrent
  BY DEF LeaseInv
<1> QED
  BY <1>1, LeaseInvInit, LeaseInvStep, PTL DEF Spec
-----------------------------------------------------------------------------
(* What a step may do to a row. *)

\* A row is leased only after it was published and once it was due; nothing
\* moves its deadline while it is leased.
LeasedAreDue == \A i \in Id : Leased(i) => i <= lastId /\ row[i].due <= now

\* Every step preserves LeasedAreDue.
LEMMA LeasedAreDueStep == LeaseInv /\ LeasedAreDue /\ [Next]_vars => LeasedAreDue'
<1> SUFFICES ASSUME LeaseInv, LeasedAreDue, [Next]_vars, NEW i \in Id, Leased(i)'
             PROVE  i <= lastId' /\ row'[i].due <= now'
  BY DEF LeasedAreDue
<1>0. /\ lastId \in Nat /\ now \in Nat /\ row[i] \in Row /\ row \in [Id -> Row] /\ i \in Nat
      /\ (fate[i] = "unborn") <=> i > lastId
      /\ \A c \in copies : c.id \in Id
  BY ConstantsAssumption DEF LeaseInv, TypeOK, Copy, IdsInOrder, Id
<1>1. CASE /\ lastId' \in Nat /\ lastId <= lastId' /\ now' \in Nat /\ now <= now'
           /\ row'[i] = row[i]
  <2>1. i <= lastId /\ row[i].due <= now /\ row[i].due \in Nat
    BY <1>0, <1>1 DEF LeasedAreDue, Leased, Row
  <2> QED
    BY <1>0, <1>1, <2>1
<1>2. CASE row'[i].token = NoToken
  BY <1>2 DEF Leased
<1>3. CASE Tick \/ Delivering \/ UNCHANGED vars
  <2>1. lastId' = lastId /\ row' = row /\ now' \in {now, now + 1}
    BY <1>3 DEF Tick, Delivering, StartHandler, RefuseDelivery, RecordOutcome, Abandon,
       GiveUpWrite, vars
  <2> QED
    BY <1>0, <1>1, <2>1
<1>4. CASE Publishing
  <2>1. ASSUME NEW n \in 1..MaxRows, NEW d \in Delay, Publish(n, d)
        PROVE  i <= lastId' /\ row'[i].due <= now'
    <3>1. lastId' = lastId + n /\ now' = now
      BY <2>1 DEF Publish
    <3>2. row'[i] = row[i] \/ row'[i] = FreshRow(NoTimer, now + d)
      BY <2>1 DEF Publish
    <3>3. FreshRow(NoTimer, now + d).token = NoToken /\ lastId <= lastId + n /\ lastId + n \in Nat
      BY <1>0, ConstantsAssumption DEF FreshRow, BlankRow
    <3> QED
      BY <1>0, <1>1, <1>2, <3>1, <3>2, <3>3
  <2>2. ASSUME NEW t \in Timer, NEW d \in Delay, InsertTimer(t, d)
        PROVE  i <= lastId' /\ row'[i].due <= now'
    <3>1. lastId' = lastId + 1 /\ now' = now
      BY <2>2 DEF InsertTimer
    <3>2. row'[i] = row[i] \/ row'[i] = FreshRow(t, now + d)
      BY <1>0, <2>2 DEF InsertTimer
    <3>3. FreshRow(t, now + d).token = NoToken
      BY DEF FreshRow, BlankRow
    <3> QED
      BY <1>0, <1>1, <1>2, <3>1, <3>2, <3>3
  <2>3. ASSUME NEW t \in Timer, NEW d \in Delay, ExtendTimer(t, d)
        PROVE  i <= lastId' /\ row'[i].due <= now'
    <3>1. PICK j \in Id : /\ row[j].token = NoToken
                          /\ row' = [row EXCEPT ![j] = Extended(row[j], now + d)]
                          /\ lastId' = lastId /\ now' = now
      BY <2>3 DEF ExtendTimer, LiveTimer, Leased
    <3>2. CASE i = j
      <4>1. row'[i] = Extended(row[i], now + d)
        BY <1>0, <3>1, <3>2
      <4>2. row'[i].token = NoToken
        BY <1>0, <3>1, <3>2, <4>1 DEF Extended, Row
      <4> QED
        BY <1>2, <4>2
    <3>3. CASE i # j
      BY <1>0, <1>1, <3>1, <3>3
    <3> QED
      BY <3>2, <3>3
  <2> QED
    BY <1>4, <2>1, <2>2, <2>3 DEF Publishing
<1>5. CASE Cancelling
  BY <1>0, <1>1, <1>5 DEF Cancelling, CancelTimer
<1>6. CASE Claiming
  <2>1. PICK S \in SUBSET Id : ClaimRows(S) /\ lastId' = lastId /\ now' = now
    BY <1>6 DEF Claiming, Fetch, FetchReplyLost
  <2>2. CASE i \in S
    <3>1. Stored(i) /\ row[i].due <= now
      BY <2>1, <2>2 DEF ClaimRows, Claimable
    <3>2. row'[i].due = row[i].due
      BY <1>0, <2>1, <2>2 DEF ClaimRows, Row
    <3> QED
      BY <1>0, <2>1, <3>1, <3>2 DEF Stored
  <2>3. CASE i \notin S
    <3>1. row'[i] = row[i]
      BY <2>1, <2>3 DEF ClaimRows
    <3> QED
      BY <1>0, <1>1, <2>1, <3>1
  <2> QED
    BY <2>2, <2>3
<1>7. CASE Writing
  <2>1. ASSUME NEW c \in copies, NEW d \in Delay, MarkPendingWithLease(c, d)
        PROVE  i <= lastId' /\ row'[i].due <= now'
    <3>1. lastId' = lastId /\ now' = now
      BY <2>1 DEF MarkPendingWithLease
    <3>2. row'[i] = row[i] \/ row'[i].token = NoToken
      <4>1. CASE HoldsLease(c) /\ i = c.id
        BY <1>0, <2>1, <4>1 DEF MarkPendingWithLease, Row
      <4>2. CASE ~(HoldsLease(c) /\ i = c.id)
        BY <1>0, <2>1, <4>2 DEF MarkPendingWithLease
      <4> QED
        BY <4>1, <4>2
    <3> QED
      BY <1>0, <1>1, <1>2, <3>1, <3>2
  <2>2. ASSUME NEW c \in copies, DeleteWithLease(c)
        PROVE  i <= lastId' /\ row'[i].due <= now'
    <3>1. lastId' = lastId /\ now' = now /\ row' = row
      BY <2>2 DEF DeleteWithLease
    <3> QED
      BY <1>0, <1>1, <3>1
  <2>3. ASSUME NEW S \in SUBSET copies, DeleteBatchWithLease(S)
        PROVE  i <= lastId' /\ row'[i].due <= now'
    <3>1. lastId' = lastId /\ now' = now /\ row' = row
      BY <2>3 DEF DeleteBatchWithLease
    <3> QED
      BY <1>0, <1>1, <3>1
  <2> QED
    BY <1>7, <2>1, <2>2, <2>3 DEF Writing
<1> QED
  BY <1>3, <1>4, <1>5, <1>6, <1>7 DEF Next

\* Nothing is leased before the first claim.
LEMMA LeasedAreDueInit == Init => LeasedAreDue
BY DEF Init, LeasedAreDue, Leased, BlankRow

\* A deadline never comes nearer in one step.
LEMMA DeadlineStep ==
    LeaseInv /\ LeasedAreDue /\ [Next]_vars
      => \A i \in 1..lastId : row'[i].due >= row[i].due
<1> SUFFICES ASSUME LeaseInv, LeasedAreDue, [Next]_vars, NEW i \in 1..lastId
             PROVE  row'[i].due >= row[i].due
  OBVIOUS
<1>0. /\ lastId \in Nat /\ now \in Nat /\ row \in [Id -> Row]
      /\ i \in Id /\ row[i] \in Row /\ row[i].due \in Nat
      /\ \A c \in copies : c.id \in Id /\ c.token \in 1..lastToken
      /\ lastToken \in Nat
  BY ConstantsAssumption DEF LeaseInv, TypeOK, ClaimsDistinct, Copy, Row, Id
<1>1. CASE row'[i] = row[i]
  BY <1>0, <1>1
<1>2. CASE Tick \/ Cancelling \/ Delivering \/ UNCHANGED vars
  <2>1. row' = row
    BY <1>2 DEF Tick, Cancelling, CancelTimer, Delivering, StartHandler, RefuseDelivery,
       RecordOutcome, Abandon, GiveUpWrite, vars
  <2> QED
    BY <1>1, <2>1
<1>3. CASE Publishing
  <2>1. ASSUME NEW n \in 1..MaxRows, NEW d \in Delay, Publish(n, d)
        PROVE  row'[i].due >= row[i].due
    <3>1. i \notin lastId + 1 .. lastId + n
      BY <1>0
    <3> QED
      BY <1>0, <1>1, <2>1, <3>1 DEF Publish
  <2>2. ASSUME NEW t \in Timer, NEW d \in Delay, InsertTimer(t, d)
        PROVE  row'[i].due >= row[i].due
    <3>1. i # lastId + 1
      BY <1>0
    <3> QED
      BY <1>0, <1>1, <2>2, <3>1 DEF InsertTimer
  <2>3. ASSUME NEW t \in Timer, NEW d \in Delay, ExtendTimer(t, d)
        PROVE  row'[i].due >= row[i].due
    <3>1. PICK j \in Id : row' = [row EXCEPT ![j] = Extended(row[j], now + d)]
      BY <2>3 DEF ExtendTimer, LiveTimer
    <3>2. CASE i = j
      <4>1. row'[i] = Extended(row[i], now + d) /\ now + d \in Nat
        BY <1>0, <3>1, <3>2, ConstantsAssumption
      <4> QED
        BY <1>0, <4>1 DEF Extended, Row
    <3>3. CASE i # j
      BY <1>0, <1>1, <3>1, <3>3
    <3> QED
      BY <3>2, <3>3
  <2> QED
    BY <1>3, <2>1, <2>2, <2>3 DEF Publishing
<1>4. CASE Claiming
  <2>1. row'[i].due = row[i].due
    BY <1>0, <1>4 DEF Claiming, Fetch, FetchReplyLost, ClaimRows, Row
  <2> QED
    BY <1>0, <2>1
<1>5. CASE Writing
  <2>1. ASSUME NEW c \in copies, NEW d \in Delay, MarkPendingWithLease(c, d)
        PROVE  row'[i].due >= row[i].due
    <3>1. CASE HoldsLease(c) /\ i = c.id
      <4>1. row'[i].due = now + d
        BY <1>0, <2>1, <3>1 DEF MarkPendingWithLease, Row
      <4>2. Leased(i)
        BY <1>0, <3>1 DEF HoldsLease, Leased, NoToken
      <4> QED
        BY <1>0, <4>1, <4>2, ConstantsAssumption DEF LeasedAreDue
    <3>2. CASE ~(HoldsLease(c) /\ i = c.id)
      BY <1>0, <1>1, <2>1, <3>2 DEF MarkPendingWithLease
    <3> QED
      BY <3>1, <3>2
  <2>2. ASSUME NEW c \in copies, DeleteWithLease(c)
        PROVE  row'[i].due >= row[i].due
    BY <1>1, <2>2 DEF DeleteWithLease
  <2>3. ASSUME NEW S \in SUBSET copies, DeleteBatchWithLease(S)
        PROVE  row'[i].due >= row[i].due
    BY <1>1, <2>3 DEF DeleteBatchWithLease
  <2> QED
    BY <1>5, <2>1, <2>2, <2>3 DEF Writing
<1> QED
  BY <1>2, <1>3, <1>4, <1>5 DEF Next

\* A step settles or unleases a row only for a copy of its latest claim.
LEMMA LatestClaimStep ==
    LeaseInv /\ LeasedAreDue /\ [Next]_vars
      => \A i \in Id :
            \/ Stored(i) /\ fate'[i] \in {"acked", "dead"}
            \/ Leased(i) /\ row'[i].token = NoToken
            => \E c \in copies \ copies' : c.id = i /\ c.deliveries = row[i].deliveries
<1> SUFFICES ASSUME LeaseInv, LeasedAreDue, [Next]_vars, NEW i \in Id,
                    \/ Stored(i) /\ fate'[i] \in {"acked", "dead"}
                    \/ Leased(i) /\ row'[i].token = NoToken
             PROVE  \E c \in copies \ copies' : c.id = i /\ c.deliveries = row[i].deliveries
  OBVIOUS
<1>0. /\ lastId \in Nat /\ i \in Nat /\ row \in [Id -> Row] /\ fate \in [Id -> Fate]
      /\ lastToken \in Nat /\ lastToken + 1 # NoToken
      /\ Leased(i) => i <= lastId
      /\ \A c \in copies : c.id \in Id
  BY ConstantsAssumption DEF LeaseInv, TypeOK, LeasedAreDue, Copy, Id, NoToken
<1>1. ASSUME NEW c \in copies \ copies', HoldsLease(c), c.id = i
      PROVE  \E e \in copies \ copies' : e.id = i /\ e.deliveries = row[i].deliveries
  BY <1>1 DEF LeaseInv, HolderIsCurrent
<1>2. CASE /\ fate'[i] = fate[i] \/ fate'[i] \in {"stored", "cancelled"}
           /\ Leased(i) => row'[i].token # NoToken
  BY <1>2 DEF Stored
<1>3. CASE Tick \/ Delivering \/ UNCHANGED vars
  <2>1. row' = row /\ fate' = fate
    BY <1>3 DEF Tick, Delivering, StartHandler, RefuseDelivery, RecordOutcome, Abandon,
       GiveUpWrite, vars
  <2> QED
    BY <1>2, <2>1 DEF Leased
<1>4. CASE Publishing
  <2>1. ASSUME NEW n \in 1..MaxRows, NEW d \in Delay, Publish(n, d)
        PROVE  FALSE
    <3>1. Leased(i) => row'[i] = row[i]
      <4>1. Leased(i) => i \notin lastId + 1 .. lastId + n
        BY <1>0
      <4> QED
        BY <2>1, <4>1 DEF Publish
    <3>2. fate'[i] = fate[i] \/ fate'[i] = "stored"
      BY <2>1 DEF Publish
    <3> QED
      BY <3>1, <3>2 DEF Leased, Stored
  <2>2. ASSUME NEW t \in Timer, NEW d \in Delay, InsertTimer(t, d)
        PROVE  FALSE
    <3>1. Leased(i) => row'[i] = row[i]
      <4>1. Leased(i) => i # lastId + 1
        BY <1>0
      <4> QED
        BY <1>0, <2>2, <4>1 DEF InsertTimer
    <3>2. fate'[i] = fate[i] \/ fate'[i] = "stored"
      BY <1>0, <2>2 DEF InsertTimer
    <3> QED
      BY <3>1, <3>2 DEF Leased, Stored
  <2>3. ASSUME NEW t \in Timer, NEW d \in Delay, ExtendTimer(t, d)
        PROVE  FALSE
    <3>1. fate' = fate /\ (Leased(i) => row'[i] = row[i])
      BY <1>0, <2>3 DEF ExtendTimer, LiveTimer, Leased
    <3> QED
      BY <3>1 DEF Leased, Stored
  <2> QED
    BY <1>4, <2>1, <2>2, <2>3 DEF Publishing
<1>5. CASE Cancelling
  <2>1. row' = row /\ (fate'[i] = fate[i] \/ fate'[i] = "cancelled")
    BY <1>0, <1>5 DEF Cancelling, CancelTimer, LiveTimer
  <2> QED
    BY <2>1 DEF Leased, Stored
<1>6. CASE Claiming
  <2>1. fate' = fate
    BY <1>6 DEF Claiming, Fetch, FetchReplyLost
  <2>2. row'[i].token \in {row[i].token, lastToken + 1}
    BY <1>0, <1>6 DEF Claiming, Fetch, FetchReplyLost, ClaimRows, Row
  <2> QED
    BY <1>0, <2>1, <2>2 DEF Leased, Stored
<1>7. CASE Writing
  <2>1. ASSUME NEW c \in copies, DeleteWithLease(c)
        PROVE  \E e \in copies \ copies' : e.id = i /\ e.deliveries = row[i].deliveries
    <3>1. HoldsLease(c) /\ c.id = i
      BY <1>0, <2>1 DEF DeleteWithLease, Leased, Stored
    <3> QED
      BY <1>1, <2>1, <3>1 DEF DeleteWithLease
  <2>2. ASSUME NEW c \in copies, NEW d \in Delay, MarkPendingWithLease(c, d)
        PROVE  \E e \in copies \ copies' : e.id = i /\ e.deliveries = row[i].deliveries
    <3>1. HoldsLease(c) /\ c.id = i
      BY <1>0, <2>2 DEF MarkPendingWithLease, Leased, Stored
    <3> QED
      BY <1>1, <2>2, <3>1 DEF MarkPendingWithLease
  <2>3. ASSUME NEW S \in SUBSET copies, DeleteBatchWithLease(S)
        PROVE  \E e \in copies \ copies' : e.id = i /\ e.deliveries = row[i].deliveries
    <3>1. row' = row /\ copies' = copies \ S
      BY <2>3 DEF DeleteBatchWithLease
    <3>2. PICK c \in S : c.id = i /\ HoldsLease(c)
      BY <1>0, <2>3 DEF DeleteBatchWithLease, Leased, Stored
    <3> QED
      BY <1>1, <3>1, <3>2
  <2> QED
    BY <1>7, <2>1, <2>2, <2>3 DEF Writing
<1> QED
  BY <1>3, <1>4, <1>5, <1>6, <1>7 DEF Next

\* Extends and retries, in any order and however late, never pull the deadline
\* of a row in (DeadlineOnlyMovesLater).
THEOREM DeadlinesHold == Spec => DeadlineOnlyMovesLater
<1>1. LeaseInv /\ LeasedAreDue /\ [Next]_vars => [\A i \in 1..lastId : row'[i].due >= row[i].due]_vars
  BY DeadlineStep
<1> QED
  BY <1>1, LeaseInvInit, LeaseInvStep, LeasedAreDueInit, LeasedAreDueStep, PTL
     DEF Spec, DeadlineOnlyMovesLater

\* A slow worker whose row was claimed again settles and reschedules nothing
\* (OnlyLatestClaimWrites), for any number of workers, claims and crashes.
THEOREM OnlyLatestWrites == Spec => OnlyLatestClaimWrites
<1>1. LeaseInv /\ LeasedAreDue /\ [Next]_vars
        => [\A i \in Id :
               \/ Stored(i) /\ fate'[i] \in {"acked", "dead"}
               \/ Leased(i) /\ row'[i].token = NoToken
               => \E c \in copies \ copies' : c.id = i /\ c.deliveries = row[i].deliveries]_vars
  BY LatestClaimStep
<1> QED
  BY <1>1, LeaseInvInit, LeaseInvStep, LeasedAreDueInit, LeasedAreDueStep, PTL
     DEF Spec, OnlyLatestClaimWrites
-----------------------------------------------------------------------------
(* Histories: the inductive invariant. *)

\* The copies of a row in memory are of different deliveries of it.
DeliveriesDistinct ==
    /\ \A c \in copies : c.deliveries \in 1..row[c.id].deliveries
    /\ \A c, d \in copies : c.id = d.id /\ c.deliveries = d.deliveries => c = d

\* A row that was never inserted was never delivered.
UnbornUndelivered == \A i \in Id : i > lastId => row[i].deliveries = 0

\* The deliveries of a row within max_deliveries whose handler may have run:
\* all but those whose copy still waits in a queue.
Spent(i) ==
    {k \in 1..row[i].deliveries :
        /\ k <= MaxDeliveries
        /\ \A c \in copies : c.id = i /\ c.phase = "queued" => c.deliveries # k}

\* Every handler run has used up a delivery of its own.
RunsAreDeliveries == \A i \in Id : invocations[i] <= Cardinality(Spent(i))

\* Every attempt that is counted, or will be by the holder of the lease, was a
\* handler run.
Tried(c) == c.phase = "running" \/ CountedAttempts(c) = 1

AttemptsAreRuns ==
    /\ \A i \in Id : row[i].attempts <= invocations[i]
    /\ \A c \in copies : c.phase = "running" => invocations[c.id] > 0
    /\ \A c \in copies : HoldsLease(c) /\ Tried(c) => row[c.id].attempts < invocations[c.id]

\* A write under way carries a verdict that was recorded, and one without a
\* handler run only for a delivery beyond max_deliveries.
VerdictsRecorded ==
    \A c \in copies :
        /\ c.phase = "running" => AllowDelivery(c)
        /\ WriteSent(c) => /\ VerdictOn(c, c.outcome) \in verdicts
                           /\ (c.outcome = "max_deliveries") <=> ~AllowDelivery(c)

Runs ==
    /\ DeliveriesDistinct /\ UnbornUndelivered
    /\ RunsAreDeliveries /\ AttemptsAreRuns /\ VerdictsRecorded

HistoryInv == LeaseInv /\ Runs /\ NothingLost /\ DeadLettersFaithful

-----------------------------------------------------------------------------
(* How often handlers run. *)

\* The facts about types that the proofs below keep using.
LEMMA HistoryTypes ==
    ASSUME TypeOK
    PROVE  /\ \A i \in Id : /\ row[i] \in Row
                            /\ row[i].deliveries \in Nat /\ row[i].attempts \in Nat
                            /\ invocations[i] \in Nat
           /\ \A c \in copies : /\ c \in Copy /\ c.id \in Id
                                /\ c.deliveries \in Nat /\ c.attempts \in Nat
           /\ lastId \in Nat /\ Id \subseteq Nat
<1>1. \A r \in Row : r.deliveries \in Nat /\ r.attempts \in Nat
  BY DEF Row
<1>2. \A c \in Copy : c.id \in Id /\ c.deliveries \in Nat /\ c.attempts \in Nat
  BY DEF Copy
<1>3. lastId \in Nat /\ Id \subseteq Nat
  BY ConstantsAssumption DEF TypeOK, Id
<1> QED
  BY <1>1, <1>2, <1>3 DEF TypeOK

\* A delivery that is spent stays spent as long as no old delivery is queued
\* again.
LEMMA SpentGrows ==
    ASSUME TypeOK, TypeOK', NEW i \in Id,
           row[i].deliveries <= row'[i].deliveries,
           \A c \in copies' : c.id = i /\ c.phase = "queued"
                                => c \in copies \/ c.deliveries > row[i].deliveries
    PROVE  /\ Spent(i) \subseteq Spent(i)'
           /\ IsFiniteSet(Spent(i)) /\ IsFiniteSet(Spent(i)')
           /\ Cardinality(Spent(i)) \in Nat /\ Cardinality(Spent(i)') \in Nat
           /\ Cardinality(Spent(i)) <= Cardinality(Spent(i)')
<1>0. row[i].deliveries \in Nat /\ row'[i].deliveries \in Nat
  BY HistoryTypes DEF TypeOK, Row
<1>1. IsFiniteSet(1..row[i].deliveries) /\ IsFiniteSet(1..row'[i].deliveries)
  <2>1. 1 \in Int /\ row[i].deliveries \in Int /\ row'[i].deliveries \in Int
    BY <1>0
  <2> QED
    BY <2>1, FS_Interval
<1>2. Spent(i) \subseteq 1..row[i].deliveries /\ Spent(i)' \subseteq 1..row'[i].deliveries
  BY DEF Spent
<1>3. IsFiniteSet(Spent(i)) /\ IsFiniteSet(Spent(i)')
  BY <1>1, <1>2, FS_Subset
<1>4. Spent(i) \subseteq Spent(i)'
  <2>1. ASSUME NEW k \in Spent(i) PROVE k \in Spent(i)'
    <3>1. /\ k \in 1..row[i].deliveries /\ k <= MaxDeliveries
          /\ \A c \in copies : c.id = i /\ c.phase = "queued" => c.deliveries # k
      BY DEF Spent
    <3>2. k \in 1..row'[i].deliveries
      BY <1>0, <3>1
    <3>3. ASSUME NEW c \in copies', c.id = i, c.phase = "queued" PROVE c.deliveries # k
      <4>1. CASE c \in copies
        BY <3>1, <3>3, <4>1
      <4>2. CASE c.deliveries > row[i].deliveries
        BY <1>0, <3>1, <4>2
      <4> QED
        BY <3>3, <4>1, <4>2
    <3> QED
      BY <3>1, <3>2, <3>3 DEF Spent
  <2> QED
    BY <2>1
<1>5. Cardinality(Spent(i)) \in Nat /\ Cardinality(Spent(i)') \in Nat
  BY <1>3, FS_CardinalityType
<1> QED
  BY <1>3, <1>4, <1>5, FS_Subset

\* Steps that run no handler, deliver nothing and only take copies away.
LEMMA RunsKept ==
    ASSUME HistoryInv, TypeOK', copies' \subseteq copies,
           invocations' = invocations, verdicts \subseteq verdicts', lastId <= lastId',
           \A i \in Id : /\ row'[i].deliveries = row[i].deliveries
                         /\ row'[i].attempts <= invocations[i],
           \A c \in copies' : HoldsLease(c)' => /\ HoldsLease(c)
                                                /\ row'[c.id].attempts = row[c.id].attempts
    PROVE  Runs'
<1>0. TypeOK /\ Runs
  BY DEF HistoryInv, LeaseInv
<1>1. DeliveriesDistinct'
  BY <1>0, HistoryTypes DEF Runs, DeliveriesDistinct
<1>2. UnbornUndelivered'
  <2>1. ASSUME NEW i \in Id, i > lastId' PROVE row'[i].deliveries = 0
    <3>1. lastId \in Nat /\ lastId' \in Nat /\ i \in Nat
      BY <1>0, HistoryTypes DEF TypeOK
    <3>2. i > lastId
      BY <2>1, <3>1
    <3> QED
      BY <1>0, <3>2 DEF Runs, UnbornUndelivered
  <2> QED
    BY <2>1 DEF UnbornUndelivered
<1>3. RunsAreDeliveries'
  <2>1. ASSUME NEW i \in Id PROVE invocations[i] <= Cardinality(Spent(i)')
    <3>1. row[i].deliveries <= row'[i].deliveries
      BY <1>0, HistoryTypes
    <3>2. invocations[i] <= Cardinality(Spent(i)) /\ invocations[i] \in Nat
      BY <1>0, HistoryTypes DEF Runs, RunsAreDeliveries
    <3>3. /\ Cardinality(Spent(i)) <= Cardinality(Spent(i)')
          /\ Cardinality(Spent(i)) \in Nat /\ Cardinality(Spent(i)') \in Nat
      BY <1>0, <3>1, SpentGrows
    <3> QED
      BY <3>2, <3>3
  <2> QED
    BY <2>1 DEF RunsAreDeliveries
<1>4. AttemptsAreRuns'
  BY <1>0, HistoryTypes DEF Runs, AttemptsAreRuns, Tried, CountedAttempts, WriteSent
<1>5. VerdictsRecorded'
  BY <1>0 DEF Runs, VerdictsRecorded, AllowDelivery, WriteSent, VerdictOn
<1> QED
  BY <1>1, <1>2, <1>3, <1>4, <1>5 DEF Runs

\* A fetch, its reply lost or not, yields copies of deliveries nobody had, none
\* of which has run, and takes the lease of the copies of the rows it claims.
LEMMA RunsOfClaim ==
    ASSUME HistoryInv, TypeOK', NEW S \in SUBSET Id, Fetch(S) \/ FetchReplyLost(S)
    PROVE  Runs'
<1>0. TypeOK /\ Runs /\ IdsInOrder /\ ClaimsDistinct
  BY DEF HistoryInv, LeaseInv
<1>1. /\ invocations' = invocations /\ verdicts' = verdicts /\ lastId' = lastId
      /\ copies' \subseteq copies \cup {CopyOf(i) : i \in S}
  BY DEF Fetch, FetchReplyLost
<1>2. ClaimRows(S)
  BY DEF Fetch, FetchReplyLost
<1>3. ASSUME NEW i \in S
      PROVE  /\ row'[i].token = lastToken + 1
             /\ row'[i].deliveries = row[i].deliveries + 1
             /\ row'[i].attempts = row[i].attempts
             /\ i <= lastId
  <2>1. row'[i] = [row[i] EXCEPT !.token = lastToken + 1, !.acquiredAt = now,
                                 !.deliveries = @ + 1]
    BY <1>2 DEF ClaimRows
  <2>2. row[i] \in Row /\ Stored(i) /\ i \in Nat /\ lastId \in Nat
    BY <1>0, <1>2, HistoryTypes DEF ClaimRows, Claimable
  <2>3. i <= lastId
    BY <1>0, <2>2 DEF IdsInOrder, Stored
  <2> QED
    BY <2>1, <2>2, <2>3 DEF Row
<1>4. \A i \in Id \ S : row'[i] = row[i]
  BY <1>2 DEF ClaimRows
<1>5. \A i \in Id : /\ row[i].deliveries \in Nat /\ row'[i].deliveries \in Nat
                    /\ row[i].deliveries <= row'[i].deliveries
                    /\ row'[i].attempts = row[i].attempts
  BY <1>0, <1>3, <1>4, HistoryTypes
<1>6. \A i \in S : /\ CopyOf(i).id = i /\ CopyOf(i).phase = "queued"
                   /\ CopyOf(i).deliveries = row[i].deliveries + 1
  BY DEF CopyOf
<1>7. DeliveriesDistinct'
  <2>1. \A c \in copies : c.deliveries \in 1..row[c.id].deliveries /\ c.id \in Id
    BY <1>0, HistoryTypes DEF Runs, DeliveriesDistinct
  <2>2. ASSUME NEW c \in copies' PROVE c.deliveries \in 1..row'[c.id].deliveries
    <3>1. CASE c \in copies
      BY <1>5, <2>1, <3>1
    <3>2. CASE c \notin copies
      <4>1. PICK i \in S : c = CopyOf(i)
        BY <1>1, <3>2
      <4> QED
        BY <1>0, <1>3, <1>6, <4>1, HistoryTypes
    <3> QED
      BY <3>1, <3>2
  <2>3. ASSUME NEW c \in copies, NEW i \in S, c.id = i
        PROVE  c.deliveries # CopyOf(i).deliveries
    BY <1>0, <1>6, <2>1, <2>3, HistoryTypes
  <2>4. \A c, d \in copies' : c.id = d.id /\ c.deliveries = d.deliveries => c = d
    BY <1>0, <1>1, <1>6, <2>3 DEF Runs, DeliveriesDistinct
  <2> QED
    BY <2>2, <2>4 DEF DeliveriesDistinct
<1>8. UnbornUndelivered'
  <2>1. ASSUME NEW i \in Id, i > lastId PROVE i \notin S
    BY <1>0, <1>3, <2>1, HistoryTypes
  <2> QED
    BY <1>0, <1>1, <1>4, <2>1 DEF Runs, UnbornUndelivered
<1>9. RunsAreDeliveries'
  <2>1. ASSUME NEW i \in Id PROVE invocations[i] <= Cardinality(Spent(i)')
    <3>1. \A c \in copies' : c.id = i /\ c.phase = "queued"
                               => c \in copies \/ c.deliveries > row[i].deliveries
      BY <1>0, <1>1, <1>6, HistoryTypes
    <3>2. /\ Cardinality(Spent(i)) <= Cardinality(Spent(i)')
          /\ Cardinality(Spent(i)) \in Nat /\ Cardinality(Spent(i)') \in Nat
      BY <1>0, <1>5, <3>1, SpentGrows
    <3>3. invocations[i] <= Cardinality(Spent(i)) /\ invocations[i] \in Nat
      BY <1>0, HistoryTypes DEF Runs, RunsAreDeliveries
    <3> QED
      BY <3>2, <3>3
  <2> QED
    BY <1>1, <2>1 DEF RunsAreDeliveries
<1>10. AttemptsAreRuns'
  <2>1. \A i \in Id : row'[i].attempts <= invocations[i]
    BY <1>0, <1>5 DEF Runs, AttemptsAreRuns
  <2>2. \A c \in copies' : c.phase # "queued" => c \in copies
    BY <1>1, <1>6
  <2>3. \A c : Tried(c) => c.phase # "queued"
    BY DEF Tried, CountedAttempts, WriteSent
  <2>4. ASSUME NEW c \in copies, HoldsLease(c)' PROVE HoldsLease(c)
    <3>1. c.token <= lastToken /\ c.token \in Nat /\ lastToken \in Nat /\ c.id \in Id
      BY <1>0, HistoryTypes DEF ClaimsDistinct, TypeOK
    <3>2. c.id \notin S
      BY <1>3, <2>4, <3>1 DEF HoldsLease
    <3>3. fate' = fate
      BY DEF Fetch, FetchReplyLost
    <3> QED
      BY <1>4, <2>4, <3>1, <3>2, <3>3 DEF HoldsLease, Stored
  <2>5. ASSUME NEW c \in copies', HoldsLease(c)', Tried(c)
        PROVE  row'[c.id].attempts < invocations[c.id]
    BY <1>0, <1>5, <2>2, <2>3, <2>4, <2>5, HistoryTypes DEF Runs, AttemptsAreRuns
  <2>6. \A c : Tried(c)' = Tried(c)
    BY DEF Tried, CountedAttempts, WriteSent
  <2> QED
    BY <1>0, <1>1, <2>1, <2>2, <2>5, <2>6 DEF Runs, AttemptsAreRuns
<1>11. VerdictsRecorded'
  <2>1. \A c \in copies' : c.phase = "running" \/ WriteSent(c) => c \in copies
    BY <1>1, <1>6 DEF WriteSent
  <2>2. \A c : /\ AllowDelivery(c)' = AllowDelivery(c) /\ WriteSent(c)' = WriteSent(c)
               /\ VerdictOn(c, c.outcome)' = VerdictOn(c, c.outcome)
    BY DEF AllowDelivery, WriteSent, VerdictOn
  <2> QED
    BY <1>0, <1>1, <2>1, <2>2 DEF Runs, VerdictsRecorded
<1> QED
  BY <1>7, <1>8, <1>9, <1>10, <1>11 DEF Runs

\* A copy that moves to another phase stays the copy of its delivery: what the
\* move must respect is that attempts are counted and verdicts recorded.
LEMMA RunsOfBecome ==
    ASSUME HistoryInv, TypeOK', NEW c \in copies, NEW d \in Copy, Become(c, d),
           UNCHANGED <<lastId, row, fate>>,
           d.id = c.id, d.token = c.token, d.deliveries = c.deliveries, d.phase # "queued",
           verdicts \subseteq verdicts',
           \A i \in Id : invocations[i] <= invocations'[i],
           RunsAreDeliveries',
           d.phase = "running" => invocations'[c.id] > 0 /\ AllowDelivery(d),
           HoldsLease(c) /\ Tried(d) => row[c.id].attempts < invocations'[c.id],
           WriteSent(d) => /\ VerdictOn(d, d.outcome) \in verdicts'
                           /\ (d.outcome = "max_deliveries") <=> ~AllowDelivery(d)
    PROVE  Runs'
<1>0. TypeOK /\ Runs
  BY DEF HistoryInv, LeaseInv
<1>1. copies' = (copies \ {c}) \cup {d}
  BY DEF Become
<1>2. DeliveriesDistinct'
  BY <1>0, <1>1 DEF Runs, DeliveriesDistinct
<1>3. UnbornUndelivered'
  BY <1>0 DEF Runs, UnbornUndelivered
<1>4. AttemptsAreRuns'
  <2>1. \A i \in Id : invocations[i] \in Nat /\ invocations'[i] \in Nat /\ row[i].attempts \in Nat
    BY <1>0, HistoryTypes DEF TypeOK
  <2>2. \A i \in Id : row[i].attempts <= invocations'[i]
    BY <1>0, <2>1 DEF Runs, AttemptsAreRuns
  <2>3. \A e \in copies' : e.phase = "running" => invocations'[e.id] > 0
    BY <1>0, <1>1, <2>1, HistoryTypes DEF Runs, AttemptsAreRuns
  <2>4. \A e : HoldsLease(e)' = HoldsLease(e) /\ Tried(e)' = Tried(e)
    BY DEF HoldsLease, Stored, Tried, CountedAttempts, WriteSent
  <2>5. HoldsLease(d) = HoldsLease(c)
    BY DEF HoldsLease
  <2>6. ASSUME NEW e \in copies', HoldsLease(e), Tried(e)
        PROVE  row[e.id].attempts < invocations'[e.id]
    <3>1. CASE e = d
      BY <2>5, <2>6, <3>1
    <3>2. CASE e # d
      <4>1. e \in copies
        BY <1>1, <3>2
      <4>2. row[e.id].attempts < invocations[e.id] /\ e.id \in Id
        BY <1>0, <2>6, <4>1, HistoryTypes DEF Runs, AttemptsAreRuns
      <4> QED
        BY <2>1, <4>2
    <3> QED
      BY <3>1, <3>2
  <2> QED
    BY <2>2, <2>3, <2>4, <2>6 DEF AttemptsAreRuns
<1>5. VerdictsRecorded'
  <2>1. \A e : /\ AllowDelivery(e)' = AllowDelivery(e) /\ WriteSent(e)' = WriteSent(e)
               /\ VerdictOn(e, e.outcome)' = VerdictOn(e, e.outcome)
    BY DEF AllowDelivery, WriteSent, VerdictOn
  <2> QED
    BY <1>0, <1>1, <2>1 DEF Runs, VerdictsRecorded
<1> QED
  BY <1>2, <1>3, <1>4, <1>5 DEF Runs

\* A move that runs no handler leaves the spent deliveries spent.
LEMMA SpentOfBecome ==
    ASSUME HistoryInv, TypeOK', NEW c \in copies, NEW d \in Copy, Become(c, d),
           row' = row, invocations' = invocations, d.phase # "queued"
    PROVE  RunsAreDeliveries'
<1>1. ASSUME NEW i \in Id PROVE invocations[i] <= Cardinality(Spent(i)')
  <2>0. TypeOK /\ Runs
    BY DEF HistoryInv, LeaseInv
  <2>1. \A e \in copies' : e.id = i /\ e.phase = "queued"
                             => e \in copies \/ e.deliveries > row[i].deliveries
    BY DEF Become
  <2>2. row[i].deliveries <= row'[i].deliveries
    BY <2>0, HistoryTypes
  <2>3. /\ Cardinality(Spent(i)) <= Cardinality(Spent(i)')
        /\ Cardinality(Spent(i)) \in Nat /\ Cardinality(Spent(i)') \in Nat
    BY <2>0, <2>1, <2>2, SpentGrows
  <2>4. invocations[i] <= Cardinality(Spent(i)) /\ invocations[i] \in Nat
    BY <2>0, HistoryTypes DEF Runs, RunsAreDeliveries
  <2> QED
    BY <2>3, <2>4
<1> QED
  BY <1>1 DEF RunsAreDeliveries

\* A handler run spends the delivery of its copy, which nothing had spent.
LEMMA RunsOfStart ==
    ASSUME HistoryInv, TypeOK', NEW c \in copies, StartHandler(c)
    PROVE  Runs'
<1> DEFINE d == [c EXCEPT !.phase = "running"]
<1>0. TypeOK /\ Runs
  BY DEF HistoryInv, LeaseInv
<1>1. /\ c \in Copy /\ c.id \in Id /\ c.phase = "queued" /\ AllowDelivery(c)
      /\ Become(c, d) /\ UNCHANGED <<lastId, row, fate, verdicts>>
      /\ invocations' = [invocations EXCEPT ![c.id] = @ + 1]
  BY <1>0, HistoryTypes DEF StartHandler
<1>2. /\ d \in Copy /\ d.id = c.id /\ d.token = c.token /\ d.deliveries = c.deliveries
      /\ d.phase = "running" /\ AllowDelivery(d) /\ ~WriteSent(d)
  BY <1>1 DEF Copy, Phase, AllowDelivery, WriteSent
<1> HIDE DEF d
<1>3. \A i \in Id : /\ invocations[i] \in Nat /\ row[i].attempts \in Nat
                    /\ invocations'[i] = IF i = c.id THEN invocations[i] + 1 ELSE invocations[i]
  BY <1>0, <1>1, HistoryTypes DEF TypeOK
<1>4. RunsAreDeliveries'
  <2>1. ASSUME NEW i \in Id PROVE invocations'[i] <= Cardinality(Spent(i)')
    <3>1. copies' = (copies \ {c}) \cup {d}
      BY <1>1 DEF Become
    <3>2. \A e \in copies' : e.id = i /\ e.phase = "queued"
                               => e \in copies \/ e.deliveries > row[i].deliveries
      BY <1>2, <3>1
    <3>3. row[i].deliveries <= row'[i].deliveries
      BY <1>0, <1>1, HistoryTypes
    <3>4. /\ Spent(i) \subseteq Spent(i)' /\ IsFiniteSet(Spent(i)) /\ IsFiniteSet(Spent(i)')
          /\ Cardinality(Spent(i)) <= Cardinality(Spent(i)')
          /\ Cardinality(Spent(i)) \in Nat /\ Cardinality(Spent(i)') \in Nat
      BY <1>0, <3>2, <3>3, SpentGrows
    <3>5. invocations[i] <= Cardinality(Spent(i))
      BY <1>0 DEF Runs, RunsAreDeliveries
    <3>6. CASE i # c.id
      BY <1>3, <3>4, <3>5, <3>6
    <3>7. CASE i = c.id
      <4>1. c.deliveries \notin Spent(i)
        BY <1>1, <3>7 DEF Spent
      <4>2. c.deliveries \in Spent(i)'
        <5>1. c.deliveries \in 1..row'[i].deliveries /\ c.deliveries <= MaxDeliveries
          BY <1>0, <1>1, <3>7 DEF Runs, DeliveriesDistinct, AllowDelivery
        <5>2. \A e \in copies' : e.id = i /\ e.phase = "queued" => e.deliveries # c.deliveries
          BY <1>0, <1>2, <3>1, <3>7 DEF Runs, DeliveriesDistinct
        <5> QED
          BY <5>1, <5>2 DEF Spent
      <4>3. Cardinality(Spent(i) \cup {c.deliveries}) = Cardinality(Spent(i)) + 1
        BY <3>4, <4>1, FS_AddElement
      <4>4. Cardinality(Spent(i) \cup {c.deliveries}) <= Cardinality(Spent(i)')
        <5>1. Spent(i) \cup {c.deliveries} \subseteq Spent(i)'
          BY <3>4, <4>2
        <5> QED
          BY <3>4, <5>1, FS_Subset
      <4> QED
        BY <1>3, <3>4, <3>5, <3>7, <4>3, <4>4
    <3> QED
      BY <3>6, <3>7
  <2> QED
    BY <2>1 DEF RunsAreDeliveries
<1>5. invocations'[c.id] > 0 /\ row[c.id].attempts < invocations'[c.id]
  BY <1>0, <1>1, <1>3 DEF Runs, AttemptsAreRuns
<1>6. \A i \in Id : invocations[i] <= invocations'[i]
  BY <1>3
<1> QED
  BY <1>1, <1>2, <1>4, <1>5, <1>6, RunsOfBecome

\* Recording a verdict: a refused delivery ran no handler and counts no attempt,
\* an outcome of the handler counts one.
LEMMA RunsOfVerdict ==
    ASSUME HistoryInv, TypeOK', NEW c \in copies,
           \/ RefuseDelivery(c)
           \/ \E o \in {"ack", "retry", "retry_terminal", "rejected"} : RecordOutcome(c, o)
    PROVE  Runs'
<1>0. TypeOK /\ Runs /\ c \in Copy /\ c.id \in Id
  BY HistoryTypes DEF HistoryInv, LeaseInv
<1>1. CASE RefuseDelivery(c)
  <2> DEFINE d == [c EXCEPT !.phase = "decided", !.outcome = "max_deliveries"]
  <2>1. /\ ~AllowDelivery(c) /\ Become(c, d)
        /\ UNCHANGED <<lastId, row, fate, invocations>>
        /\ verdicts' = verdicts \cup {VerdictOn(c, "max_deliveries")}
    BY <1>1 DEF RefuseDelivery
  <2>2. /\ d \in Copy /\ d.id = c.id /\ d.token = c.token /\ d.deliveries = c.deliveries
        /\ d.payload = c.payload /\ d.phase = "decided" /\ d.outcome = "max_deliveries"
    BY <1>0 DEF Copy, Phase, Outcome, Reason
  <2> HIDE DEF d
  <2>3. ~AllowDelivery(d) /\ ~Tried(d) /\ VerdictOn(d, d.outcome) \in verdicts'
    BY <2>1, <2>2 DEF AllowDelivery, Tried, CountedAttempts, WriteSent, VerdictOn
  <2>4. RunsAreDeliveries'
    BY <2>1, <2>2, SpentOfBecome
  <2>5. \A i \in Id : invocations[i] <= invocations'[i]
    BY <1>0, <2>1, HistoryTypes
  <2> QED
    BY <2>1, <2>2, <2>3, <2>4, <2>5, RunsOfBecome
<1>2. ASSUME NEW o \in {"ack", "retry", "retry_terminal", "rejected"}, RecordOutcome(c, o)
      PROVE  Runs'
  <2> DEFINE d == [c EXCEPT !.phase = "decided", !.outcome = o, !.attempts = @ + 1]
  <2>1. /\ c.phase = "running" /\ Become(c, d)
        /\ UNCHANGED <<lastId, row, fate, invocations>>
        /\ verdicts' = verdicts \cup {VerdictOn(c, o)}
    BY <1>2 DEF RecordOutcome
  <2>2. /\ d \in Copy /\ d.id = c.id /\ d.token = c.token /\ d.deliveries = c.deliveries
        /\ d.payload = c.payload /\ d.phase = "decided" /\ d.outcome = o
    <3>1. c.attempts + 1 \in Nat
      BY <1>0 DEF Copy
    <3> QED
      BY <1>0, <3>1 DEF Copy, Phase, Outcome, Reason
  <2> HIDE DEF d
  <2>3. AllowDelivery(d) /\ VerdictOn(d, d.outcome) \in verdicts'
    BY <1>0, <2>1, <2>2 DEF Runs, VerdictsRecorded, AllowDelivery, VerdictOn
  <2>4. RunsAreDeliveries'
    BY <2>1, <2>2, SpentOfBecome
  <2>5. \A i \in Id : invocations[i] <= invocations'[i]
    BY <1>0, <2>1, HistoryTypes
  <2>6. HoldsLease(c) => row[c.id].attempts < invocations'[c.id]
    BY <1>0, <2>1 DEF Runs, AttemptsAreRuns, Tried
  <2>7. d.phase # "queued" /\ d.phase # "running" /\ d.outcome # "max_deliveries"
    BY <2>2
  <2> QED
    BY <2>1, <2>2, <2>3, <2>4, <2>5, <2>6, <2>7, RunsOfBecome
<1> QED
  BY <1>1, <1>2

\* A write nobody waits for is still the write of its verdict.
LEMMA RunsOfGiveUp ==
    ASSUME HistoryInv, TypeOK', NEW c \in copies, GiveUpWrite(c)
    PROVE  Runs'
<1> DEFINE d == [c EXCEPT !.phase = "orphaned"]
<1>0. TypeOK /\ Runs /\ c \in Copy /\ c.id \in Id
  BY HistoryTypes DEF HistoryInv, LeaseInv
<1>1. /\ c.phase = "decided" /\ Become(c, d)
      /\ UNCHANGED <<lastId, row, fate, invocations, verdicts>>
  BY DEF GiveUpWrite
<1>2. /\ d \in Copy /\ d.id = c.id /\ d.token = c.token /\ d.deliveries = c.deliveries
      /\ d.payload = c.payload /\ d.phase = "orphaned" /\ d.outcome = c.outcome
  BY <1>0 DEF Copy, Phase
<1> HIDE DEF d
<1>3. /\ VerdictOn(d, d.outcome) \in verdicts'
      /\ (d.outcome = "max_deliveries") <=> ~AllowDelivery(d)
  BY <1>0, <1>1, <1>2 DEF Runs, VerdictsRecorded, AllowDelivery, VerdictOn, WriteSent
<1>4. RunsAreDeliveries'
  BY <1>1, <1>2, SpentOfBecome
<1>5. \A i \in Id : invocations[i] <= invocations'[i]
  BY <1>0, <1>1, HistoryTypes
<1>6. HoldsLease(c) /\ Tried(d) => row[c.id].attempts < invocations'[c.id]
  BY <1>0, <1>1, <1>2 DEF Runs, AttemptsAreRuns, Tried, CountedAttempts, WriteSent
<1>7. d.phase # "queued" /\ d.phase # "running"
  BY <1>2
<1> QED
  BY <1>1, <1>2, <1>3, <1>4, <1>5, <1>6, <1>7, RunsOfBecome
-----------------------------------------------------------------------------
(* What rows leave the table for. *)

Settled == {"acked", "dead"}

\* Steps that settle no row.
LEMMA FatesKept ==
    ASSUME HistoryInv, TypeOK', IdsInOrder', dlq' = dlq, verdicts \subseteq verdicts',
           \A i \in Id : /\ fate[i] \in Settled => /\ fate'[i] = fate[i]
                                                   /\ row'[i].payload = row[i].payload
                                                   /\ row'[i].deliveries = row[i].deliveries
                         /\ fate'[i] \in Settled => fate[i] \in Settled
    PROVE  NothingLost' /\ DeadLettersFaithful'
<1>0. /\ TypeOK /\ IdsInOrder /\ NothingLost /\ DeadLettersFaithful
      /\ \A e \in dlq : e.id \in Id
  BY DEF HistoryInv, LeaseInv, TypeOK, DeadLetter
<1>1. /\ lastId \in Nat /\ lastId' \in 0..MaxRows
      /\ \A i \in 1..lastId' : i \in Id
  BY <1>0, HistoryTypes, ConstantsAssumption DEF TypeOK, Id
<1>2. ASSUME NEW i \in Id, fate[i] \in Settled
      PROVE  /\ fate'[i] = fate[i] /\ row'[i].deliveries = row[i].deliveries
             /\ \A o : Recorded(i, o) => Recorded(i, o)'
  BY <1>2 DEF Recorded
<1>3. NothingLost'
  <2>1. ASSUME NEW i \in 1..lastId'
        PROVE  /\ fate'[i] # "unborn"
               /\ fate'[i] = "acked" => Recorded(i, "ack")'
               /\ fate'[i] = "dead" => /\ \E r \in Reason : Recorded(i, r)'
                                       /\ HasDLQ => \E e \in dlq : e.id = i
    <3>1. i \in Id /\ fate'[i] # "unborn"
      BY <1>1 DEF IdsInOrder
    <3>2. CASE fate'[i] \notin Settled
      BY <3>1, <3>2 DEF Settled
    <3>3. CASE fate'[i] \in Settled
      <4>1. fate[i] \in Settled
        BY <3>1, <3>3
      <4>2. i \in 1..lastId
        BY <1>0, <1>1, <3>1, <4>1 DEF IdsInOrder, Settled
      <4> QED
        BY <1>0, <1>2, <3>1, <4>1, <4>2 DEF NothingLost
    <3> QED
      BY <3>2, <3>3
  <2> QED
    BY <2>1 DEF NothingLost
<1>4. DeadLettersFaithful'
  BY <1>0, <1>2 DEF DeadLettersFaithful, Settled
<1> QED
  BY <1>3, <1>4

\* The copy that removes a row carries a verdict on the payload the row holds.
LEMMA HolderVerdict ==
    ASSUME HistoryInv, NEW c \in copies, WriteSent(c), HoldsLease(c)
    PROVE  /\ Recorded(c.id, c.outcome)
           /\ c.deliveries = row[c.id].deliveries
           /\ (c.outcome = "max_deliveries") <=> (row[c.id].deliveries > MaxDeliveries)
<1>1. /\ c.payload = row[c.id].payload /\ c.deliveries = row[c.id].deliveries
      /\ c.deliveries \in Nat
  BY HistoryTypes DEF HistoryInv, LeaseInv, HolderIsCurrent
<1>2. /\ VerdictOn(c, c.outcome) \in verdicts
      /\ (c.outcome = "max_deliveries") <=> ~AllowDelivery(c)
  BY DEF HistoryInv, Runs, VerdictsRecorded
<1> QED
  BY <1>1, <1>2, ConstantsAssumption DEF Recorded, VerdictOn, AllowDelivery

\* A single delete removes the row its copy holds, and archives it in the same
\* step when it failed.
LEMMA FatesOfDelete ==
    ASSUME HistoryInv, TypeOK', IdsInOrder', NEW c \in copies, DeleteWithLease(c)
    PROVE  NothingLost' /\ DeadLettersFaithful'
<1>0. /\ TypeOK /\ NothingLost /\ DeadLettersFaithful /\ c.id \in Id
      /\ \A e \in dlq : e.id \in Id
      /\ fate \in [Id -> Fate]
  BY HistoryTypes DEF HistoryInv, LeaseInv, TypeOK, DeadLetter
<1>1. /\ WriteSent(c) /\ c.outcome \in Reason \cup {"ack"}
      /\ row' = row /\ lastId' = lastId /\ verdicts' = verdicts
  BY DEF DeleteWithLease
<1>2. CASE ~HoldsLease(c)
  BY <1>1, <1>2, FatesKept DEF DeleteWithLease
<1>3. CASE HoldsLease(c)
  <2> DEFINE letter == [id |-> c.id, deliveries |-> row[c.id].deliveries,
                        payload |-> row[c.id].payload, reason |-> c.outcome]
  <2>1. /\ fate' = [fate EXCEPT ![c.id] = FateOf(c)]
        /\ dlq' = IF DeadLettered(c) THEN dlq \cup {letter} ELSE dlq
    BY <1>3 DEF DeleteWithLease
  <2>2. /\ Recorded(c.id, c.outcome)
        /\ (c.outcome = "max_deliveries") <=> (row[c.id].deliveries > MaxDeliveries)
    BY <1>1, <1>3, HolderVerdict
  <2>3. \A i, o : Recorded(i, o)' = Recorded(i, o)
    BY <1>1 DEF Recorded
  <2>4. fate'[c.id] = FateOf(c) /\ \A i \in Id \ {c.id} : fate'[i] = fate[i]
    BY <1>0, <2>1
  <2>5. NothingLost'
    <3>1. 1..lastId \subseteq Id
      BY <1>0, ConstantsAssumption DEF TypeOK, Id
    <3>2. /\ FateOf(c) # "unborn"
          /\ FateOf(c) = "acked" => Recorded(c.id, "ack")
          /\ FateOf(c) = "dead" => /\ \E r \in Reason : Recorded(c.id, r)
                                   /\ HasDLQ => \E e \in dlq' : e.id = c.id
      <4>1. CASE c.outcome = "ack"
        BY <2>2, <4>1 DEF FateOf
      <4>2. CASE c.outcome \in Reason
        <5>1. FateOf(c) = "dead"
          BY <4>2 DEF FateOf, Reason
        <5>2. HasDLQ => letter \in dlq' /\ letter.id = c.id
          BY <2>1, <4>2 DEF DeadLettered
        <5> QED
          BY <2>2, <4>2, <5>1, <5>2
      <4> QED
        BY <1>1, <4>1, <4>2
    <3>3. dlq \subseteq dlq'
      BY <2>1
    <3> QED
      BY <1>0, <1>1, <2>3, <2>4, <3>1, <3>2, <3>3 DEF NothingLost
  <2>6. DeadLettersFaithful'
    <3>1. \A e \in dlq : e.id # c.id
      BY <1>0, <1>3 DEF DeadLettersFaithful, HoldsLease, Stored
    <3>2. ASSUME NEW e \in dlq
          PROVE  /\ fate'[e.id] = "dead"
                 /\ e.payload = row'[e.id].payload /\ e.deliveries = row'[e.id].deliveries
                 /\ Recorded(e.id, e.reason)'
                 /\ (e.reason = "max_deliveries") <=> (e.deliveries > MaxDeliveries)
                 /\ \A f \in dlq' : f.id = e.id => f = e
      BY <1>0, <1>1, <2>1, <2>3, <2>4, <3>1 DEF DeadLettersFaithful
    <3>3. ASSUME NEW e \in dlq', e \notin dlq
          PROVE  /\ fate'[e.id] = "dead"
                 /\ e.payload = row'[e.id].payload /\ e.deliveries = row'[e.id].deliveries
                 /\ Recorded(e.id, e.reason)'
                 /\ (e.reason = "max_deliveries") <=> (e.deliveries > MaxDeliveries)
                 /\ \A f \in dlq' : f.id = e.id => f = e
      <4>1. e = letter /\ DeadLettered(c) /\ dlq' = dlq \cup {letter}
        BY <2>1, <3>3
      <4>2. fate'[c.id] = "dead"
        BY <2>4, <4>1 DEF FateOf, DeadLettered, Reason
      <4> QED
        BY <1>1, <2>2, <2>3, <3>1, <4>1, <4>2
    <3> QED
      BY <3>2, <3>3 DEF DeadLettersFaithful
  <2> QED
    BY <2>5, <2>6
<1> QED
  BY <1>2, <1>3

\* A batch delete removes only rows that succeeded, or that failed where
\* there is no dead-letter table.
LEMMA FatesOfBatch ==
    ASSUME HistoryInv, TypeOK', IdsInOrder', NEW S \in SUBSET copies, DeleteBatchWithLease(S)
    PROVE  NothingLost' /\ DeadLettersFaithful'
<1>0. /\ TypeOK /\ NothingLost /\ DeadLettersFaithful
      /\ \A e \in dlq : e.id \in Id
      /\ \A c \in S : c \in copies /\ c.id \in Id
      /\ 1..lastId \subseteq Id
  <2>1. TypeOK /\ NothingLost /\ DeadLettersFaithful
    BY DEF HistoryInv, LeaseInv
  <2>2. dlq \subseteq DeadLetter /\ lastId \in 0..MaxRows
    BY <2>1 DEF TypeOK
  <2>3. \A e \in dlq : e.id \in Id
    BY <2>2 DEF DeadLetter
  <2>4. \A c \in copies : c.id \in Id
    BY <2>1, HistoryTypes
  <2>5. 1..lastId \subseteq Id
    BY <2>2, ConstantsAssumption DEF Id
  <2> QED
    BY <2>1, <2>3, <2>4, <2>5
<1>1. /\ \A c \in S : WriteSent(c) /\ c.outcome \in Reason \cup {"ack"} /\ ~DeadLettered(c)
      /\ row' = row /\ lastId' = lastId /\ verdicts' = verdicts /\ dlq' = dlq
  BY DEF DeleteBatchWithLease
<1>2. \A i, o : Recorded(i, o)' = Recorded(i, o)
  BY <1>1 DEF Recorded
<1>3. ASSUME NEW i \in Id
      PROVE  \/ fate'[i] = fate[i]
             \/ /\ Stored(i)
                /\ \/ fate'[i] = "acked" /\ Recorded(i, "ack")
                   \/ fate'[i] = "dead" /\ ~HasDLQ /\ \E r \in Reason : Recorded(i, r)
  <2>1. CASE ~\E c \in S : c.id = i /\ HoldsLease(c)
    BY <2>1 DEF DeleteBatchWithLease
  <2>2. CASE \E c \in S : c.id = i /\ HoldsLease(c)
    <3>1. PICK c \in S : c.id = i /\ HoldsLease(c) /\ fate'[i] = FateOf(c)
      BY <2>2 DEF DeleteBatchWithLease
    <3>2. Recorded(i, c.outcome) /\ Stored(i)
      BY <1>0, <1>1, <3>1, HolderVerdict DEF HoldsLease
    <3> QED
      BY <1>1, <3>1, <3>2, ConstantsAssumption DEF FateOf, DeadLettered, Reason
  <2> QED
    BY <2>1, <2>2
<1>4. NothingLost'
  BY <1>0, <1>1, <1>2, <1>3 DEF NothingLost
<1>5. DeadLettersFaithful'
  <2>1. ASSUME NEW e \in dlq PROVE fate'[e.id] = "dead"
    <3>1. fate[e.id] = "dead"
      BY <1>0 DEF DeadLettersFaithful
    <3>2. ~Stored(e.id)
      BY <3>1 DEF Stored
    <3> QED
      BY <1>0, <1>3, <3>1, <3>2
  <2> QED
    BY <1>0, <1>1, <1>2, <2>1 DEF DeadLettersFaithful
<1> QED
  BY <1>4, <1>5
-----------------------------------------------------------------------------
(* The invariant is inductive. *)

\* Steps that change no row and bring none back.
LEMMA SameRows ==
    ASSUME HistoryInv, TypeOK', copies' \subseteq copies,
           UNCHANGED <<lastId, row, invocations, verdicts>>,
           \A i \in Id : Stored(i)' => Stored(i)
    PROVE  Runs'
<1>0. TypeOK /\ Runs /\ \A c \in copies : c.id \in Id
  BY HistoryTypes DEF HistoryInv, LeaseInv
<1>1. \A i \in Id : row'[i].deliveries = row[i].deliveries /\ row'[i].attempts <= invocations[i]
  BY <1>0 DEF Runs, AttemptsAreRuns
<1>2. \A c \in copies' : HoldsLease(c)' => HoldsLease(c) /\ row'[c.id].attempts = row[c.id].attempts
  BY <1>0 DEF HoldsLease
<1>3. lastId <= lastId' /\ verdicts \subseteq verdicts'
  BY <1>0, HistoryTypes
<1> QED
  BY <1>1, <1>2, <1>3, RunsKept

\* Inserts and extends: the new rows were never delivered, an extended row keeps
\* its deliveries and starts its attempts again.
LEMMA HistoryOfPublishing ==
    ASSUME HistoryInv, TypeOK', IdsInOrder', Publishing
    PROVE  Runs' /\ NothingLost' /\ DeadLettersFaithful'
<1>0. /\ TypeOK /\ Runs /\ IdsInOrder /\ ClaimsDistinct
      /\ lastId \in Nat /\ Id \subseteq Nat /\ row \in [Id -> Row] /\ fate \in [Id -> Fate]
      /\ \A i \in Id : /\ row[i] \in Row /\ row[i].deliveries \in Nat
                       /\ row[i].attempts \in Nat /\ invocations[i] \in Nat
                       /\ row[i].attempts <= invocations[i]
      /\ \A c \in copies : c.id \in Id /\ c.id <= lastId /\ c.token # NoToken
  BY HistoryTypes DEF HistoryInv, LeaseInv, TypeOK, Runs, AttemptsAreRuns, ClaimsDistinct, NoToken
<1>1. ASSUME dlq' = dlq, copies' = copies, invocations' = invocations, verdicts' = verdicts,
             lastId <= lastId',
             \A i \in Id :
                \/ row'[i] = row[i] /\ fate'[i] = fate[i]
                \/ /\ i > lastId /\ row'[i].deliveries = 0 /\ row'[i].attempts = 0
                   /\ fate'[i] = "stored"
                \/ /\ ~Leased(i) /\ fate'[i] = fate[i] /\ Stored(i)
                   /\ row'[i].deliveries = row[i].deliveries /\ row'[i].token = row[i].token
                   /\ row'[i].attempts \in {0, row[i].attempts}
      PROVE  Runs' /\ NothingLost' /\ DeadLettersFaithful'
  <2>1. \A i \in Id : /\ row'[i].deliveries = row[i].deliveries
                      /\ row'[i].attempts <= invocations[i]
    <3>1. ASSUME NEW i \in Id
          PROVE  row'[i].deliveries = row[i].deliveries /\ row'[i].attempts <= invocations[i]
      <4>1. CASE row'[i] = row[i]
        BY <1>0, <4>1
      <4>2. CASE i > lastId /\ row'[i].deliveries = 0 /\ row'[i].attempts = 0
        BY <1>0, <4>2 DEF Runs, UnbornUndelivered
      <4>3. CASE /\ row'[i].deliveries = row[i].deliveries
                 /\ row'[i].attempts \in {0, row[i].attempts}
        BY <1>0, <4>3
      <4> QED
        BY <1>1, <4>1, <4>2, <4>3
    <3> QED
      BY <3>1
  <2>2. ASSUME NEW c \in copies, HoldsLease(c)'
        PROVE  HoldsLease(c) /\ row'[c.id] = row[c.id]
    <3>1. c.id \in Id /\ ~(c.id > lastId) /\ c.token # NoToken
      <4>1. c.id \in Nat /\ c.id <= lastId
        BY <1>0
      <4> QED
        BY <1>0, <4>1
    <3>2. row'[c.id] = row[c.id] /\ fate'[c.id] = fate[c.id]
      BY <1>1, <2>2, <3>1 DEF HoldsLease, Leased
    <3> QED
      BY <2>2, <3>2 DEF HoldsLease, Stored
  <2>3. Runs'
    BY <1>1, <2>1, <2>2, RunsKept
  <2>4. \A i \in Id : /\ fate[i] \in Settled => /\ fate'[i] = fate[i]
                                                /\ row'[i].payload = row[i].payload
                                                /\ row'[i].deliveries = row[i].deliveries
                      /\ fate'[i] \in Settled => fate[i] \in Settled
    BY <1>0, <1>1 DEF IdsInOrder, Settled, Stored
  <2> QED
    BY <1>1, <2>3, <2>4, FatesKept
<1>2. ASSUME NEW n \in 1..MaxRows, NEW d \in Delay, Publish(n, d)
      PROVE  Runs' /\ NothingLost' /\ DeadLettersFaithful'
  <2>1. /\ dlq' = dlq /\ copies' = copies /\ invocations' = invocations
        /\ verdicts' = verdicts /\ lastId' = lastId + n /\ lastId <= lastId + n
    BY <1>0, <1>2 DEF Publish
  <2>2. \A i \in Id : \/ row'[i] = row[i] /\ fate'[i] = fate[i]
                      \/ /\ i \in lastId + 1 .. lastId + n
                         /\ row'[i] = FreshRow(NoTimer, now + d) /\ fate'[i] = "stored"
    BY <1>2 DEF Publish
  <2>3. \A i \in Id : i \in lastId + 1 .. lastId + n => i > lastId
    BY <1>0
  <2>4. FreshRow(NoTimer, now + d).deliveries = 0 /\ FreshRow(NoTimer, now + d).attempts = 0
    BY DEF FreshRow, BlankRow
  <2> QED
    BY <1>1, <2>1, <2>2, <2>3, <2>4
<1>3. ASSUME NEW t \in Timer, NEW d \in Delay, InsertTimer(t, d)
      PROVE  Runs' /\ NothingLost' /\ DeadLettersFaithful'
  <2>1. /\ dlq' = dlq /\ copies' = copies /\ invocations' = invocations
        /\ verdicts' = verdicts /\ lastId <= lastId' /\ lastId + 1 > lastId
    BY <1>0, <1>3 DEF InsertTimer
  <2>2. \A i \in Id : \/ row'[i] = row[i] /\ fate'[i] = fate[i]
                      \/ /\ i = lastId + 1
                         /\ row'[i] = FreshRow(t, now + d) /\ fate'[i] = "stored"
    BY <1>0, <1>3 DEF InsertTimer
  <2>3. FreshRow(t, now + d).deliveries = 0 /\ FreshRow(t, now + d).attempts = 0
    BY DEF FreshRow, BlankRow
  <2> QED
    BY <1>1, <2>1, <2>2, <2>3
<1>4. ASSUME NEW t \in Timer, NEW d \in Delay, ExtendTimer(t, d)
      PROVE  Runs' /\ NothingLost' /\ DeadLettersFaithful'
  <2>1. PICK j \in Id : /\ Stored(j) /\ ~Leased(j)
                        /\ row' = [row EXCEPT ![j] = Extended(row[j], now + d)]
                        /\ UNCHANGED <<lastId, fate, dlq, copies, invocations, verdicts>>
    BY <1>4 DEF ExtendTimer, LiveTimer
  <2>2. /\ Extended(row[j], now + d).deliveries = row[j].deliveries
        /\ Extended(row[j], now + d).token = row[j].token
        /\ Extended(row[j], now + d).attempts \in {0, row[j].attempts}
    BY <1>0 DEF Extended, Row
  <2>3. /\ row'[j] = Extended(row[j], now + d)
        /\ \A i \in Id \ {j} : row'[i] = row[i]
    BY <1>0, <2>1
  <2>4. lastId <= lastId'
    BY <1>0, <2>1
  <2> QED
    BY <1>1, <2>1, <2>2, <2>3, <2>4
<1> QED
  BY <1>2, <1>3, <1>4 DEF Publishing

\* A retry gives back the lease and writes the attempts of the copy that holds
\* it, the last of which was a handler run.
LEMMA HistoryOfMarkPending ==
    ASSUME HistoryInv, TypeOK', IdsInOrder',
           NEW c \in copies, NEW d \in Delay, MarkPendingWithLease(c, d)
    PROVE  Runs' /\ NothingLost' /\ DeadLettersFaithful'
<1>0. /\ TypeOK /\ Runs /\ HolderIsCurrent /\ ClaimsDistinct
      /\ row \in [Id -> Row]
      /\ \A i \in Id : /\ row[i] \in Row /\ row[i].attempts \in Nat /\ invocations[i] \in Nat
                       /\ row[i].attempts <= invocations[i]
      /\ \A e \in copies : e.id \in Id /\ e.token # NoToken /\ e.attempts \in Nat
  BY HistoryTypes DEF HistoryInv, LeaseInv, TypeOK, Runs, AttemptsAreRuns, ClaimsDistinct, NoToken
<1>1. /\ WriteSent(c) /\ c.outcome = "retry" /\ copies' = copies \ {c}
      /\ UNCHANGED <<lastId, fate, dlq, invocations, verdicts>>
      /\ lastId <= lastId'
  BY <1>0, HistoryTypes DEF MarkPendingWithLease
<1>2. CASE ~HoldsLease(c)
  <2>1. row' = row
    BY <1>2 DEF MarkPendingWithLease
  <2>2. \A i \in Id : Stored(i)' => Stored(i)
    BY <1>1 DEF Stored
  <2>3. Runs'
    BY <1>1, <2>1, <2>2, SameRows
  <2> QED
    BY <1>1, <2>1, <2>3, FatesKept
<1>3. CASE HoldsLease(c)
  <2>1. /\ row'[c.id].attempts = c.attempts /\ row'[c.id].token = NoToken
        /\ row'[c.id].deliveries = row[c.id].deliveries
        /\ \A i \in Id \ {c.id} : row'[i] = row[i]
    BY <1>0, <1>3 DEF MarkPendingWithLease, Row
  <2>2. c.attempts <= invocations[c.id]
    <3>1. CountedAttempts(c) = 1
      BY <1>1 DEF CountedAttempts
    <3>2. row[c.id].attempts < invocations[c.id]
      BY <1>0, <1>3, <3>1 DEF Runs, AttemptsAreRuns, Tried
    <3>3. c.attempts - row[c.id].attempts = 1
      BY <1>0, <1>3, <3>1 DEF HolderIsCurrent
    <3> QED
      BY <1>0, <3>2, <3>3
  <2>3. \A i \in Id : row'[i].deliveries = row[i].deliveries /\ row'[i].attempts <= invocations[i]
    BY <1>0, <2>1, <2>2
  <2>4. \A e \in copies' : HoldsLease(e)' => HoldsLease(e) /\ row'[e.id].attempts = row[e.id].attempts
    BY <1>0, <1>1, <2>1 DEF HoldsLease, Stored
  <2>5. Runs'
    BY <1>1, <2>3, <2>4, RunsKept
  <2>6. \A i \in Id : fate[i] \in Settled => i # c.id
    BY <1>3 DEF Settled, HoldsLease, Stored
  <2> QED
    BY <1>1, <2>1, <2>5, <2>6, FatesKept
<1> QED
  BY <1>2, <1>3

\* Every step preserves the invariant.
LEMMA HistoryStep == HistoryInv /\ [Next]_vars => HistoryInv'
<1> SUFFICES ASSUME HistoryInv, [Next]_vars PROVE HistoryInv'
  OBVIOUS
<1>0. /\ LeaseInv' /\ TypeOK' /\ IdsInOrder'
      /\ TypeOK /\ IdsInOrder /\ fate \in [Id -> Fate]
      /\ \A c \in copies : c.id \in Id
  BY LeaseInvStep, HistoryTypes DEF HistoryInv, LeaseInv, TypeOK
<1> SUFFICES Runs' /\ NothingLost' /\ DeadLettersFaithful'
  BY <1>0 DEF HistoryInv
<1>1. CASE Tick \/ UNCHANGED vars
  <2>1. /\ copies' \subseteq copies /\ UNCHANGED <<lastId, row, fate, dlq, invocations, verdicts>>
        /\ \A i \in Id : Stored(i)' => Stored(i)
    BY <1>1 DEF Tick, vars, Stored
  <2> QED
    BY <1>0, <2>1, SameRows, FatesKept
<1>2. CASE Publishing
  BY <1>0, <1>2, HistoryOfPublishing
<1>3. CASE Cancelling
  <2>1. PICK j \in Id : /\ Stored(j) /\ fate' = [fate EXCEPT ![j] = "cancelled"]
                        /\ UNCHANGED <<lastId, row, dlq, copies, invocations, verdicts>>
    BY <1>3 DEF Cancelling, CancelTimer, LiveTimer
  <2>2. \A i \in Id : \/ fate'[i] = fate[i]
                      \/ fate[i] = "stored" /\ fate'[i] = "cancelled"
    BY <1>0, <2>1 DEF Stored
  <2>3. Runs'
    BY <1>0, <2>1, <2>2, SameRows DEF Stored
  <2> QED
    BY <1>0, <2>1, <2>2, <2>3, FatesKept DEF Settled
<1>4. CASE Claiming
  <2>1. PICK S \in SUBSET Id : Fetch(S) \/ FetchReplyLost(S)
    BY <1>4 DEF Claiming
  <2>2. Runs'
    BY <1>0, <2>1, RunsOfClaim
  <2>3. /\ fate' = fate /\ dlq' = dlq /\ verdicts' = verdicts
        /\ \A i \in Id : fate[i] \in Settled => row'[i] = row[i]
    BY <2>1 DEF Fetch, FetchReplyLost, ClaimRows, Claimable, Stored, Settled
  <2> QED
    BY <1>0, <2>2, <2>3, FatesKept
<1>5. CASE Delivering
  <2> PICK c \in copies :
        \/ StartHandler(c)
        \/ RefuseDelivery(c)
        \/ \E o \in {"ack", "retry", "retry_terminal", "rejected"} : RecordOutcome(c, o)
        \/ Abandon(c)
        \/ GiveUpWrite(c)
    BY <1>5 DEF Delivering
  <2>1. UNCHANGED <<lastId, row, fate, dlq>> /\ verdicts \subseteq verdicts'
    BY DEF StartHandler, RefuseDelivery, RecordOutcome, Abandon, GiveUpWrite
  <2>2. Abandon(c) => Runs'
    BY <1>0, <2>1, SameRows DEF Abandon, Stored
  <2>3. Runs'
    BY <1>0, <2>2, RunsOfStart, RunsOfVerdict, RunsOfGiveUp
  <2> QED
    BY <1>0, <2>1, <2>3, FatesKept
<1>6. CASE Writing
  <2>1. ASSUME NEW c \in copies, DeleteWithLease(c)
        PROVE  Runs' /\ NothingLost' /\ DeadLettersFaithful'
    <3>1. /\ copies' \subseteq copies /\ UNCHANGED <<lastId, row, invocations, verdicts>>
          /\ \A i \in Id : Stored(i)' => Stored(i)
      BY <1>0, <2>1 DEF DeleteWithLease, FateOf, Stored
    <3> QED
      BY <1>0, <2>1, <3>1, SameRows, FatesOfDelete
  <2>2. ASSUME NEW c \in copies, NEW d \in Delay, MarkPendingWithLease(c, d)
        PROVE  Runs' /\ NothingLost' /\ DeadLettersFaithful'
    BY <1>0, <2>2, HistoryOfMarkPending
  <2>3. ASSUME NEW S \in SUBSET copies, DeleteBatchWithLease(S)
        PROVE  Runs' /\ NothingLost' /\ DeadLettersFaithful'
    <3>1. /\ copies' \subseteq copies /\ UNCHANGED <<lastId, row, invocations, verdicts>>
          /\ \A i \in Id : Stored(i)' => Stored(i)
      BY <2>3 DEF DeleteBatchWithLease, FateOf, Stored
    <3> QED
      BY <1>0, <2>3, <3>1, SameRows, FatesOfBatch
  <2> QED
    BY <1>6, <2>1, <2>2, <2>3 DEF Writing
<1> QED
  BY <1>1, <1>2, <1>3, <1>4, <1>5, <1>6 DEF Next

\* No row has been inserted yet, so nothing was delivered or removed.
LEMMA HistoryInit == Init => HistoryInv
<1> SUFFICES ASSUME Init PROVE HistoryInv
  OBVIOUS
<1>1. LeaseInv /\ TypeOK
  BY LeaseInvInit DEF LeaseInv
<1>2. /\ copies = {} /\ dlq = {} /\ lastId = 0
      /\ \A i \in Id : row[i].deliveries = 0 /\ row[i].attempts = 0 /\ invocations[i] = 0
  BY DEF Init, BlankRow
<1>3. RunsAreDeliveries
  <2>1. ASSUME NEW i \in Id PROVE Cardinality(Spent(i)) = 0
    <3>1. Spent(i) = {}
      BY <1>2 DEF Spent
    <3> QED
      BY <3>1, FS_EmptySet
  <2> QED
    BY <1>2, <2>1 DEF RunsAreDeliveries
<1>4. AttemptsAreRuns
  BY <1>2 DEF AttemptsAreRuns
<1>5. DeliveriesDistinct /\ UnbornUndelivered /\ VerdictsRecorded
  BY <1>2 DEF DeliveriesDistinct, UnbornUndelivered, VerdictsRecorded
<1>6. NothingLost /\ DeadLettersFaithful
  BY <1>2 DEF NothingLost, DeadLettersFaithful
<1> QED
  BY <1>1, <1>3, <1>4, <1>5, <1>6 DEF HistoryInv, Runs

\* Only deliveries within max_deliveries are ever spent, and only deliveries
\* that were counted.
LEMMA RunsWithinLimits == HistoryInv => InvocationsBounded
<1> SUFFICES ASSUME HistoryInv, NEW i \in Id
             PROVE  /\ invocations[i] <= MaxDeliveries
                    /\ row[i].attempts <= invocations[i]
                    /\ invocations[i] <= row[i].deliveries
  BY DEF InvocationsBounded
<1>0. TypeOK /\ Runs
  BY DEF HistoryInv, LeaseInv
<1>1. /\ row[i].deliveries \in Nat /\ invocations[i] \in Nat /\ MaxDeliveries \in Nat
      /\ 1 \in Int /\ row[i].deliveries \in Int /\ MaxDeliveries \in Int
  BY <1>0, HistoryTypes, ConstantsAssumption
<1>2. /\ IsFiniteSet(1..row[i].deliveries) /\ IsFiniteSet(1..MaxDeliveries)
      /\ Cardinality(1..row[i].deliveries) = row[i].deliveries
      /\ Cardinality(1..MaxDeliveries) = MaxDeliveries
  <2>1. /\ IsFiniteSet(1..row[i].deliveries)
        /\ Cardinality(1..row[i].deliveries) =
             IF 1 > row[i].deliveries THEN 0 ELSE row[i].deliveries - 1 + 1
    BY <1>1, FS_Interval
  <2>2. /\ IsFiniteSet(1..MaxDeliveries)
        /\ Cardinality(1..MaxDeliveries) =
             IF 1 > MaxDeliveries THEN 0 ELSE MaxDeliveries - 1 + 1
    BY <1>1, FS_Interval
  <2> QED
    BY <1>1, <2>1, <2>2
<1>3. Spent(i) \subseteq 1..row[i].deliveries /\ Spent(i) \subseteq 1..MaxDeliveries
  BY <1>1 DEF Spent
<1>4. /\ Cardinality(Spent(i)) <= row[i].deliveries /\ Cardinality(Spent(i)) <= MaxDeliveries
      /\ Cardinality(Spent(i)) \in Nat
  BY <1>2, <1>3, FS_Subset, FS_CardinalityType
<1>5. invocations[i] <= Cardinality(Spent(i)) /\ row[i].attempts <= invocations[i]
  BY <1>0 DEF Runs, RunsAreDeliveries, AttemptsAreRuns
<1> QED
  BY <1>1, <1>4, <1>5

\* A handler runs at most max_deliveries times for a row, whatever is retried,
\* lost, expired or crashed, and every run is a counted delivery
\* (InvocationsBounded).
THEOREM HandlerRunsBounded == Spec => []InvocationsBounded
BY RunsWithinLimits, HistoryInit, HistoryStep, PTL DEF Spec

\* A row leaves the table cancelled, or for the recorded success or failure of
\* a delivery of what it held then (NothingLost).
THEOREM NoRowLost == Spec => []NothingLost
<1>1. HistoryInv => NothingLost
  BY DEF HistoryInv
<1> QED
  BY <1>1, HistoryInit, HistoryStep, PTL DEF Spec

\* A dead letter records its row as it was deleted and is the only one of it
\* (DeadLettersFaithful).
THEOREM ArchiveFaithful == Spec => []DeadLettersFaithful
<1>1. HistoryInv => DeadLettersFaithful
  BY DEF HistoryInv
<1> QED
  BY <1>1, HistoryInit, HistoryStep, PTL DEF Spec
-----------------------------------------------------------------------------
(* The table implements at-least-once delivery. *)

\* Inserts accept messages; an extend changes nothing a publisher can see.
LEMMA PublishingAccepts ==
    ASSUME HistoryInv, Publishing
    PROVE  (\E S \in SUBSET Id : Promise!Accept(S)) \/ UNCHANGED Promise!avars
<1>0. /\ TypeOK /\ IdsInOrder /\ lastId \in Nat /\ Id \subseteq Nat
      /\ fate \in [Id -> Fate]
  BY HistoryTypes DEF HistoryInv, LeaseInv, TypeOK
<1>1. UNCHANGED <<invocations, AckRecorded, Archived>>
  BY DEF Publishing, Publish, InsertTimer, ExtendTimer, AckRecorded, Archived
<1>2. ASSUME NEW n \in 1..MaxRows, NEW d \in Delay, Publish(n, d)
      PROVE  \E S \in SUBSET Id : Promise!Accept(S)
  <2> DEFINE S == Id \cap lastId + 1 .. lastId + n
  <2>1. \A i \in S : fate[i] = "unborn"
    BY <1>0 DEF IdsInOrder
  <2>2. fate' = [i \in Id |-> IF i \in S THEN "stored" ELSE fate[i]]
    BY <1>2 DEF Publish
  <2>3. S \in SUBSET Id
    OBVIOUS
  <2> HIDE DEF S
  <2> QED
    BY <1>1, <2>1, <2>2, <2>3 DEF Promise!Accept
<1>3. ASSUME NEW t \in Timer, NEW d \in Delay, InsertTimer(t, d)
      PROVE  \E S \in SUBSET Id : Promise!Accept(S)
  <2> DEFINE S == {lastId + 1}
  <2>1. lastId + 1 \in Id
    BY <1>0, <1>3, ConstantsAssumption DEF InsertTimer, Id
  <2>2. \A i \in S : fate[i] = "unborn"
    BY <1>0, <2>1 DEF IdsInOrder
  <2>3. fate' = [i \in Id |-> IF i \in S THEN "stored" ELSE fate[i]]
    BY <1>0, <1>3 DEF InsertTimer
  <2>4. S \in SUBSET Id
    BY <2>1
  <2> HIDE DEF S
  <2> QED
    BY <1>1, <2>2, <2>3, <2>4 DEF Promise!Accept
<1>4. ASSUME NEW t \in Timer, NEW d \in Delay, ExtendTimer(t, d)
      PROVE  UNCHANGED Promise!avars
  BY <1>1, <1>4 DEF ExtendTimer, Promise!avars
<1> QED
  BY <1>2, <1>3, <1>4 DEF Publishing

\* A handler run is one of the runs allowed, and a recorded ack follows a run.
LEMMA DeliveringRuns ==
    ASSUME HistoryInv, HistoryInv', Delivering
    PROVE  (\E i \in Id : Promise!Run(i) \/ Promise!Succeed(i)) \/ UNCHANGED Promise!avars
<1>0. /\ TypeOK /\ IdsInOrder /\ ClaimsDistinct /\ Runs /\ lastId \in Nat /\ Id \subseteq Nat
      /\ \A i \in Id : invocations[i] \in Nat
      /\ invocations \in [Id -> Nat]
  BY HistoryTypes DEF HistoryInv, LeaseInv, TypeOK
<1> PICK c \in copies :
      \/ StartHandler(c)
      \/ RefuseDelivery(c)
      \/ \E o \in {"ack", "retry", "retry_terminal", "rejected"} : RecordOutcome(c, o)
      \/ Abandon(c)
      \/ GiveUpWrite(c)
  BY DEF Delivering
<1>1. c.id \in Id /\ c.id <= lastId
  BY <1>0, HistoryTypes DEF ClaimsDistinct
<1>2. UNCHANGED <<fate, Archived>>
  BY DEF StartHandler, RefuseDelivery, RecordOutcome, Abandon, GiveUpWrite, Archived
<1>3. CASE StartHandler(c)
  <2>1. fate[c.id] # "unborn"
    <3>1. c.id \in Nat /\ ~(c.id > lastId)
      <4>1. c.id \in Nat /\ lastId \in Nat /\ c.id <= lastId
        BY <1>0, <1>1
      <4> QED
        BY <4>1
    <3> QED
      BY <1>0, <1>1, <3>1 DEF IdsInOrder
  <2>2. invocations' = [invocations EXCEPT ![c.id] = @ + 1] /\ verdicts' = verdicts
    BY <1>3 DEF StartHandler
  <2>3. invocations[c.id] < MaxDeliveries
    <3>1. InvocationsBounded'
      BY RunsWithinLimits, PTL
    <3>2. invocations'[c.id] <= MaxDeliveries /\ invocations'[c.id] = invocations[c.id] + 1
      BY <1>0, <1>1, <2>2, <3>1 DEF InvocationsBounded
    <3> QED
      <4>1. invocations[c.id] \in Nat /\ MaxDeliveries \in Nat
        BY <1>0, <1>1, ConstantsAssumption
      <4> QED
        BY <3>2, <4>1
  <2>4. AckRecorded' = AckRecorded
    BY <2>2 DEF AckRecorded
  <2> QED
    BY <1>1, <1>2, <2>1, <2>2, <2>3, <2>4 DEF Promise!Run
<1>4. ASSUME NEW o \in {"retry", "retry_terminal", "rejected", "max_deliveries"},
             verdicts' = verdicts \cup {VerdictOn(c, o)}, invocations' = invocations
      PROVE  UNCHANGED Promise!avars
  <2>1. VerdictOn(c, o).outcome # "ack"
    BY DEF VerdictOn
  <2>2. AckRecorded' = AckRecorded
    BY <1>4, <2>1 DEF AckRecorded
  <2> QED
    BY <1>2, <1>4, <2>2 DEF Promise!avars
<1>5. CASE RecordOutcome(c, "ack")
  <2>1. /\ c.phase = "running" /\ invocations' = invocations
        /\ verdicts' = verdicts \cup {VerdictOn(c, "ack")}
    BY <1>5 DEF RecordOutcome
  <2>2. invocations[c.id] > 0
    BY <1>0, <2>1 DEF Runs, AttemptsAreRuns
  <2>3. VerdictOn(c, "ack").id = c.id /\ VerdictOn(c, "ack").outcome = "ack"
    BY DEF VerdictOn
  <2>4. AckRecorded' = AckRecorded \cup {c.id}
    BY <1>1, <2>1, <2>3 DEF AckRecorded
  <2> QED
    BY <1>1, <1>2, <2>1, <2>2, <2>4 DEF Promise!Succeed
<1>6. CASE Abandon(c) \/ GiveUpWrite(c)
  BY <1>2, <1>6 DEF Abandon, GiveUpWrite, AckRecorded, Promise!avars
<1>7. CASE RefuseDelivery(c)
  BY <1>4, <1>7 DEF RefuseDelivery
<1>8. ASSUME NEW o \in {"retry", "retry_terminal", "rejected"}, RecordOutcome(c, o)
      PROVE  UNCHANGED Promise!avars
  BY <1>4, <1>8 DEF RecordOutcome
<1> QED
  BY <1>3, <1>5, <1>6, <1>7, <1>8

\* A delete removes what succeeded, and what failed together with its archive; a
\* retry removes nothing.
LEMMA WritingRemoves ==
    ASSUME HistoryInv, HistoryInv', Writing
    PROVE  \/ \E A, D \in SUBSET Id : A \cap D = {} /\ Promise!Remove(A, D)
           \/ UNCHANGED Promise!avars
<1>0. /\ TypeOK /\ fate \in [Id -> Fate] /\ fate' \in [Id -> Fate]
      /\ \A c \in copies : c.id \in Id
      /\ 1..lastId \subseteq Id /\ IdsInOrder /\ lastId \in Nat /\ Id \subseteq Nat
  <2>1. TypeOK /\ TypeOK' /\ IdsInOrder
    BY DEF HistoryInv, LeaseInv
  <2>2. /\ fate \in [Id -> Fate] /\ fate' \in [Id -> Fate] /\ lastId \in 0..MaxRows
    BY <2>1 DEF TypeOK
  <2>3. /\ \A c \in copies : c.id \in Id
        /\ lastId \in Nat /\ Id \subseteq Nat
    BY <2>1, HistoryTypes
  <2>4. 1..lastId \subseteq Id
    BY <2>2, ConstantsAssumption DEF Id
  <2> QED
    BY <2>1, <2>2, <2>3, <2>4
<1>1. UNCHANGED <<lastId, invocations, verdicts, AckRecorded>>
  BY DEF Writing, DeleteWithLease, MarkPendingWithLease, DeleteBatchWithLease, AckRecorded
<1>a. \A i \in Id : Stored(i) => i \in 1..lastId'
  BY <1>0, <1>1, ConstantsAssumption DEF IdsInOrder, Stored, Id
<1> DEFINE A == {i \in Id : Stored(i) /\ fate'[i] = "acked"}
           D == {i \in Id : Stored(i) /\ fate'[i] = "dead"}
<1>2. A \in SUBSET Id /\ D \in SUBSET Id /\ A \cap D = {} /\ \A i \in A \cup D : fate[i] = "stored"
  BY DEF Stored
<1>3. A \subseteq AckRecorded
  <2>1. ASSUME NEW i \in A PROVE i \in AckRecorded
    <3>1. i \in 1..lastId' /\ fate'[i] = "acked"
      BY <1>a DEF Stored
    <3>2. Recorded(i, "ack")'
      BY <3>1 DEF HistoryInv, NothingLost
    <3> QED
      BY <1>1, <3>2 DEF Recorded, AckRecorded
  <2> QED
    BY <2>1
<1>4. ASSUME \A i \in Id : fate'[i] = fate[i] \/ (Stored(i) /\ fate'[i] \in {"acked", "dead"}),
             Archived' = IF HasDLQ THEN Archived \cup D ELSE Archived
      PROVE  Promise!Remove(A, D)
  <2>1. fate' = [i \in Id |-> IF i \in A THEN "acked" ELSE IF i \in D THEN "dead" ELSE fate[i]]
    BY <1>0, <1>4 DEF Stored
  <2> HIDE DEF A, D
  <2> QED
    BY <1>1, <1>2, <1>3, <1>4, <2>1 DEF Promise!Remove
<1>5. ASSUME NEW c \in copies, DeleteWithLease(c)
      PROVE  Promise!Remove(A, D)
  <2>1. \A i \in Id : \/ fate'[i] = fate[i]
                      \/ i = c.id /\ HoldsLease(c) /\ fate'[i] = FateOf(c)
    BY <1>0, <1>5 DEF DeleteWithLease
  <2>2. HoldsLease(c) => fate'[c.id] = FateOf(c) /\ Stored(c.id)
    BY <1>0, <1>5 DEF DeleteWithLease, HoldsLease
  <2>3. c.outcome \in Reason \cup {"ack"} /\ (FateOf(c) = "dead" <=> c.outcome \in Reason)
    BY <1>5 DEF DeleteWithLease, FateOf, Reason
  <2>4. D = IF HoldsLease(c) /\ c.outcome \in Reason THEN {c.id} ELSE {}
    BY <1>0, <2>1, <2>2, <2>3 DEF Stored
  <2>5. Archived' = IF HasDLQ THEN Archived \cup D ELSE Archived
    <3>1. CASE HoldsLease(c) /\ DeadLettered(c)
      <4>1. PICK e : e.id = c.id /\ dlq' = dlq \cup {e}
        BY <1>5, <3>1 DEF DeleteWithLease
      <4>2. Archived' = Archived \cup {c.id}
        BY <1>0, <4>1 DEF Archived
      <4> QED
        BY <2>4, <3>1, <4>2 DEF DeadLettered
    <3>2. CASE ~(HoldsLease(c) /\ DeadLettered(c))
      <4>1. Archived' = Archived
        BY <1>5, <3>2 DEF DeleteWithLease, Archived
      <4> QED
        BY <2>4, <3>2, <4>1 DEF DeadLettered
    <3> QED
      BY <3>1, <3>2
  <2>6. FateOf(c) \in {"acked", "dead"}
    BY DEF FateOf
  <2> QED
    BY <1>4, <2>1, <2>2, <2>5, <2>6
<1>6. ASSUME NEW S \in SUBSET copies, DeleteBatchWithLease(S)
      PROVE  Promise!Remove(A, D)
  <2>1. \A i \in Id : fate'[i] = fate[i] \/ (Stored(i) /\ fate'[i] \in {"acked", "dead"})
    BY <1>6 DEF DeleteBatchWithLease, HoldsLease, FateOf, Stored
  <2>2. Archived' = Archived
    BY <1>6 DEF DeleteBatchWithLease, Archived
  <2>3. HasDLQ => D = {}
    <3>1. ASSUME NEW i \in D, HasDLQ PROVE FALSE
      <4>1. i \in 1..lastId' /\ fate'[i] = "dead" /\ fate[i] = "stored"
        BY <1>a DEF Stored
      <4>2. PICK e \in dlq' : e.id = i
        BY <3>1, <4>1 DEF HistoryInv, NothingLost
      <4>3. e \in dlq
        BY <1>6, <4>2 DEF DeleteBatchWithLease
      <4> QED
        BY <4>1, <4>2, <4>3 DEF HistoryInv, DeadLettersFaithful
    <3> QED
      BY <3>1
  <2> QED
    BY <1>4, <2>1, <2>2, <2>3
<1>7. ASSUME NEW c \in copies, NEW d \in Delay, MarkPendingWithLease(c, d)
      PROVE  UNCHANGED Promise!avars
  BY <1>1, <1>7 DEF MarkPendingWithLease, Archived, Promise!avars
<1> HIDE DEF A, D
<1> QED
  BY <1>2, <1>5, <1>6, <1>7 DEF Writing

\* Every step of the table is a step of the promise, or nothing a publisher sees.
LEMMA PromiseStep ==
    HistoryInv /\ HistoryInv' /\ [Next]_vars => [Promise!ANext]_(Promise!avars)
<1> SUFFICES ASSUME HistoryInv, HistoryInv', [Next]_vars
             PROVE  Promise!ANext \/ UNCHANGED Promise!avars
  OBVIOUS
<1> USE DEF Promise!ANext
<1>1. CASE Tick \/ Claiming \/ UNCHANGED vars
  BY <1>1 DEF Tick, Claiming, Fetch, FetchReplyLost, vars, AckRecorded, Archived, Promise!avars
<1>2. CASE Publishing
  BY <1>2, PublishingAccepts
<1>3. CASE Cancelling
  <2>1. PICK j \in Id : /\ fate[j] = "stored" /\ fate' = [fate EXCEPT ![j] = "cancelled"]
                        /\ UNCHANGED <<invocations, verdicts, dlq>>
    BY <1>3 DEF Cancelling, CancelTimer, LiveTimer, Stored
  <2>2. Promise!Cancel(j)
    BY <2>1 DEF Promise!Cancel, AckRecorded, Archived
  <2> QED
    BY <2>2
<1>4. CASE Delivering
  BY <1>4, DeliveringRuns
<1>5. CASE Writing
  BY <1>5, WritingRemoves
<1> QED
  BY <1>1, <1>2, <1>3, <1>4, <1>5 DEF Next

\* The table with its lease protocol implements at-least-once delivery
\* (AtLeastOnce), for any number of rows, claims, replicas and crashes.
THEOREM TableKeepsPromise == Spec => ImplementsAtLeastOnce
<1>1. Init => Promise!AInit
  BY DEF Init, Promise!AInit, AckRecorded, Archived
<1> QED
  BY <1>1, HistoryInit, HistoryStep, PromiseStep, PTL
     DEF Spec, ImplementsAtLeastOnce, Promise!ASpec
=============================================================================
