---------------------------- MODULE OwnPoolProofs ----------------------------
(***************************************************************************)
(* One order is delegated at most once, for any number of processes, any   *)
(* life of a transaction, any lag of the solidified view and any faults.   *)
(*                                                                         *)
(* An attempt is replaced only when it has expired, and it expires only    *)
(* when its transaction is gone: its time is over on the chain and it was  *)
(* not mined.  That this is known and not merely observed rests on the     *)
(* order of two reads, the transaction first and the solidified block      *)
(* after it, and is what a call in flight carries with it (Knows).         *)
(***************************************************************************)
EXTENDS OwnPool, FiniteSetTheorems, TLAPS

(* A transaction that is not on the chain and never will be.                 *)
Gone(tx, land, time) == tx.expires <= time /\ \A l \in land : l.tx # tx

(* A delegation that has succeeded and is solidified.                        *)
Succeeded(tx, land, time) ==
  \E l \in land : l.tx = tx /\ l.result = "completed" /\ l.at + Lag <= time

(* What the journal says of an attempt is true.                              *)
IsSound(r, land, time) ==
  /\ r.txid # NoTx => r.signed = r.txid
  /\ r.status = "expired" => Gone(r.txid, land, time)
  /\ r.status = "completed" => Succeeded(r.txid, land, time)

JournalIsSound ==
  \A n \in 1 .. Latest :
    /\ IsSound(attempts[n], landed, now)
    /\ n < Latest => attempts[n].status = "expired"

ChainIsSound ==
  /\ \A l \in landed : l.tx \in pool /\ l.at <= now /\ l.at < l.tx.expires
  /\ \A l, m \in landed : l.tx = m.tx => l = m

PoolIsJournaled == \A tx \in pool : \E n \in 1 .. Latest : attempts[n].txid = tx

(* The provider order id is the transaction of the last attempt, if it has   *)
(* one.                                                                      *)
IdentityIsCurrent ==
  \A n \in 1 .. Latest :
    attempts[n].txid # NoTx =>
      providerOrderId # NoTx /\ (n = Latest => providerOrderId = attempts[n].txid)

EndsWith(att, status) == Len(att) > 0 /\ att[Len(att)].status = status

(* What is known of an answer with a status and a transaction: it is about a *)
(* claimed one, and a final answer about the last attempt of all.            *)
IsAnswer(status, tx, att, id) ==
  /\ tx # NoTx => id # NoTx
  /\ status \in Results => EndsWith(att, status) /\ tx \in {NoTx, id}

(* What a call in flight knows, given the journal, the chain and its time.   *)
Knows(k, att, id, land, time) ==
  /\ k.pc \in {"start", "short", "sign", "claim", "broadcast", "record", "look",
               "read_block", "seen"} => k.n \in 1 .. Len(att)
  /\ k.pc = "sign" => k.tx # NoTx
  /\ k.pc = "claim" => k.tx # NoTx /\ k.tx = att[k.n].signed
  /\ k.pc \in {"broadcast", "record", "look", "read_block", "seen"} =>
       k.tx # NoTx /\ k.tx = att[k.n].txid
  /\ k.pc = "read_block" =>
       /\ k.since <= time /\ time <= k.since + Lag
       /\ \A l \in land : l.tx = k.tx => k.since <= l.at
  /\ k.pc = "record" => k.seen \in {"accepted", "unknown"}
  /\ k.pc = "seen" =>
       /\ k.seen \in Results \cup {"processing", "absent", "unknown"}
       /\ k.seen = "absent" => Gone(k.tx, land, time)
       /\ k.seen = "completed" => Succeeded(k.tx, land, time)
  /\ k.pc \in {"refresh", "answered"} => IsAnswer(k.seen, k.tx, att, id)

CallsKnow == \A c \in Processes : Knows(call[c], attempts, providerOrderId, landed, now)

Delegated ==
  /\ TypeOK
  /\ JournalIsSound
  /\ ChainIsSound
  /\ PoolIsJournaled
  /\ IdentityIsCurrent
  /\ CallsKnow
  /\ delivery \in Results => EndsWith(attempts, delivery)

Final == {"completed", "failed", "expired"}

(* What no step takes back from an attempt.                                  *)
RowAdvances(r, next) ==
  /\ r.signed # NoTx => next.signed = r.signed
  /\ r.txid # NoTx => next.txid = r.txid
  /\ r.status \in Final => next = r
  /\ next.status = "created" => r.status = "created"

(* Nothing is written any more once the last attempt has a result.           *)
JournalAdvances ==
  /\ attempts' \in Seq(Row)
  /\ Len(attempts) <= Len(attempts')
  /\ providerOrderId # NoTx => providerOrderId' # NoTx
  /\ \A status \in Results : EndsWith(attempts, status) => UNCHANGED <<attempts, providerOrderId>>
  /\ \A n \in 1 .. Latest : RowAdvances(attempts[n], attempts'[n])

-----------------------------------------------------------------------------
(* Facts about the state.                                                    *)

(* A transaction has an expiration.                                          *)
LEMMA TxExpires == \A tx \in Tx : tx # NoTx /\ tx.expires \in Nat
BY NoTxIsNoTx DEF Tx

(* A final status is kept, and none goes back to new.                       *)
LEMMA Transitions ==
  ASSUME NEW s \in Statuses, NEW t \in Statuses, TransitionAllowed(s, t)
  PROVE  /\ s \in Final => t = s
         /\ t = "created" => s = "created"
<1>1. CASE s \in Final
  BY <1>1 DEF TransitionAllowed, Statuses, Final
<1>2. CASE s = "created"
  BY <1>2 DEF TransitionAllowed, Statuses, Final
<1>3. CASE s = "signed"
  BY <1>3 DEF TransitionAllowed, Statuses, Final
<1>4. CASE s = "accepted"
  BY <1>4 DEF TransitionAllowed, Statuses, Final
<1>5. CASE s = "processing"
  BY <1>5 DEF TransitionAllowed, Statuses, Final
<1>6. CASE s = "unknown"
  BY <1>6 DEF TransitionAllowed, Statuses, Final
<1> QED BY <1>1, <1>2, <1>3, <1>4, <1>5, <1>6 DEF Statuses, Final

(* An attempt of the journal is a row of its table.                         *)
LEMMA RowsAreRows ==
  ASSUME TypeOK, NEW n \in 1 .. Latest
  PROVE  attempts[n] \in Row
BY DEF TypeOK, Latest

(* A call goes on knowing what it knew when the journal advances.            *)
LEMMA KnowledgeStays ==
  ASSUME TypeOK, CallsKnow, JournalAdvances, NEW d \in Processes
  PROVE  Knows(call[d], attempts', providerOrderId', landed, now)
<1> DEFINE k == call[d]
<1>1. Knows(k, attempts, providerOrderId, landed, now) /\ k \in CallStates
  BY DEF CallsKnow, TypeOK
<1>2. Len(attempts) \in Nat /\ Len(attempts') \in Nat
  BY DEF TypeOK, JournalAdvances
<1>3. \A n \in 1 .. Len(attempts) :
        n \in 1 .. Len(attempts') /\ RowAdvances(attempts[n], attempts'[n])
  BY <1>2 DEF JournalAdvances, Latest
<1>4. ASSUME NEW status, NEW tx, IsAnswer(status, tx, attempts, providerOrderId)
      PROVE  IsAnswer(status, tx, attempts', providerOrderId')
  BY <1>4 DEF JournalAdvances, IsAnswer
<1> SUFFICES Knows(k, attempts', providerOrderId', landed, now)
  OBVIOUS
<1> HIDE DEF k
<1> QED BY <1>1, <1>3, <1>4 DEF Knows, RowAdvances

(* One call moves, to a state in which what it knows is true.                *)
LEMMA CallMoves ==
  ASSUME TypeOK, CallsKnow, JournalAdvances, UNCHANGED <<landed, now>>,
         NEW c \in Processes, NEW k \in CallStates, call' = [call EXCEPT ![c] = k],
         Knows(k, attempts', providerOrderId', landed, now)
  PROVE  call' \in [Processes -> CallStates] /\ CallsKnow'
<1>1. \A d \in Processes : call'[d] = IF d = c THEN k ELSE call[d]
  BY DEF TypeOK
<1>2. \A d \in Processes : Knows(call'[d], attempts', providerOrderId', landed', now')
  BY <1>1, KnowledgeStays
<1> QED BY <1>2 DEF CallsKnow, TypeOK

(* The same journal.                                                         *)
LEMMA JournalStays ==
  ASSUME TypeOK, UNCHANGED <<attempts, providerOrderId>>
  PROVE  JournalAdvances
BY DEF TypeOK, JournalAdvances, RowAdvances, Latest

(* A step of one call that leaves the journal and the chain alone.           *)
LEMMA OnlyTheCallMoves ==
  ASSUME Delegated, UNCHANGED <<attempts, providerOrderId, chain>>,
         NEW c \in Processes, NEW k \in CallStates, call' = [call EXCEPT ![c] = k],
         Knows(k, attempts, providerOrderId, landed, now),
         delivery' \in {"open"} \cup Results,
         delivery' \in Results => EndsWith(attempts, delivery'),
         faults' \in 0 .. MaxFaults
  PROVE  Delegated'
<1>1. UNCHANGED <<pool, landed, now>>
  BY DEF chain
<1>2. JournalAdvances
  BY JournalStays DEF Delegated
<1>3. call' \in [Processes -> CallStates] /\ CallsKnow'
  BY <1>1, <1>2, CallMoves DEF Delegated
<1>4. TypeOK'
  BY <1>1, <1>3 DEF Delegated, TypeOK, Latest
<1>5. JournalIsSound' /\ ChainIsSound' /\ PoolIsJournaled' /\ IdentityIsCurrent'
  BY <1>1 DEF Delegated, JournalIsSound, ChainIsSound, PoolIsJournaled, IdentityIsCurrent, Latest
<1> QED BY <1>1, <1>3, <1>4, <1>5 DEF Delegated, EndsWith

(* A step of one call that changes a row of the journal.                     *)
LEMMA RowChanges ==
  ASSUME Delegated, UNCHANGED <<delivery, chain>>,
         NEW n \in 1 .. Latest, NEW r \in Row,
         attempts' = [attempts EXCEPT ![n] = r],
         RowAdvances(attempts[n], r), IsSound(r, landed, now),
         r.status = "created" => r.txid = NoTx,
         r.txid = NoTx => r.status \in {"created", "failed"},
         \/ r.txid = attempts[n].txid /\ UNCHANGED providerOrderId
         \/ /\ attempts[n].status \notin Final
            /\ r.txid # NoTx /\ providerOrderId' = r.txid,
         NEW c \in Processes, NEW k \in CallStates, call' = [call EXCEPT ![c] = k],
         Knows(k, attempts', providerOrderId', landed, now),
         faults' \in 0 .. MaxFaults
  PROVE  Delegated' /\ JournalAdvances
<1>1. UNCHANGED <<pool, landed, now>>
  BY DEF chain
<1>2. /\ attempts' \in Seq(Row)
      /\ Len(attempts') = Len(attempts)
      /\ \A m \in 1 .. Latest : attempts'[m] = IF m = n THEN r ELSE attempts[m]
  BY DEF Delegated, TypeOK, Latest
<1>3. attempts[n].status \notin Final => n = Latest
  BY DEF Delegated, JournalIsSound, TypeOK, Latest, Final
<1>4. \A status \in Results : EndsWith(attempts, status) => UNCHANGED <<attempts, providerOrderId>>
  <2> SUFFICES ASSUME NEW status \in Results, EndsWith(attempts, status)
      PROVE  UNCHANGED <<attempts, providerOrderId>>
    OBVIOUS
  <2>1. attempts[n].status \in Final
    BY <1>3 DEF EndsWith, Final, Results, Latest
  <2>2. r = attempts[n]
    BY <2>1 DEF RowAdvances
  <2>3. attempts' = attempts
    BY <2>2 DEF Delegated, TypeOK
  <2> QED BY <2>1, <2>3
<1>5. JournalAdvances
  <2>1. providerOrderId # NoTx => providerOrderId' # NoTx
    OBVIOUS
  <2> QED BY <1>2, <1>4, <2>1 DEF JournalAdvances, RowAdvances, Latest, Delegated, TypeOK
<1>6. call' \in [Processes -> CallStates] /\ CallsKnow'
  BY <1>1, <1>5, CallMoves DEF Delegated
<1>7. providerOrderId' \in Tx \cup {NoTx}
  BY DEF Delegated, TypeOK, Row
<1>8. TypeOK'
  BY <1>1, <1>2, <1>6, <1>7 DEF Delegated, TypeOK, Latest
<1>9. JournalIsSound'
  BY <1>1, <1>2 DEF Delegated, JournalIsSound, Latest, RowAdvances, Final
<1>10. ChainIsSound'
  BY <1>1 DEF Delegated, ChainIsSound
<1>11. PoolIsJournaled'
  BY <1>1, <1>2, TxExpires DEF Delegated, PoolIsJournaled, Latest, RowAdvances, TypeOK
<1>12. IdentityIsCurrent'
  <2>1. CASE r.txid = attempts[n].txid /\ UNCHANGED providerOrderId
    BY <1>2, <2>1 DEF Delegated, IdentityIsCurrent, Latest
  <2>2. CASE n = Latest /\ r.txid # NoTx /\ providerOrderId' = r.txid
    BY <1>2, <2>2 DEF IdentityIsCurrent, Latest
  <2> QED BY <1>3, <2>1, <2>2
<1>13. delivery' \in Results => EndsWith(attempts', delivery')
  BY <1>4 DEF Delegated
<1> QED BY <1>5, <1>6, <1>8, <1>9, <1>10, <1>11, <1>12, <1>13 DEF Delegated

-----------------------------------------------------------------------------
(* Initially.                                                                *)
LEMMA InitDelegated == Init => Delegated
<1> SUFFICES ASSUME Init PROVE Delegated
  OBVIOUS
<1>1. Latest = 0 /\ attempts \in Seq(Row)
  BY DEF Init, Latest
<1>2. Idle \in CallStates
  BY DEF Idle, CallStates
<1>3. TypeOK
  BY <1>1, <1>2, BoundsAreNatural DEF Init, TypeOK, Results
<1>4. CallsKnow
  BY DEF Init, CallsKnow, Knows, Idle
<1> QED BY <1>1, <1>3, <1>4
        DEF Init, Delegated, JournalIsSound, ChainIsSound, PoolIsJournaled, IdentityIsCurrent, Results

(* The chain.                                                                *)
LEMMA LandDelegated ==
  ASSUME Delegated, NEW tx \in pool, NEW result \in Results, Land(tx, result)
  PROVE  Delegated'
<1> DEFINE l == [tx |-> tx, at |-> now, result |-> result]
<1>1. /\ tx \in Tx /\ tx.expires \in Nat /\ tx.expires > now /\ now \in Nat
      /\ \A m \in landed : m.tx # tx
      /\ landed' = landed \cup {l}
      /\ UNCHANGED <<attempts, delivery, providerOrderId, pool, now, call, faults>>
  BY TxExpires DEF Land, Mined, Delegated, TypeOK, journal, deliveryRow
<1>2. l \in Landings /\ l.tx = tx /\ l.at = now
  BY <1>1 DEF Landings
<1> HIDE DEF l
<1>3. TypeOK'
  BY <1>1, <1>2 DEF Delegated, TypeOK, Latest
<1>4. \A t, time : Succeeded(t, landed, time) => Succeeded(t, landed', time)
  BY <1>1 DEF Succeeded
<1>5. \A t \in Tx : Gone(t, landed, now) => Gone(t, landed', now)
  BY <1>1, <1>2, TxExpires DEF Gone
<1>6. \A n \in 1 .. Latest :
        attempts[n].status \in {"expired", "completed"} => attempts[n].txid \in Tx
  BY RowsAreRows DEF Delegated, TypeOK, Row
<1>7. JournalIsSound'
  BY <1>1, <1>4, <1>5, <1>6 DEF Delegated, JournalIsSound, IsSound, Latest
<1>8. ChainIsSound'
  BY <1>1, <1>2 DEF Delegated, ChainIsSound
<1>9. PoolIsJournaled' /\ IdentityIsCurrent'
  BY <1>1 DEF Delegated, PoolIsJournaled, IdentityIsCurrent, Latest
<1>10. CallsKnow'
  <2> SUFFICES ASSUME NEW c \in Processes
      PROVE  Knows(call[c], attempts, providerOrderId, landed', now)
    BY <1>1 DEF CallsKnow
  <2>1. Knows(call[c], attempts, providerOrderId, landed, now) /\ call[c] \in CallStates
    BY DEF Delegated, CallsKnow, TypeOK
  <2>2. call[c].pc = "seen" => call[c].tx \in Tx
    BY <2>1 DEF Knows, CallStates
  <2> QED BY <1>1, <1>2, <1>4, <1>5, <2>1, <2>2 DEF Knows
<1> QED BY <1>1, <1>3, <1>7, <1>8, <1>9, <1>10 DEF Delegated

(* A block: time only adds to what is solidified and what is over.          *)
LEMMA BlockDelegated ==
  ASSUME Delegated, BlockIsAdded
  PROVE  Delegated'
<1>1. /\ now \in Nat /\ now' = now + 1 /\ now' \in 0 .. MaxTime
      /\ \A c \in Processes : call[c].pc = "read_block" => now < call[c].since + Lag
      /\ UNCHANGED <<attempts, delivery, providerOrderId, pool, landed, call, faults>>
  BY BoundsAreNatural DEF BlockIsAdded, Delegated, TypeOK, journal, deliveryRow
<1>2. TypeOK'
  BY <1>1 DEF Delegated, TypeOK, Latest
<1>3. \A t : Succeeded(t, landed, now) => Succeeded(t, landed, now')
  BY <1>1, TimesArePositive DEF Succeeded, Delegated, TypeOK, Landings
<1>4. \A t \in Tx : Gone(t, landed, now) => Gone(t, landed, now')
  BY <1>1, TxExpires DEF Gone
<1>5. \A n \in 1 .. Latest :
        attempts[n].status \in {"expired", "completed"} => attempts[n].txid \in Tx
  BY RowsAreRows DEF Delegated, TypeOK, Row
<1>6. JournalIsSound'
  BY <1>1, <1>3, <1>4, <1>5 DEF Delegated, JournalIsSound, IsSound, Latest
<1>7. ChainIsSound'
  BY <1>1 DEF Delegated, ChainIsSound, TypeOK, Landings
<1>8. PoolIsJournaled' /\ IdentityIsCurrent'
  BY <1>1 DEF Delegated, PoolIsJournaled, IdentityIsCurrent, Latest
<1>9. CallsKnow'
  <2> SUFFICES ASSUME NEW c \in Processes
      PROVE  Knows(call[c], attempts, providerOrderId, landed, now')
    BY <1>1 DEF CallsKnow
  <2>1. Knows(call[c], attempts, providerOrderId, landed, now) /\ call[c] \in CallStates
    BY DEF Delegated, CallsKnow, TypeOK
  <2>2. /\ call[c].pc = "seen" => call[c].tx \in Tx
        /\ call[c].since \in Nat
    BY <2>1 DEF Knows, CallStates
  <2>3. call[c].pc = "read_block" =>
          call[c].since <= now' /\ now' <= call[c].since + Lag
    BY <1>1, <2>1, <2>2, TimesArePositive DEF Knows
  <2> QED BY <1>3, <1>4, <2>1, <2>2, <2>3 DEF Knows
<1> QED BY <1>1, <1>2, <1>6, <1>7, <1>8, <1>9 DEF Delegated

-----------------------------------------------------------------------------
(* Steps of a call that only read.                                           *)

Moves(c, att, id) ==
  \E k \in CallStates : call' = [call EXCEPT ![c] = k] /\ Knows(k, att, id, landed, now)

(* A call that ends with an answer knows that it is one.                     *)
LEMMA AnswerMoves ==
  ASSUME NEW c \in Processes, NEW att, NEW id, NEW status, NEW tx \in Tx \cup {NoTx},
         status \in Results \cup {"none", "unknown", "processing", "accepted", "absent"},
         IsAnswer(status, tx, att, id),
         Answer(c, status, tx)
  PROVE  Moves(c, att, id)
<1> DEFINE k == [Idle EXCEPT !.pc = "answered", !.seen = status, !.tx = tx]
<1>1. k \in CallStates /\ k.pc = "answered" /\ k.seen = status /\ k.tx = tx
  BY DEF CallStates, Idle
<1>2. call' = [call EXCEPT ![c] = k]
  BY DEF Answer, Goto
<1> HIDE DEF k
<1>3. Knows(k, att, id, landed, now)
  BY <1>1 DEF Knows
<1> QED BY <1>1, <1>2, <1>3 DEF Moves

(* A call that is over knows nothing.                                       *)
LEMMA ThrowMoves ==
  ASSUME NEW c \in Processes, NEW att, NEW id, Throw(c)
  PROVE  Moves(c, att, id)
<1>1. Idle \in CallStates /\ Idle.pc = "idle"
  BY DEF CallStates, Idle
<1>2. Knows(Idle, att, id, landed, now)
  BY <1>1 DEF Knows
<1> QED BY <1>1, <1>2 DEF Moves, Throw, Goto

(* A call that has read an attempt knows its transaction.                   *)
LEMMA AdvanceMoves ==
  ASSUME NEW c \in Processes, call \in [Processes -> CallStates],
         NEW att \in Seq(Row), NEW id, NEW n \in 1 .. Len(att), NEW replace \in BOOLEAN,
         att[n].txid = NoTx => att[n].status \in {"created", "failed"},
         att[n].status \in Results => n = Len(att),
         att[n].txid # NoTx => id # NoTx /\ (n = Len(att) => id = att[n].txid),
         Advance(c, n, att[n], replace)
  PROVE  Moves(c, att, id)
<1> DEFINE row == att[n]
           with == [Idle EXCEPT !.op = call[c].op, !.n = n, !.was = row.status,
                                !.tx = row.txid]
<1>1. row \in Row /\ n \in Nat
  OBVIOUS
<1>2. /\ with \in CallStates
      /\ with.n = n /\ with.tx = row.txid
  BY <1>1 DEF CallStates, Idle, Row, Statuses
<1>3. CASE row.status = "created"
  <2> DEFINE k == [with EXCEPT !.pc = "start"]
  <2>1. call' = [call EXCEPT ![c] = k]
    BY <1>3 DEF Advance, Goto
  <2>2. k \in CallStates /\ k.pc = "start" /\ k.n = n
    BY <1>2 DEF CallStates
  <2> HIDE DEF k
  <2>3. Knows(k, att, id, landed, now)
    BY <2>2 DEF Knows
  <2> QED BY <2>1, <2>2, <2>3 DEF Moves
<1>4. CASE row.status \in {"completed", "failed"}
  <2>1. Answer(c, row.status, row.txid)
    BY <1>4 DEF Advance
  <2>2. n = Len(att) /\ Len(att) > 0
    BY <1>4 DEF Results
  <2>3. IsAnswer(row.status, row.txid, att, id)
    BY <2>2 DEF IsAnswer, EndsWith
  <2>4. row.status \in Results /\ row.txid \in Tx \cup {NoTx}
    BY <1>1, <1>4 DEF Results, Row
  <2> QED BY <2>1, <2>3, <2>4, AnswerMoves
<1>5. CASE row.status \notin {"created", "completed", "failed"}
  <2> DEFINE k == [with EXCEPT !.pc = "look", !.replace = replace]
  <2>1. call' = [call EXCEPT ![c] = k]
    BY <1>5 DEF Advance, Goto
  <2>2. k \in CallStates /\ k.pc = "look" /\ k.n = n /\ k.tx = row.txid
    BY <1>2 DEF CallStates
  <2>3. row.txid # NoTx
    BY <1>5
  <2> HIDE DEF k
  <2>4. Knows(k, att, id, landed, now)
    BY <2>2, <2>3 DEF Knows
  <2> QED BY <2>1, <2>2, <2>4 DEF Moves
<1> QED BY <1>3, <1>4, <1>5

(* What the invariant says of one call.                                     *)
LEMMA CallFacts ==
  ASSUME Delegated, NEW c \in Processes
  PROVE  /\ call \in [Processes -> CallStates]
         /\ call[c] \in CallStates
         /\ Knows(call[c], attempts, providerOrderId, landed, now)
         /\ now \in Nat
BY DEF Delegated, TypeOK, CallsKnow

(* What the invariant says of the attempt a call reads.                      *)
LEMMA AttemptFacts ==
  ASSUME Delegated, NEW n \in 1 .. Latest
  PROVE  /\ attempts \in Seq(Row) /\ Latest = Len(attempts) /\ Latest \in Nat
         /\ attempts[n] \in Row
         /\ attempts[n].txid = NoTx => attempts[n].status \in {"created", "failed"}
         /\ attempts[n].status # "expired" => n = Latest
         /\ attempts[n].txid # NoTx =>
              providerOrderId # NoTx /\ (n = Latest => providerOrderId = attempts[n].txid)
<1>1. attempts \in Seq(Row) /\ Latest = Len(attempts) /\ Latest \in Nat
  BY DEF Delegated, TypeOK, Latest
<1>2. attempts[n].status # "expired" => n = Latest
  BY <1>1 DEF Delegated, JournalIsSound
<1> QED BY <1>1, <1>2 DEF Delegated, TypeOK, IdentityIsCurrent

(* An attempt that has been read is gone on with.                            *)
LEMMA AdvanceKnows ==
  ASSUME Delegated, NEW c \in Processes, NEW n \in 1 .. Latest, NEW replace \in BOOLEAN,
         Advance(c, n, attempts[n], replace)
  PROVE  Moves(c, attempts, providerOrderId)
<1>1. call \in [Processes -> CallStates] /\ n \in 1 .. Len(attempts)
  BY DEF Delegated, TypeOK, Latest
<1>2. attempts[n].status \in Results => n = Len(attempts)
  BY AttemptFacts DEF Results
<1> QED BY <1>1, <1>2, AttemptFacts, AdvanceMoves

(* A failed delivery is answered with what is recorded of it.                *)
LEMMA FailureMoves ==
  ASSUME Delegated, NEW c \in Processes, delivery = "failed",
         Answer(c, "failed", providerOrderId)
  PROVE  Moves(c, attempts, providerOrderId)
<1>1. IsAnswer("failed", providerOrderId, attempts, providerOrderId)
  BY DEF Delegated, IsAnswer, Results
<1>2. providerOrderId \in Tx \cup {NoTx}
  BY DEF Delegated, TypeOK
<1> QED BY <1>1, <1>2, AnswerMoves DEF Results

(* There is nothing to tell.                                                 *)
LEMMA NoneMoves ==
  ASSUME NEW c \in Processes, NEW att, NEW id, Answer(c, "none", NoTx)
  PROVE  Moves(c, att, id)
<1>1. IsAnswer("none", NoTx, att, id)
  BY DEF IsAnswer, Results
<1> QED BY <1>1, AnswerMoves

(* One call moves, and the journal and the chain stay.                      *)
LEMMA MoveDelegated ==
  ASSUME Delegated, UNCHANGED <<attempts, providerOrderId, chain>>,
         NEW c \in Processes, Moves(c, attempts, providerOrderId),
         delivery' \in {"open"} \cup Results,
         delivery' \in Results => EndsWith(attempts, delivery'),
         faults' \in 0 .. MaxFaults
  PROVE  Delegated'
BY OnlyTheCallMoves DEF Moves

(* A call begins.                                                           *)
LEMMA BeginMoves ==
  ASSUME Delegated, NEW c \in Processes,
         \/ \E op \in {"create", "find", "status"} : Begin(c, op)
         \/ CreateDelivery(c)
  PROVE  Moves(c, attempts, providerOrderId)
<1>1. call[c] \in CallStates
  BY CallFacts
<1>2. ASSUME NEW op \in {"create", "find", "status"}, Begin(c, op)
      PROVE  Moves(c, attempts, providerOrderId)
  <2> DEFINE k == [Idle EXCEPT !.pc = op, !.op = op,
                              !.tx = IF op = "status" THEN providerOrderId ELSE NoTx]
  <2>1. k \in CallStates /\ k.pc = op
    BY DEF CallStates, Idle, Delegated, TypeOK
  <2>2. call' = [call EXCEPT ![c] = k]
    BY <1>2 DEF Begin, Goto
  <2> HIDE DEF k
  <2>3. Knows(k, attempts, providerOrderId, landed, now)
    BY <2>1 DEF Knows
  <2> QED BY <2>1, <2>2, <2>3 DEF Moves
<1>3. CASE CreateDelivery(c)
  <2>1. CASE delivery = "failed" /\ Answer(c, "failed", providerOrderId)
    BY <2>1, FailureMoves
  <2> DEFINE k == [call[c] EXCEPT !.pc = "current", !.replace = TRUE]
  <2>2. CASE Goto(c, k)
    <3>1. k \in CallStates /\ k.pc = "current"
      BY <1>1 DEF CallStates
    <3>2. call' = [call EXCEPT ![c] = k]
      BY <2>2 DEF Goto
    <3> HIDE DEF k
    <3>3. Knows(k, attempts, providerOrderId, landed, now)
      BY <3>1 DEF Knows
    <3> QED BY <3>1, <3>2, <3>3 DEF Moves
  <2> QED BY <1>3, <2>1, <2>2 DEF CreateDelivery
<1> QED BY <1>2, <1>3

(* A call finds the attempt it is about.                                    *)
LEMMA FindMoves ==
  ASSUME Delegated, NEW c \in Processes,
         FindDeliveryByIdempotencyKey(c) \/ GetDeliveryStatus(c)
  PROVE  Moves(c, attempts, providerOrderId)
<1>1. CASE FindDeliveryByIdempotencyKey(c)
  <2>1. CASE delivery = "failed" /\ Answer(c, "failed", providerOrderId)
    BY <2>1, FailureMoves
  <2>2. CASE Answer(c, "none", NoTx)
    BY <2>2, NoneMoves
  <2>3. CASE Latest # 0 /\ Advance(c, Latest, attempts[Latest], FALSE)
    <3>1. Latest \in 1 .. Latest
      BY <2>3 DEF Delegated, TypeOK, Latest
    <3> QED BY <2>3, <3>1, AdvanceKnows
  <2> QED BY <1>1, <2>1, <2>2, <2>3 DEF FindDeliveryByIdempotencyKey
<1>2. CASE GetDeliveryStatus(c)
  <2>1. CASE Throw(c)
    BY <2>1, ThrowMoves
  <2>2. CASE \E n \in 1 .. Latest : Advance(c, n, attempts[n], FALSE)
    BY <2>2, AdvanceKnows
  <2> QED BY <1>2, <2>1, <2>2 DEF GetDeliveryStatus
<1> QED BY <1>1, <1>2

(* A call starts a new attempt.                                             *)
LEMMA StartMoves ==
  ASSUME Delegated, NEW c \in Processes, StartAttempt(c)
  PROVE  Moves(c, attempts, providerOrderId)
<1>1. /\ call[c] \in CallStates /\ call[c].pc = "start"
      /\ call[c].n \in 1 .. Len(attempts) /\ now \in Nat
  BY CallFacts DEF StartAttempt, Knows
<1> DEFINE signed == attempts[call[c].n].signed
           claiming == [call[c] EXCEPT !.pc = "claim", !.tx = signed]
           short == [call[c] EXCEPT !.pc = "short"]
           built == [by |-> c, expires |-> now + Life]
           signing == [call[c] EXCEPT !.pc = "sign", !.tx = built]
<1>2. CASE signed # NoTx /\ Goto(c, claiming)
  <2>1. signed \in Tx
    BY <1>1, <1>2, RowsAreRows DEF Row, Latest, Delegated
  <2>2. /\ claiming \in CallStates /\ claiming.pc = "claim" /\ claiming.n = call[c].n
        /\ claiming.tx = signed
    BY <1>1, <2>1 DEF CallStates
  <2>3. Knows(claiming, attempts, providerOrderId, landed, now)
    <3> HIDE DEF claiming
    <3> QED BY <1>1, <1>2, <2>2 DEF Knows
  <2> QED BY <1>2, <2>2, <2>3 DEF Moves, Goto
<1>3. CASE Goto(c, short)
  <2>1. short \in CallStates /\ short.pc = "short" /\ short.n = call[c].n
    BY <1>1 DEF CallStates
  <2>2. Knows(short, attempts, providerOrderId, landed, now)
    <3> HIDE DEF short
    <3> QED BY <1>1, <2>1 DEF Knows
  <2> QED BY <1>3, <2>1, <2>2 DEF Moves, Goto
<1>4. CASE Goto(c, signing)
  <2>1. built \in Tx
    BY <1>1, TimesArePositive DEF Tx
  <2>2. /\ signing \in CallStates /\ signing.pc = "sign" /\ signing.n = call[c].n
        /\ signing.tx = built
    BY <1>1, <2>1 DEF CallStates
  <2>3. Knows(signing, attempts, providerOrderId, landed, now)
    <3> HIDE DEF signing, built
    <3> QED BY <1>1, <2>1, <2>2, TxExpires DEF Knows
  <2> QED BY <1>4, <2>2, <2>3 DEF Moves, Goto
<1>5. CASE Answer(c, "none", NoTx)
  BY <1>5, NoneMoves
<1> QED BY <1>2, <1>3, <1>4, <1>5 DEF StartAttempt, GoOn

(* What a lookup shows is true when the next step is taken.                  *)
LEMMA LookMoves ==
  ASSUME Delegated, NEW c \in Processes, Look(c) \/ LookUnavailable(c)
  PROVE  Moves(c, attempts, providerOrderId)
<1>1. /\ call[c] \in CallStates /\ call[c].pc = "look"
      /\ call[c].n \in 1 .. Len(attempts) /\ now \in Nat
      /\ call[c].tx # NoTx /\ call[c].tx = attempts[call[c].n].txid
  BY CallFacts DEF Look, LookUnavailable, Knows
<1> DEFINE saw(s) == [call[c] EXCEPT !.pc = "seen", !.seen = s]
           reading == [call[c] EXCEPT !.pc = "read_block", !.since = now]
<1>2. ASSUME NEW s \in Results \cup {"processing", "unknown"},
             s = "completed" => Succeeded(call[c].tx, landed, now),
             Goto(c, saw(s))
      PROVE  Moves(c, attempts, providerOrderId)
  <2> DEFINE k == saw(s)
  <2>1. /\ k \in CallStates /\ k.pc = "seen" /\ k.n = call[c].n /\ k.tx = call[c].tx
        /\ k.seen = s
    BY <1>1, <1>2 DEF CallStates
  <2>2. call' = [call EXCEPT ![c] = k]
    BY <1>2 DEF Goto
  <2> HIDE DEF k
  <2>3. Knows(k, attempts, providerOrderId, landed, now)
    BY <1>1, <1>2, <2>1 DEF Knows, Results
  <2> QED BY <2>1, <2>2, <2>3 DEF Moves
<1>3. CASE Look(c) /\ call[c].tx \in Mined
  <2>1. PICK l \in landed :
          /\ l.tx = call[c].tx
          /\ Goto(c, saw(IF Solidified(l) THEN l.result ELSE "processing"))
    BY <1>3 DEF Look
  <2>2. l.result \in Results
    BY DEF Delegated, TypeOK, Landings
  <2>3. Solidified(l) /\ l.result = "completed" => Succeeded(call[c].tx, landed, now)
    BY <2>1 DEF Succeeded, Solidified
  <2>4. CASE Solidified(l)
    BY <1>2, <2>1, <2>2, <2>3, <2>4
  <2>5. CASE ~Solidified(l)
    <3>1. Goto(c, saw("processing"))
      BY <2>1, <2>5
    <3> QED BY <1>2, <3>1
  <2> QED BY <2>4, <2>5
<1>4. CASE Look(c) /\ call[c].tx \notin Mined
  <2>1. call' = [call EXCEPT ![c] = reading]
    BY <1>4 DEF Look, Goto
  <2>2. /\ reading \in CallStates /\ reading.pc = "read_block" /\ reading.n = call[c].n
        /\ reading.tx = call[c].tx /\ reading.since = now
    BY <1>1 DEF CallStates
  <2>3. \A l \in landed : l.tx # call[c].tx
    BY <1>4 DEF Mined
  <2> HIDE DEF reading
  <2>4. Knows(reading, attempts, providerOrderId, landed, now)
    BY <1>1, <2>2, <2>3, TimesArePositive DEF Knows
  <2> QED BY <2>1, <2>2, <2>4 DEF Moves
<1>5. CASE LookUnavailable(c)
  <2>1. PICK s \in {"unknown", "processing"} : Goto(c, saw(s))
    BY <1>5 DEF LookUnavailable
  <2> QED BY <1>2, <2>1
<1> QED BY <1>3, <1>4, <1>5

(* The heart of it: a transaction that was not found, and whose time was    *)
(* over at the solidified block that was read after, is gone for good.       *)
LEMMA ReadMoves ==
  ASSUME Delegated, NEW c \in Processes, ReadSolidifiedBlock(c)
  PROVE  Moves(c, attempts, providerOrderId)
<1> DEFINE k == [call[c] EXCEPT !.pc = "seen", !.since = 0,
                   !.seen = IF now - Lag >= call[c].tx.expires THEN "absent" ELSE "unknown"]
<1>1. /\ call[c] \in CallStates /\ call[c].pc = "read_block"
      /\ Knows(call[c], attempts, providerOrderId, landed, now) /\ now \in Nat
  BY CallFacts DEF ReadSolidifiedBlock
<1>2. call[c].tx \in Tx /\ call[c].tx.expires \in Nat /\ call[c].since \in Nat
  BY <1>1, TxExpires DEF Knows, CallStates
<1>3. now - Lag >= call[c].tx.expires => Gone(call[c].tx, landed, now)
  <2> SUFFICES ASSUME now - Lag >= call[c].tx.expires
      PROVE  /\ call[c].tx.expires <= now
             /\ \A l \in landed : l.tx # call[c].tx
    BY DEF Gone
  <2>1. Lag \in Nat
    BY TimesArePositive
  <2>2. call[c].tx.expires <= call[c].since /\ call[c].tx.expires <= now
    BY <1>1, <1>2, <2>1 DEF Knows
  <2>3. ASSUME NEW l \in landed, l.tx = call[c].tx PROVE FALSE
    <3>1. l.at \in Nat /\ l.at < l.tx.expires
      BY DEF Delegated, TypeOK, Landings, ChainIsSound
    <3>2. call[c].since <= l.at
      BY <1>1, <2>3 DEF Knows
    <3> QED BY <1>2, <2>2, <2>3, <3>1, <3>2
  <2> QED BY <2>2, <2>3
<1>4. call' = [call EXCEPT ![c] = k]
  BY DEF ReadSolidifiedBlock, Goto
<1>5. /\ k \in CallStates /\ k.pc = "seen" /\ k.n = call[c].n /\ k.tx = call[c].tx
      /\ k.seen = IF now - Lag >= call[c].tx.expires THEN "absent" ELSE "unknown"
  BY <1>1 DEF CallStates
<1> HIDE DEF k
<1>6. Knows(k, attempts, providerOrderId, landed, now)
  BY <1>1, <1>3, <1>5 DEF Knows
<1> QED BY <1>4, <1>5, <1>6 DEF Moves

(* A call has reconciled an attempt it may replace.                         *)
LEMMA RefreshMoves ==
  ASSUME Delegated, NEW c \in Processes, Refresh(c)
  PROVE  Moves(c, attempts, providerOrderId)
<1>1. /\ call[c] \in CallStates /\ call[c].pc = "refresh"
      /\ Knows(call[c], attempts, providerOrderId, landed, now)
  BY CallFacts DEF Refresh
<1> DEFINE k == [Idle EXCEPT !.pc = "current", !.op = "create"]
<1>2. CASE Goto(c, k)
  <2>1. k \in CallStates /\ k.pc = "current"
    BY DEF CallStates, Idle
  <2>2. call' = [call EXCEPT ![c] = k]
    BY <1>2 DEF Goto
  <2> HIDE DEF k
  <2>3. Knows(k, attempts, providerOrderId, landed, now)
    BY <2>1 DEF Knows
  <2> QED BY <2>1, <2>2, <2>3 DEF Moves
<1>3. CASE Answer(c, call[c].seen, call[c].tx)
  <2>1. IsAnswer(call[c].seen, call[c].tx, attempts, providerOrderId)
    BY <1>1 DEF Knows
  <2>2. /\ call[c].seen \in Results \cup {"none", "unknown", "processing", "accepted", "absent"}
        /\ call[c].tx \in Tx \cup {NoTx}
    BY <1>1 DEF CallStates
  <2> QED BY <1>3, <2>1, <2>2, AnswerMoves
<1> QED BY <1>2, <1>3 DEF Refresh

(* All of them.                                                              *)
LEMMA ReadsDelegated ==
  ASSUME Delegated, NEW c \in Processes,
         \/ \E op \in {"create", "find", "status"} : Begin(c, op)
         \/ CreateDelivery(c) \/ FindDeliveryByIdempotencyKey(c) \/ GetDeliveryStatus(c)
         \/ StartAttempt(c) \/ Look(c) \/ LookUnavailable(c) \/ ReadSolidifiedBlock(c)
         \/ Refresh(c) \/ Apply(c) \/ CallFails(c)
  PROVE  Delegated'
<1>1. /\ delivery \in {"open"} \cup Results /\ faults \in 0 .. MaxFaults
      /\ delivery \in Results => EndsWith(attempts, delivery)
  BY DEF Delegated, TypeOK
<1>2. faults < MaxFaults => faults + 1 \in 0 .. MaxFaults
  BY <1>1, BoundsAreNatural
<1>3. CASE \/ \E op \in {"create", "find", "status"} : Begin(c, op)
           \/ CreateDelivery(c)
  <2>1. UNCHANGED <<journal, chain, faults>>
    BY <1>3 DEF Begin, CreateDelivery
  <2> QED BY <1>1, <1>3, <2>1, BeginMoves, MoveDelegated DEF journal, deliveryRow
<1>4. CASE FindDeliveryByIdempotencyKey(c) \/ GetDeliveryStatus(c)
  <2>1. UNCHANGED <<journal, chain, faults>>
    BY <1>4 DEF FindDeliveryByIdempotencyKey, GetDeliveryStatus
  <2> QED BY <1>1, <1>4, <2>1, FindMoves, MoveDelegated DEF journal, deliveryRow
<1>5. CASE StartAttempt(c)
  <2>1. UNCHANGED <<journal, chain, faults>>
    BY <1>5 DEF StartAttempt
  <2> QED BY <1>1, <1>5, <2>1, StartMoves, MoveDelegated DEF journal, deliveryRow
<1>6. CASE Look(c) \/ LookUnavailable(c)
  <2>1. UNCHANGED <<journal, chain>> /\ faults' \in 0 .. MaxFaults
    BY <1>1, <1>2, <1>6 DEF Look, LookUnavailable
  <2> QED BY <1>1, <1>6, <2>1, LookMoves, MoveDelegated DEF journal, deliveryRow
<1>7. CASE ReadSolidifiedBlock(c)
  <2>1. UNCHANGED <<journal, chain, faults>>
    BY <1>7 DEF ReadSolidifiedBlock
  <2> QED BY <1>1, <1>7, <2>1, ReadMoves, MoveDelegated DEF journal, deliveryRow
<1>8. CASE Refresh(c)
  <2>1. UNCHANGED <<journal, chain, faults>>
    BY <1>8 DEF Refresh
  <2> QED BY <1>1, <1>8, <2>1, RefreshMoves, MoveDelegated DEF journal, deliveryRow
<1>9. CASE Apply(c)
  <2>1. /\ call[c].pc = "answered"
        /\ IsAnswer(call[c].seen, call[c].tx, attempts, providerOrderId)
    BY <1>9, CallFacts DEF Knows, Apply
  <2>2. /\ UNCHANGED <<attempts, chain, faults>>
        /\ delivery' \in {"open"} \cup Results
        /\ delivery' # delivery => delivery' \in Results /\ delivery' = call[c].seen
    BY <1>1, <1>9, <2>1 DEF Apply, Results, deliveryRow
  <2>4. UNCHANGED providerOrderId
    <3>1. providerOrderId = NoTx => call[c].tx = NoTx
      BY <2>1 DEF IsAnswer
    <3> QED BY <1>9, <3>1 DEF Apply, deliveryRow
  <2>5. delivery' \in Results => EndsWith(attempts, delivery')
    BY <1>1, <2>1, <2>2 DEF IsAnswer
  <2>3. Moves(c, attempts, providerOrderId)
    BY <1>9, ThrowMoves DEF Apply
  <2> QED BY <1>1, <2>2, <2>3, <2>4, <2>5, MoveDelegated
<1>10. CASE CallFails(c)
  <2>1. UNCHANGED <<journal, chain>> /\ faults' \in 0 .. MaxFaults
    BY <1>2, <1>10 DEF CallFails
  <2>2. Moves(c, attempts, providerOrderId)
    BY <1>10, ThrowMoves DEF CallFails
  <2> QED BY <1>1, <2>1, <2>2, MoveDelegated DEF journal, deliveryRow
<1> QED BY <1>3, <1>4, <1>5, <1>6, <1>7, <1>8, <1>9, <1>10

-----------------------------------------------------------------------------
(* Steps of a call that write.                                               *)

(* A new attempt, when there is none or the last one has expired.            *)
LEMMA AppendDelegated ==
  ASSUME Delegated, UNCHANGED <<deliveryRow, chain, faults>>,
         attempts' = Append(attempts, NewAttempt),
         Latest = 0 \/ attempts[Latest].status = "expired",
         NEW c \in Processes, Moves(c, attempts', providerOrderId')
  PROVE  Delegated' /\ JournalAdvances
<1>1. UNCHANGED <<pool, landed, now, delivery, providerOrderId>>
  BY DEF chain, deliveryRow
<1>2. /\ NewAttempt \in Row /\ NewAttempt.txid = NoTx /\ NewAttempt.status = "created"
  BY DEF NewAttempt, Row, Statuses
<1>3. /\ attempts \in Seq(Row) /\ Latest = Len(attempts) /\ Latest \in Nat
      /\ attempts' \in Seq(Row) /\ Latest' = Latest + 1 /\ Len(attempts') = Latest + 1
      /\ \A n \in 1 .. Latest : attempts'[n] = attempts[n]
      /\ attempts'[Latest + 1] = NewAttempt
  <2> HIDE DEF NewAttempt
  <2> QED BY <1>2 DEF Delegated, TypeOK, Latest
<1>4. \A n \in 1 .. Latest + 1 : n = Latest + 1 \/ n \in 1 .. Latest
  BY <1>3
<1>0. \A status \in Results : ~EndsWith(attempts, status)
  BY <1>3 DEF EndsWith, Results
<1>5. JournalAdvances
  BY <1>0, <1>1, <1>3 DEF JournalAdvances, RowAdvances
<1>6. PICK k \in CallStates : call' = [call EXCEPT ![c] = k] /\ Knows(k, attempts', providerOrderId', landed, now)
  BY DEF Moves
<1>7. call' \in [Processes -> CallStates] /\ CallsKnow'
  BY <1>1, <1>5, <1>6, CallMoves DEF Delegated
<1>8. \A n \in 1 .. Latest' :
        /\ attempts'[n].status = "created" => attempts'[n].txid = NoTx
        /\ attempts'[n].txid = NoTx => attempts'[n].status \in {"created", "failed"}
  BY <1>2, <1>3, <1>4 DEF Delegated, TypeOK
<1>9. TypeOK'
  BY <1>1, <1>3, <1>7, <1>8 DEF Delegated, TypeOK
<1>10. JournalIsSound'
  <2> SUFFICES ASSUME NEW n \in 1 .. Latest + 1
      PROVE  /\ IsSound(attempts'[n], landed, now)
             /\ n < Latest + 1 => attempts'[n].status = "expired"
    BY <1>1, <1>3 DEF JournalIsSound
  <2>1. CASE n = Latest + 1
    BY <1>2, <1>3, <2>1 DEF IsSound
  <2>2. CASE n \in 1 .. Latest
    BY <1>3, <2>2 DEF Delegated, JournalIsSound
  <2> QED BY <1>4, <2>1, <2>2
<1>11. ChainIsSound'
  BY <1>1 DEF Delegated, ChainIsSound
<1>12. PoolIsJournaled'
  <2> SUFFICES ASSUME NEW tx \in pool
      PROVE  \E n \in 1 .. Latest + 1 : attempts'[n].txid = tx
    BY <1>1, <1>3 DEF PoolIsJournaled
  <2>1. PICK n \in 1 .. Latest : attempts[n].txid = tx
    BY DEF Delegated, PoolIsJournaled
  <2> QED BY <1>3, <2>1
<1>13. IdentityIsCurrent'
  BY <1>1, <1>2, <1>3, <1>4 DEF Delegated, IdentityIsCurrent
<1>14. delivery' \notin Results
  BY <1>0, <1>1 DEF Delegated
<1> QED BY <1>5, <1>7, <1>9, <1>10, <1>11, <1>12, <1>13, <1>14 DEF Delegated

(* createDelivery takes the attempt under way, or a new one.                *)
LEMMA CurrentDelegated ==
  ASSUME Delegated, NEW c \in Processes, GetOrCreateCurrentAttempt(c)
  PROVE  Delegated' /\ JournalAdvances
<1>1. /\ call \in [Processes -> CallStates] /\ call[c].replace \in BOOLEAN
      /\ attempts \in Seq(Row) /\ Latest = Len(attempts) /\ Latest \in Nat
      /\ \A n \in 1 .. Latest :
           attempts[n].txid = NoTx => attempts[n].status \in {"created", "failed"}
      /\ delivery \in {"open"} \cup Results /\ faults \in 0 .. MaxFaults
      /\ delivery \in Results => EndsWith(attempts, delivery)
  BY DEF Delegated, TypeOK, Latest, CallStates
<1>2. UNCHANGED <<delivery, providerOrderId, chain, faults>>
  BY DEF GetOrCreateCurrentAttempt, deliveryRow
<1>3. CASE Latest > 0 /\ attempts[Latest].status # "expired"
  <2>1. UNCHANGED attempts /\ Advance(c, Latest, attempts[Latest], call[c].replace)
    BY <1>3 DEF GetOrCreateCurrentAttempt
  <2>2. Moves(c, attempts, providerOrderId)
    BY <1>1, <1>3, <2>1, AdvanceKnows
  <2>3. JournalAdvances
    BY <1>2, <2>1, JournalStays DEF Delegated
  <2> QED BY <1>1, <1>2, <2>1, <2>2, <2>3, MoveDelegated
<1>4. CASE ~(Latest > 0 /\ attempts[Latest].status # "expired")
  <2>1. /\ attempts' = Append(attempts, NewAttempt)
        /\ Advance(c, Latest + 1, NewAttempt, call[c].replace)
    BY <1>4 DEF GetOrCreateCurrentAttempt
  <2>2. NewAttempt \in Row /\ NewAttempt.status = "created" /\ NewAttempt.txid = NoTx
    BY DEF NewAttempt, Row, Statuses
  <2>3. /\ attempts' \in Seq(Row) /\ Latest + 1 \in 1 .. Len(attempts')
        /\ attempts'[Latest + 1] = NewAttempt
    <3> HIDE DEF NewAttempt
    <3> QED BY <1>1, <2>1, <2>2
  <2>4. Moves(c, attempts', providerOrderId')
    <3> HIDE DEF NewAttempt
    <3> QED BY <1>1, <2>1, <2>2, <2>3, AdvanceMoves DEF Results
  <2>5. Latest = 0 \/ attempts[Latest].status = "expired"
    BY <1>1, <1>4
  <2> QED BY <1>2, <2>1, <2>4, <2>5, AppendDelegated DEF deliveryRow
<1> QED BY <1>3, <1>4

(* recordAttemptState, when the transition is legal.                         *)
LEMMA RecordDelegated ==
  ASSUME Delegated, UNCHANGED <<deliveryRow, chain, faults>>,
         NEW c \in Processes, NEW n \in 1 .. Latest, NEW status \in Statuses \ {"created"},
         attempts[n].txid = NoTx => status = "failed",
         status = "expired" => Gone(attempts[n].txid, landed, now),
         status = "completed" => Succeeded(attempts[n].txid, landed, now),
         TransitionAllowed(attempts[n].status, status),
         attempts' = [attempts EXCEPT ![n].status = status],
         Moves(c, attempts', providerOrderId')
  PROVE  Delegated' /\ JournalAdvances
<1> DEFINE r == [attempts[n] EXCEPT !.status = status]
<1>1. attempts[n] \in Row /\ IsSound(attempts[n], landed, now)
  BY RowsAreRows DEF Delegated, JournalIsSound
<1>2. attempts[n].status \in Statuses
  BY <1>1 DEF Row
<1>3. /\ r \in Row /\ r.status = status
      /\ r.txid = attempts[n].txid /\ r.signed = attempts[n].signed
  BY <1>1 DEF Row
<1>4. attempts' = [attempts EXCEPT ![n] = r]
  OBVIOUS
<1> HIDE DEF r
<1>5. RowAdvances(attempts[n], r)
  <2>1. attempts[n].status \in Final => r = attempts[n]
    BY <1>1, <1>2, Transitions DEF r, Row
  <2> QED BY <1>2, <1>3, <2>1, Transitions DEF RowAdvances
<1>6. IsSound(r, landed, now)
  BY <1>1, <1>3 DEF IsSound
<1>7. faults' \in 0 .. MaxFaults
  BY DEF Delegated, TypeOK
<1>8. PICK k \in CallStates : call' = [call EXCEPT ![c] = k] /\ Knows(k, attempts', providerOrderId', landed, now)
  BY DEF Moves
<1> QED BY <1>3, <1>4, <1>5, <1>6, <1>7, <1>8, RowChanges DEF deliveryRow

(* A write that is refused.                                                 *)
LEMMA ThrowDelegated ==
  ASSUME Delegated, NEW c \in Processes, Throw(c),
         UNCHANGED <<attempts, deliveryRow, chain, faults>>
  PROVE  Delegated' /\ JournalAdvances
<1>1. Moves(c, attempts, providerOrderId)
  BY ThrowMoves
<1>2. JournalAdvances
  BY JournalStays DEF Delegated, deliveryRow
<1> QED BY <1>1, <1>2, MoveDelegated DEF Delegated, TypeOK, deliveryRow

(* A reconciled attempt is answered, or looked at again.                    *)
LEMMA ReconciledMoves ==
  ASSUME NEW c \in Processes, NEW att, NEW id, NEW status,
         status \in Results \cup {"processing", "accepted"},
         call[c].tx \in Tx \cup {NoTx}, IsAnswer(status, call[c].tx, att, id),
         Reconciled(c, status)
  PROVE  Moves(c, att, id)
<1> DEFINE k == [Idle EXCEPT !.pc = "refresh", !.op = "create", !.seen = status,
                            !.tx = call[c].tx]
<1>1. CASE Goto(c, k)
  <2>1. k \in CallStates /\ k.pc = "refresh" /\ k.seen = status /\ k.tx = call[c].tx
    BY DEF CallStates, Idle
  <2>2. call' = [call EXCEPT ![c] = k]
    BY <1>1 DEF Goto
  <2> HIDE DEF k
  <2>3. Knows(k, att, id, landed, now)
    BY <2>1 DEF Knows
  <2> QED BY <2>1, <2>2, <2>3 DEF Moves
<1>2. CASE Answer(c, status, call[c].tx)
  BY <1>2, AnswerMoves
<1> QED BY <1>1, <1>2 DEF Reconciled

(* Whatever a call records of its attempt.                                  *)
LEMMA RecordsDelegated ==
  ASSUME Delegated, NEW c \in Processes,
         FailShort(c) \/ RecordBroadcast(c) \/ RecordSeen(c)
  PROVE  Delegated' /\ JournalAdvances
<1> DEFINE n == call[c].n
<1>1. /\ Knows(call[c], attempts, providerOrderId, landed, now) /\ call[c] \in CallStates
      /\ call[c].pc \in {"short", "record", "seen"}
      /\ UNCHANGED <<deliveryRow, chain, faults>>
  BY CallFacts DEF FailShort, RecordBroadcast, RecordSeen
<1>2. /\ n \in 1 .. Latest
      /\ call[c].pc # "short" => attempts[n].txid = call[c].tx /\ call[c].tx # NoTx
  BY <1>1 DEF Knows, Latest
<1>3. ASSUME NEW status \in Statuses, NEW tx \in {NoTx, call[c].tx},
             TransitionAllowed(attempts[n].status, status),
             attempts' = [attempts EXCEPT ![n].status = status],
             call[c].pc # "short" \/ tx = NoTx
      PROVE  IsAnswer(status, tx, attempts', providerOrderId')
  <2>1. attempts'[n].status = status /\ Len(attempts') = Latest
    BY <1>2, <1>3, AttemptFacts DEF Row
  <2>2. status \in Results => n = Latest
    BY <1>2, <1>3, AttemptFacts, Transitions DEF TransitionAllowed, Results
  <2>3. tx # NoTx => providerOrderId # NoTx /\ (n = Latest => providerOrderId = tx)
    BY <1>2, <1>3, AttemptFacts
  <2>4. providerOrderId' = providerOrderId
    BY <1>1 DEF deliveryRow
  <2>5. Latest > 0
    BY <1>2, AttemptFacts
  <2> QED BY <2>1, <2>2, <2>3, <2>4, <2>5 DEF IsAnswer, EndsWith
<1>8. call[c].tx \in Tx \cup {NoTx}
  BY <1>1 DEF CallStates
<1>4. ASSUME Throw(c), UNCHANGED attempts
      PROVE  Delegated' /\ JournalAdvances
  BY <1>1, <1>4, ThrowDelegated
<1>5. CASE FailShort(c)
  <2>1. CASE TransitionAllowed(attempts[n].status, "failed")
    <3>1. /\ attempts' = [attempts EXCEPT ![n].status = "failed"]
          /\ Answer(c, "failed", NoTx)
      BY <1>5, <2>1 DEF FailShort, Record
    <3>3. IsAnswer("failed", NoTx, attempts', providerOrderId')
      BY <1>3, <2>1, <3>1 DEF Statuses
    <3>2. Moves(c, attempts', providerOrderId')
      BY <3>1, <3>3, AnswerMoves DEF Results
    <3> QED BY <1>1, <1>2, <2>1, <3>1, <3>2, RecordDelegated DEF Statuses
  <2>2. CASE ~TransitionAllowed(attempts[n].status, "failed")
    BY <1>4, <1>5, <2>2 DEF FailShort, Record
  <2> QED BY <2>1, <2>2
<1>6. CASE RecordBroadcast(c)
  <2> DEFINE accepted == call[c].seen = "accepted"
             status == IF ~accepted THEN "unknown"
                       ELSE IF call[c].was = "processing" THEN "processing" ELSE "accepted"
             said == IF accepted /\ call[c].op = "create" THEN "accepted" ELSE "processing"
  <2>1. /\ status \in {"unknown", "processing", "accepted"}
        /\ said \in {"processing", "accepted"}
        /\ call[c].pc = "record"
    BY <1>6 DEF RecordBroadcast
  <2>2. Record(c, status, Reconciled(c, said))
    BY <1>6 DEF RecordBroadcast
  <2> HIDE DEF status, said
  <2>3. CASE TransitionAllowed(attempts[n].status, status)
    <3>1. /\ attempts' = [attempts EXCEPT ![n].status = status]
          /\ Reconciled(c, said)
      BY <2>2, <2>3 DEF Record
    <3>3. providerOrderId # NoTx /\ UNCHANGED providerOrderId
      BY <1>1, <1>2, <2>1, AttemptFacts DEF deliveryRow
    <3>4. IsAnswer(said, call[c].tx, attempts', providerOrderId')
      BY <2>1, <3>3 DEF IsAnswer, Results
    <3>2. Moves(c, attempts', providerOrderId')
      BY <1>8, <2>1, <3>1, <3>4, ReconciledMoves
    <3> QED BY <1>1, <1>2, <2>1, <2>3, <3>1, <3>2, RecordDelegated DEF Statuses
  <2>4. CASE ~TransitionAllowed(attempts[n].status, status)
    BY <1>4, <2>2, <2>4 DEF Record
  <2> QED BY <2>3, <2>4
<1>7. CASE RecordSeen(c)
  <2> DEFINE seen == call[c].seen
             resent == [call[c] EXCEPT !.pc = "broadcast", !.seen = "none"]
  <2>1. /\ call[c].pc = "seen"
        /\ seen \in Results \cup {"processing", "absent", "unknown"}
        /\ seen = "absent" => Gone(attempts[n].txid, landed, now)
        /\ seen = "completed" => Succeeded(attempts[n].txid, landed, now)
    BY <1>1, <1>2, <1>7 DEF RecordSeen, Knows
  <2>2. CASE seen \in {"completed", "failed", "processing"}
    <3>1. Record(c, seen, Reconciled(c, seen))
      BY <1>7, <2>2 DEF RecordSeen
    <3>2. CASE TransitionAllowed(attempts[n].status, seen)
      <4>1. attempts' = [attempts EXCEPT ![n].status = seen] /\ Reconciled(c, seen)
        BY <3>1, <3>2 DEF Record
      <4>2. seen \in Statuses \ {"created"} /\ seen \in Results \cup {"processing", "accepted"}
        BY <2>2 DEF Statuses, Results
      <4>4. IsAnswer(seen, call[c].tx, attempts', providerOrderId')
        BY <1>3, <2>1, <3>2, <4>1, <4>2
      <4>3. Moves(c, attempts', providerOrderId')
        BY <1>8, <4>1, <4>2, <4>4, ReconciledMoves
      <4> QED BY <1>1, <1>2, <2>1, <2>2, <3>2, <4>1, <4>2, <4>3, RecordDelegated
    <3>3. CASE ~TransitionAllowed(attempts[n].status, seen)
      BY <1>4, <3>1, <3>3 DEF Record
    <3> QED BY <3>2, <3>3
  <2>3. CASE seen = "absent"
    <3>1. Record(c, "expired", Reconciled(c, "processing"))
      BY <1>7, <2>3 DEF RecordSeen
    <3>2. CASE TransitionAllowed(attempts[n].status, "expired")
      <4>1. attempts' = [attempts EXCEPT ![n].status = "expired"] /\ Reconciled(c, "processing")
        BY <3>1, <3>2 DEF Record
      <4>3. providerOrderId # NoTx /\ UNCHANGED providerOrderId
        BY <1>1, <1>2, <2>1, AttemptFacts DEF deliveryRow
      <4>4. IsAnswer("processing", call[c].tx, attempts', providerOrderId')
        BY <4>3 DEF IsAnswer, Results
      <4>2. Moves(c, attempts', providerOrderId')
        BY <1>8, <4>1, <4>4, ReconciledMoves
      <4> QED BY <1>1, <1>2, <2>1, <2>3, <3>2, <4>1, <4>2, RecordDelegated DEF Statuses
    <3>3. CASE ~TransitionAllowed(attempts[n].status, "expired")
      BY <1>4, <3>1, <3>3 DEF Record
    <3> QED BY <3>2, <3>3
  <2>4. CASE seen = "unknown"
    <3>1. Record(c, "unknown", Goto(c, resent))
      BY <1>7, <2>4 DEF RecordSeen
    <3>2. CASE TransitionAllowed(attempts[n].status, "unknown")
      <4>1. /\ attempts' = [attempts EXCEPT ![n].status = "unknown"]
            /\ call' = [call EXCEPT ![c] = resent]
        BY <3>1, <3>2 DEF Record, Goto
      <4>2. /\ resent \in CallStates /\ resent.pc = "broadcast"
            /\ resent.n = n /\ resent.tx = call[c].tx
        BY <1>1 DEF CallStates
      <4>3. n \in 1 .. Len(attempts') /\ attempts'[n].txid = attempts[n].txid
        BY <1>2, <4>1, RowsAreRows DEF Delegated, TypeOK, Latest, Row
      <4>4. Knows(resent, attempts', providerOrderId', landed, now)
        <5> HIDE DEF resent, n
        <5> QED BY <1>2, <2>1, <4>2, <4>3 DEF Knows
      <4>5. Moves(c, attempts', providerOrderId')
        BY <4>1, <4>2, <4>4 DEF Moves
      <4> QED BY <1>1, <1>2, <2>1, <3>2, <4>1, <4>5, RecordDelegated DEF Statuses
    <3>3. CASE ~TransitionAllowed(attempts[n].status, "unknown")
      BY <1>4, <3>1, <3>3 DEF Record
    <3> QED BY <3>2, <3>3
  <2> QED BY <2>1, <2>2, <2>3, <2>4 DEF Results
<1> QED BY <1>5, <1>6, <1>7

(* A signature: for a new attempt that has none.                             *)
LEMMA SignDelegated ==
  ASSUME Delegated, NEW c \in Processes, Sign(c)
  PROVE  Delegated' /\ JournalAdvances
<1> DEFINE n == call[c].n
           row == attempts[n]
           r == [row EXCEPT !.signed = call[c].tx]
<1>1. /\ Knows(call[c], attempts, providerOrderId, landed, now) /\ call[c] \in CallStates
      /\ call[c].pc = "sign" /\ UNCHANGED <<delivery, providerOrderId, chain>>
      /\ faults \in 0 .. MaxFaults
  BY CallFacts DEF Sign, Delegated, TypeOK, deliveryRow
<1>2. n \in 1 .. Latest /\ call[c].tx \in Tx
  BY <1>1 DEF Knows, Latest, CallStates
<1>3. CASE Throw(c) /\ UNCHANGED <<attempts, faults>>
  BY <1>1, <1>3, ThrowDelegated DEF deliveryRow
<1>4. CASE /\ row.signed = NoTx /\ row.status = "created"
           /\ attempts' = [attempts EXCEPT ![n].signed = call[c].tx]
           /\ \/ GoOn(c, "claim") /\ UNCHANGED faults
              \/ faults < MaxFaults /\ faults' = faults + 1 /\ Throw(c)
  <2>1. row \in Row /\ row.txid = NoTx /\ IsSound(row, landed, now)
    BY <1>2, <1>4, RowsAreRows DEF Delegated, TypeOK, JournalIsSound
  <2>2. /\ r \in Row /\ r.signed = call[c].tx /\ r.txid = NoTx /\ r.status = "created"
        /\ attempts' = [attempts EXCEPT ![n] = r]
    BY <1>2, <1>4, <2>1 DEF Row
  <2>3. n \in 1 .. Len(attempts') /\ attempts'[n] = r
    BY <1>2, <2>2 DEF Delegated, TypeOK, Latest
  <2>4. RowAdvances(row, r) /\ IsSound(r, landed, now)
    <3> HIDE DEF r, row
    <3> QED BY <1>4, <2>1, <2>2 DEF RowAdvances, IsSound, Final
  <2>5. faults' \in 0 .. MaxFaults
    BY <1>1, <1>4, BoundsAreNatural
  <2>6. Moves(c, attempts', providerOrderId')
    <3>1. CASE GoOn(c, "claim")
      <4> DEFINE k == [call[c] EXCEPT !.pc = "claim"]
      <4>1. k \in CallStates /\ k.pc = "claim" /\ k.n = n /\ k.tx = call[c].tx
        BY <1>1 DEF CallStates
      <4>2. call' = [call EXCEPT ![c] = k]
        BY <3>1 DEF GoOn, Goto
      <4> HIDE DEF k, n, r
      <4>3. Knows(k, attempts', providerOrderId', landed, now)
        BY <1>2, <2>2, <2>3, <4>1, TxExpires DEF Knows
      <4> QED BY <4>1, <4>2, <4>3 DEF Moves
    <3>2. CASE Throw(c)
      BY <3>2, ThrowMoves
    <3> QED BY <1>4, <3>1, <3>2
  <2>7. PICK k \in CallStates :
          call' = [call EXCEPT ![c] = k] /\ Knows(k, attempts', providerOrderId', landed, now)
    BY <2>6 DEF Moves
  <2>8. r.txid = row.txid
    BY <2>1, <2>2
  <2> HIDE DEF r, n
  <2> QED BY <1>1, <1>2, <2>2, <2>4, <2>5, <2>7, <2>8, RowChanges
<1> QED BY <1>3, <1>4 DEF Sign

(* A claim: the transaction the signer has signed for the attempt.           *)
LEMMA ClaimDelegated ==
  ASSUME Delegated, NEW c \in Processes, ClaimAttemptTransaction(c)
  PROVE  Delegated' /\ JournalAdvances
<1> DEFINE n == call[c].n
           row == attempts[n]
           r == [row EXCEPT !.txid = call[c].tx, !.status = "signed"]
           kept == [call[c] EXCEPT !.pc = "broadcast", !.was = row.status]
           sent == [call[c] EXCEPT !.pc = "broadcast", !.was = "signed"]
<1>1. /\ Knows(call[c], attempts, providerOrderId, landed, now) /\ call[c] \in CallStates
      /\ call[c].pc = "claim" /\ UNCHANGED <<delivery, chain, faults>>
      /\ delivery \in {"open"} \cup Results /\ faults \in 0 .. MaxFaults
      /\ delivery \in Results => EndsWith(attempts, delivery)
  BY CallFacts DEF ClaimAttemptTransaction, Delegated, TypeOK
<1>2. /\ n \in 1 .. Latest /\ call[c].tx \in Tx /\ row.signed = call[c].tx
  BY <1>1 DEF Knows, Latest, CallStates
<1>3. row \in Row /\ row.status \in Statuses /\ IsSound(row, landed, now)
  BY <1>2, RowsAreRows DEF Delegated, JournalIsSound, Row
<1>4. CASE Throw(c) /\ UNCHANGED <<attempts, providerOrderId>>
  BY <1>1, <1>4, ThrowDelegated DEF deliveryRow
<1>5. CASE row.txid = call[c].tx /\ Goto(c, kept) /\ UNCHANGED <<attempts, providerOrderId>>
  <2>1. /\ kept \in CallStates /\ kept.pc = "broadcast" /\ kept.n = n
        /\ kept.tx = call[c].tx
    BY <1>1, <1>3 DEF CallStates
  <2>2. call' = [call EXCEPT ![c] = kept]
    BY <1>5 DEF Goto
  <2>3. Knows(kept, attempts, providerOrderId, landed, now)
    <3> HIDE DEF kept
    <3> QED BY <1>2, <1>5, <2>1, TxExpires DEF Knows, Latest
  <2>4. Moves(c, attempts, providerOrderId)
    BY <2>1, <2>2, <2>3 DEF Moves
  <2>5. JournalAdvances
    BY <1>5, JournalStays DEF Delegated
  <2> QED BY <1>1, <1>5, <2>4, <2>5, MoveDelegated
<1>6. CASE /\ row.txid = NoTx /\ row.status = "created"
           /\ attempts' = [attempts EXCEPT ![n].txid = call[c].tx, ![n].status = "signed"]
           /\ providerOrderId' = call[c].tx
           /\ Goto(c, sent)
  <2>1. /\ r \in Row /\ r.signed = call[c].tx /\ r.txid = call[c].tx /\ r.status = "signed"
    BY <1>2, <1>3 DEF Row, Statuses
  <2>2. attempts' = [attempts EXCEPT ![n] = r]
    BY <1>2, <1>3, <1>6 DEF Delegated, TypeOK, Latest, Row
  <2>3. n \in 1 .. Len(attempts') /\ attempts'[n] = r
    <3> HIDE DEF r, n
    <3> QED BY <1>2, <2>1, <2>2 DEF Delegated, TypeOK, Latest
  <2>4. RowAdvances(row, r) /\ IsSound(r, landed, now)
    <3> HIDE DEF r
    <3> QED BY <1>2, <1>6, <2>1 DEF RowAdvances, IsSound, Final
  <2>5. sent \in CallStates /\ sent.pc = "broadcast" /\ sent.n = n /\ sent.tx = call[c].tx
    BY <1>1 DEF CallStates, Statuses
  <2>6. call' = [call EXCEPT ![c] = sent]
    BY <1>6 DEF Goto
  <2>7. Knows(sent, attempts', providerOrderId', landed, now)
    <3> HIDE DEF sent, r, n
    <3> QED BY <1>2, <2>1, <2>3, <2>5, TxExpires DEF Knows
  <2>8. r.txid # NoTx
    BY <1>2, <2>1, TxExpires
  <2>9. row.status \notin Final /\ providerOrderId' = r.txid
    BY <1>6, <2>1 DEF Final
  <2> HIDE DEF sent, r, n
  <2> QED BY <1>1, <1>2, <2>1, <2>2, <2>4, <2>5, <2>6, <2>7, <2>8, <2>9, RowChanges
<1> QED BY <1>4, <1>5, <1>6 DEF ClaimAttemptTransaction

(* A broadcast: of a transaction the journal has.                            *)
LEMMA BroadcastDelegated ==
  ASSUME Delegated, NEW c \in Processes, Broadcast(c)
  PROVE  Delegated' /\ JournalAdvances
<1> DEFINE tx == call[c].tx
<1>1. /\ Knows(call[c], attempts, providerOrderId, landed, now) /\ call[c] \in CallStates
      /\ call[c].pc = "broadcast"
      /\ UNCHANGED <<attempts, delivery, providerOrderId, landed, now>>
      /\ faults \in 0 .. MaxFaults /\ pool \subseteq Tx
  BY CallFacts DEF Broadcast, Delegated, TypeOK, journal, deliveryRow
<1>2. call[c].n \in 1 .. Latest /\ tx \in Tx /\ attempts[call[c].n].txid = tx
  BY <1>1 DEF Knows, Latest, CallStates
<1>3. /\ pool' = pool \/ pool' = pool \cup {tx}
      /\ faults' \in 0 .. MaxFaults
  BY <1>1, BoundsAreNatural DEF Broadcast
<1>4. PICK s \in {"accepted", "unknown"} :
        call' = [call EXCEPT ![c] = [call[c] EXCEPT !.pc = "record", !.seen = s]]
  BY DEF Broadcast, Goto
<1> DEFINE k == [call[c] EXCEPT !.pc = "record", !.seen = s]
<1>5. k \in CallStates /\ k.pc = "record" /\ k.n = call[c].n /\ k.tx = tx /\ k.seen = s
  BY <1>1 DEF CallStates
<1>6. call' = [call EXCEPT ![c] = k]
  BY <1>4
<1> HIDE DEF k
<1>7. Knows(k, attempts', providerOrderId', landed, now)
  BY <1>1, <1>5 DEF Knows
<1>8. JournalAdvances
  BY <1>1, JournalStays DEF Delegated
<1>9. call' \in [Processes -> CallStates] /\ CallsKnow'
  BY <1>1, <1>5, <1>6, <1>7, <1>8, CallMoves DEF Delegated
<1>10. TypeOK'
  BY <1>1, <1>2, <1>3, <1>9 DEF Delegated, TypeOK, Latest
<1>11. JournalIsSound' /\ ChainIsSound'
  BY <1>1, <1>3 DEF Delegated, JournalIsSound, ChainIsSound, Latest
<1>12. PoolIsJournaled' /\ IdentityIsCurrent'
  BY <1>1, <1>2, <1>3 DEF Delegated, PoolIsJournaled, IdentityIsCurrent, Latest
<1> QED BY <1>1, <1>8, <1>9, <1>10, <1>11, <1>12 DEF Delegated

-----------------------------------------------------------------------------
(* Every step.                                                               *)
LEMMA NextDelegated ==
  ASSUME Delegated, [Next]_vars
  PROVE  Delegated' /\ JournalAdvances
<1>1. ASSUME NEW c \in Processes, Step(c)
      PROVE  Delegated' /\ JournalAdvances
  <2>1. CASE \/ \E op \in {"create", "find", "status"} : Begin(c, op)
             \/ CreateDelivery(c) \/ FindDeliveryByIdempotencyKey(c) \/ GetDeliveryStatus(c)
             \/ StartAttempt(c) \/ Look(c) \/ LookUnavailable(c) \/ ReadSolidifiedBlock(c)
             \/ Refresh(c) \/ Apply(c) \/ CallFails(c)
    <3>1. Delegated'
      BY <2>1, ReadsDelegated
    <3>2. UNCHANGED <<attempts, providerOrderId>>
      <4>1. CASE Apply(c)
        BY <4>1, CallFacts DEF Apply, Knows, IsAnswer, deliveryRow
      <4> QED BY <2>1, <4>1 DEF journal, deliveryRow, Begin, CreateDelivery,
                    FindDeliveryByIdempotencyKey, GetDeliveryStatus, StartAttempt, Look,
                    LookUnavailable, ReadSolidifiedBlock, Refresh, CallFails
    <3> QED BY <3>1, <3>2, JournalStays DEF Delegated
  <2>2. CASE GetOrCreateCurrentAttempt(c)
    BY <2>2, CurrentDelegated
  <2>3. CASE FailShort(c) \/ RecordBroadcast(c) \/ RecordSeen(c)
    BY <2>3, RecordsDelegated
  <2>4. CASE Sign(c)
    BY <2>4, SignDelegated
  <2>5. CASE ClaimAttemptTransaction(c)
    BY <2>5, ClaimDelegated
  <2>6. CASE Broadcast(c)
    BY <2>6, BroadcastDelegated
  <2> QED BY <1>1, <2>1, <2>2, <2>3, <2>4, <2>5, <2>6 DEF Step
<1>2. ASSUME NEW tx \in pool, NEW result \in {"completed", "failed"}, Land(tx, result)
      PROVE  Delegated' /\ JournalAdvances
  <2>1. Delegated'
    BY <1>2, LandDelegated DEF Results
  <2> QED BY <1>2, <2>1, JournalStays DEF Land, journal, deliveryRow, Delegated
<1>3. CASE BlockIsAdded
  <2>1. Delegated'
    BY <1>3, BlockDelegated
  <2> QED BY <1>3, <2>1, JournalStays DEF BlockIsAdded, journal, deliveryRow, Delegated
<1>4. CASE UNCHANGED vars
  <2>1. UNCHANGED <<attempts, delivery, providerOrderId, pool, landed, now, call, faults>>
    BY <1>4 DEF vars, journal, deliveryRow, chain
  <2>2. Delegated'
    BY <2>1 DEF Delegated, TypeOK, JournalIsSound, ChainIsSound, PoolIsJournaled,
                IdentityIsCurrent, CallsKnow, Latest
  <2> QED BY <2>1, <2>2, JournalStays DEF Delegated
<1> QED BY <1>1, <1>2, <1>3, <1>4 DEF Next

(* The invariant the properties below rest on.                               *)
THEOREM SpecDelegated == Spec => []Delegated
<1>1. Init => Delegated
  BY InitDelegated
<1>2. Delegated /\ [Next]_vars => Delegated'
  BY NextDelegated
<1> QED BY <1>1, <1>2, PTL DEF Spec

(* Every variable keeps its type, and an attempt has a transaction as soon   *)
(* as it has got on, as the check constraint of its table demands.           *)
THEOREM SpecTypeOK == Spec => []TypeOK
<1>1. Delegated => TypeOK
  BY DEF Delegated
<1> QED BY <1>1, SpecDelegated, PTL

(* The transaction of an expired attempt is the one signed for it, and gone. *)
LEMMA ReplacedIsGone ==
  ASSUME Delegated, NEW n \in 1 .. Latest, attempts[n].status = "expired"
  PROVE  /\ attempts[n].txid # NoTx /\ attempts[n].signed = attempts[n].txid
         /\ Gone(attempts[n].txid, landed, now)
<1>1. attempts[n].txid # NoTx
  BY DEF Delegated, TypeOK
<1> QED BY <1>1 DEF Delegated, JournalIsSound, IsSound

(* While an attempt is open, nothing signed for an earlier one was mined or  *)
(* can still be: a retry never overlaps an active attempt.                   *)
THEOREM SpecRetriesDoNotOverlap == Spec => []RetriesDoNotOverlap
<1>1. Delegated => RetriesDoNotOverlap
  <2> SUFFICES ASSUME Delegated, NEW n \in 1 .. Latest - 1
      PROVE  /\ attempts[n].status = "expired"
             /\ attempts[n].signed \notin Mined
             /\ attempts[n].signed.expires <= now
    BY DEF RetriesDoNotOverlap
  <2>1. n \in 1 .. Latest /\ n < Latest
    BY DEF Delegated, TypeOK, Latest
  <2>2. attempts[n].status = "expired"
    BY <2>1 DEF Delegated, JournalIsSound
  <2> QED BY <2>1, <2>2, ReplacedIsGone DEF Gone, Mined
<1> QED BY <1>1, SpecDelegated, PTL

(* However many processes work on an order, whatever they retry, resend or   *)
(* recover and whenever they die, one delegation of it at most succeeds.     *)
THEOREM SpecOneDelegationLands == Spec => []OneDelegationLands
<1>1. Delegated => OneDelegationLands
  <2> SUFFICES ASSUME Delegated
      PROVE  Cardinality({l \in landed : l.result = "completed"}) <= 1
    BY DEF OneDelegationLands
  <2> DEFINE S == {l \in landed : l.result = "completed"}
  <2>1. ASSUME NEW l \in landed
        PROVE  \E n \in 1 .. Latest :
                 attempts[n].txid = l.tx /\ attempts[n].status # "expired"
    <3>1. PICK n \in 1 .. Latest : attempts[n].txid = l.tx
      BY DEF Delegated, ChainIsSound, PoolIsJournaled
    <3> QED BY <3>1, ReplacedIsGone DEF Gone
  <2>2. \A l, m \in landed : l = m
    <3> SUFFICES ASSUME NEW l \in landed, NEW m \in landed PROVE l = m
      OBVIOUS
    <3>1. PICK i \in 1 .. Latest : attempts[i].txid = l.tx /\ attempts[i].status # "expired"
      BY <2>1
    <3>2. PICK j \in 1 .. Latest : attempts[j].txid = m.tx /\ attempts[j].status # "expired"
      BY <2>1
    <3>3. Latest \in Nat
      BY DEF Delegated, TypeOK, Latest
    <3>4. ~(i < Latest) /\ ~(j < Latest)
      BY <3>1, <3>2 DEF Delegated, JournalIsSound
    <3>5. i = j
      BY <3>3, <3>4
    <3> QED BY <3>1, <3>2, <3>5 DEF Delegated, ChainIsSound
  <2>3. CASE S = {}
    BY <2>3, FS_EmptySet
  <2>4. CASE \E l \in S : S = {l}
    BY <2>4, FS_Singleton
  <2>5. S = {} \/ \E l \in S : S = {l}
    BY <2>2
  <2> QED BY <2>3, <2>4, <2>5
<1> QED BY <1>1, SpecDelegated, PTL

(* Nothing reaches the network that the journal does not know by its txid,   *)
(* so that recovery finds it after a process has died.                       *)
THEOREM SpecBroadcastIsJournaled == Spec => []BroadcastIsJournaled
<1>1. Delegated => BroadcastIsJournaled
  BY DEF Delegated, PoolIsJournaled, BroadcastIsJournaled
<1> QED BY <1>1, SpecDelegated, PTL

(* An attempt is completed only on the strength of a solidified delegation   *)
(* and expired only when its transaction is not on the chain, and the order  *)
(* is told completed only for a completed attempt.                           *)
THEOREM SpecOutcomesAreTrue == Spec => []OutcomesAreTrue
<1>1. Delegated => OutcomesAreTrue
  <2> SUFFICES ASSUME Delegated PROVE OutcomesAreTrue
    OBVIOUS
  <2>1. delivery = "completed" => \E n \in 1 .. Latest : attempts[n].status = "completed"
    BY DEF Delegated, TypeOK, EndsWith, Results, Latest
  <2> QED BY <2>1 DEF Delegated, JournalIsSound, IsSound, Gone, Succeeded, Mined, Solidified,
                      OutcomesAreTrue, Latest
<1> QED BY <1>1, SpecDelegated, PTL

(* However late a final answer is applied, it is about the transaction the   *)
(* delivery has as its provider order id, and no other has closed it: the    *)
(* last attempt decides, and once it has a result nothing is written to the  *)
(* journal any more.                                                         *)
THEOREM SpecFinalAnswersAreTaken == Spec => []FinalAnswersAreTaken
<1>1. Delegated => FinalAnswersAreTaken
  <2> SUFFICES ASSUME Delegated, NEW c \in Processes,
                      call[c].pc = "answered", call[c].seen \in Results
      PROVE  ~IdentityChanged(call[c].tx) /\ delivery \in {"open", call[c].seen}
    BY DEF FinalAnswersAreTaken
  <2>1. EndsWith(attempts, call[c].seen) /\ call[c].tx \in {NoTx, providerOrderId}
    BY CallFacts DEF Knows, IsAnswer
  <2>2. delivery \in {"open"} \cup Results
        /\ (delivery \in Results => EndsWith(attempts, delivery))
    BY DEF Delegated, TypeOK
  <2> QED BY <2>1, <2>2 DEF IdentityChanged, EndsWith
<1> QED BY <1>1, SpecDelegated, PTL

(* No step of any process takes back the signature, the transaction or the   *)
(* final status of an attempt, or makes it new again.                        *)
THEOREM SpecAttemptsOnlyAdvance == Spec => AttemptsOnlyAdvance
<1> DEFINE A == \A n \in 1 .. Latest :
       /\ attempts[n].signed # NoTx => attempts'[n].signed = attempts[n].signed
       /\ attempts[n].txid # NoTx => attempts'[n].txid = attempts[n].txid
       /\ attempts[n].status \in {"completed", "failed", "expired"} =>
            attempts'[n].status = attempts[n].status
       /\ attempts'[n].status = "created" => attempts[n].status = "created"
<1>1. Delegated /\ [Next]_vars => A
  <2> SUFFICES ASSUME Delegated, [Next]_vars PROVE A
    OBVIOUS
  <2>1. JournalAdvances
    BY NextDelegated
  <2> QED BY <2>1 DEF JournalAdvances, RowAdvances, Final
<1>2. Delegated /\ [Next]_vars => [A]_vars
  BY <1>1
<1> HIDE DEF A
<1>3. Spec => [][A]_vars
  BY <1>2, SpecDelegated, PTL DEF Spec
<1> QED BY <1>3 DEF AttemptsOnlyAdvance, A

(* A delegation lands only when none has landed before: both would be of the *)
(* last attempt.                                                             *)
LEMMA LandsFirst ==
  ASSUME Delegated, NEW tx \in pool, NEW result, Land(tx, result)
  PROVE  landed = {}
<1> SUFFICES ASSUME NEW l \in landed PROVE FALSE
  OBVIOUS
<1>1. tx \notin Mined /\ tx.expires > now
  BY DEF Land
<1>2. PICK n \in 1 .. Latest : attempts[n].txid = l.tx
  BY DEF Delegated, ChainIsSound, PoolIsJournaled
<1>3. PICK m \in 1 .. Latest : attempts[m].txid = tx
  BY DEF Delegated, PoolIsJournaled
<1>4. n = Latest
  BY <1>2, ReplacedIsGone, AttemptFacts DEF Gone
<1>5. m = Latest
  <2>1. tx.expires \in Nat /\ now \in Nat
    BY TxExpires DEF Delegated, TypeOK
  <2>2. attempts[m].status # "expired"
    BY <1>1, <1>3, <2>1, ReplacedIsGone DEF Gone
  <2> QED BY <2>2, AttemptFacts
<1> QED BY <1>1, <1>2, <1>3, <1>4, <1>5 DEF Mined

(* The journal decides for what the chain has.                               *)
ResultIsTrue == Result = "completed" => SuccessfulDelegations # {}

LEMMA DecidesTruly == Delegated => ResultIsTrue
<1> SUFFICES ASSUME Delegated, Result = "completed" PROVE SuccessfulDelegations # {}
  BY DEF ResultIsTrue
<1>1. /\ Latest \in 1 .. Latest
      /\ attempts[Latest].status = "completed"
  BY DEF Result, Results, Delegated, TypeOK, Latest
<1>2. Succeeded(attempts[Latest].txid, landed, now)
  BY <1>1 DEF Delegated, JournalIsSound, IsSound
<1> QED BY <1>2 DEF Succeeded, SuccessfulDelegations

(* The own pool keeps what the interface promises, for any number of         *)
(* processes and attempts and any faults: one delegation of an order         *)
(* succeeds at most, its attempts decide once, for a completed one only what *)
(* the chain has, and the order is told that and nothing else.               *)
THEOREM OwnPoolImplementsProvider == Spec => ImplementsProvider
<1>1. Init => Provider!Init
  BY DEF Init, Provider!Init, SuccessfulDelegations, Result, Latest
<1>2. Delegated' => ResultIsTrue'
  BY DecidesTruly, PTL
<1>3. Delegated /\ [Next]_vars => [Provider!Next]_<<SuccessfulDelegations, Result, delivery>>
  <2> SUFFICES ASSUME Delegated, [Next]_vars
      PROVE  [Provider!Next]_<<SuccessfulDelegations, Result, delivery>>
    OBVIOUS
  <2>1. Delegated' /\ JournalAdvances
    BY NextDelegated
  <2>2. ASSUME NEW tx \in pool, NEW result, Land(tx, result)
        PROVE  [Provider!Next]_<<SuccessfulDelegations, Result, delivery>>
    <3>1. landed = {} /\ landed' = {[tx |-> tx, at |-> now, result |-> result]}
      BY <2>2, LandsFirst DEF Land
    <3>2. UNCHANGED <<Result, delivery>>
      BY <2>2 DEF Land, Result, Latest, journal, deliveryRow
    <3>3. SuccessfulDelegations = {} /\ SuccessfulDelegations' \in {{}, {tx}}
      BY <3>1 DEF SuccessfulDelegations
    <3> QED BY <3>2, <3>3 DEF Provider!Next, Provider!Delegate
  <2>3. ASSUME NEW c \in Processes, Apply(c)
        PROVE  [Provider!Next]_<<SuccessfulDelegations, Result, delivery>>
    <3>1. UNCHANGED <<SuccessfulDelegations, Result>>
      BY <2>3 DEF Apply, chain, SuccessfulDelegations, Result, Latest
    <3>2. IsAnswer(call[c].seen, call[c].tx, attempts, providerOrderId)
      BY <2>3, CallFacts DEF Apply, Knows
    <3>3. \/ UNCHANGED delivery
          \/ /\ delivery = "open" /\ call[c].seen \in Results
             /\ delivery' = call[c].seen
      BY <2>3 DEF Apply, deliveryRow, Results
    <3>4. call[c].seen \in Results => Result = call[c].seen /\ Result # "open"
      BY <3>2 DEF IsAnswer, EndsWith, Result, Latest, Results
    <3> QED BY <3>1, <3>3, <3>4 DEF Provider!Next, Provider!Tell
  <2>4. CASE UNCHANGED <<landed, delivery>>
    <3>1. UNCHANGED SuccessfulDelegations
      BY <2>4 DEF SuccessfulDelegations
    <3>2. Result # "open" => UNCHANGED Result
      BY <2>1 DEF JournalAdvances, EndsWith, Result, Latest
    <3>3. Result' \in {"open"} \cup Results
      BY DEF Result
    <3>4. Result' = "completed" => SuccessfulDelegations' # {}
      BY <2>1, <1>2 DEF ResultIsTrue
    <3> QED BY <2>4, <3>1, <3>2, <3>3, <3>4 DEF Provider!Next, Provider!Decide, Results
  <2>5. ASSUME NEW c \in Processes, Step(c), ~Apply(c)
        PROVE  UNCHANGED <<landed, delivery>>
    BY <2>5 DEF Step, journal, deliveryRow, chain, Begin, CreateDelivery,
                GetOrCreateCurrentAttempt, FindDeliveryByIdempotencyKey, GetDeliveryStatus,
                StartAttempt, FailShort, Sign, ClaimAttemptTransaction, Broadcast,
                RecordBroadcast, Look, LookUnavailable, ReadSolidifiedBlock, RecordSeen,
                Refresh, CallFails
  <2>6. CASE BlockIsAdded \/ UNCHANGED vars
    BY <2>4, <2>6 DEF BlockIsAdded, vars, journal, deliveryRow, chain
  <2> QED BY <2>2, <2>3, <2>4, <2>5, <2>6 DEF Next
<1> QED BY <1>1, <1>3, SpecDelegated, PTL DEF Spec, ImplementsProvider, Provider!Spec

(* The journal knows all that was broadcast and forgets nothing.             *)
THEOREM SpecJournalIsReliable == Spec => JournalIsReliable
BY SpecBroadcastIsJournaled, SpecAttemptsOnlyAdvance DEF JournalIsReliable
=============================================================================
