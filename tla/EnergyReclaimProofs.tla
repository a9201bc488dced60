-------------------------- MODULE EnergyReclaimProofs --------------------------
(***************************************************************************)
(* Energy is taken back once, and not before its lease is over, for any    *)
(* number of processes and sources, any lease, life of an undelegation and *)
(* lag of the solidified view, and any faults.                             *)
(*                                                                         *)
(* All attempts for a source but the last have expired, and one expires    *)
(* only when what was signed for it is not on the chain and has no time    *)
(* left to get there.  A call learns that from two reads, of the           *)
(* transaction and of the solidified block after it: what was mined in     *)
(* between has not yet had time to expire (Knows, for read_block).         *)
(***************************************************************************)
EXTENDS EnergyReclaim, FiniteSetTheorems, TLAPS

MinedIn(land) == {l.tx : l \in land}

(* An undelegation that is not on the chain and has no time to get there.    *)
Over(tx, left, land) == left <= 0 /\ tx \notin MinedIn(land)

Decides(tx, result, land) ==
  \E l \in land : l.tx = tx /\ l.result = result /\ l.age = Lag

(* What the journal says of attempt n for a source is true.                  *)
IsSound(r, s, n, land) ==
  /\ r.signed # NoTx => r.signed.source = s /\ r.signed.n = n
  /\ r.txid # NoTx => r.signed = r.txid
  /\ r.status = "expired" => Over(r.signed, r.left, land)
  /\ r.status \in Results => Decides(r.txid, r.status, land)

JournalIsSound ==
  \A s \in Sources : \A n \in 1 .. Latest(s) :
    /\ IsSound(attempts[s][n], s, n, landed)
    /\ n < Latest(s) => attempts[s][n].status = "expired"

OnlyDueAreSigned ==
  \A s \in Sources : \A n \in 1 .. Latest(s) : attempts[s][n].signed # NoTx => Due(s)

ChainIsSound ==
  /\ \A l \in landed : l.tx \in pool
  /\ \A l, m \in landed : l.tx = m.tx => l = m

PoolIsJournaled ==
  \A tx \in pool : tx.n \in 1 .. Latest(tx.source) /\ attempts[tx.source][tx.n].txid = tx

(* What a process knows about the source at hand.                            *)
Knows(k, att, land) ==
  k.pc # "idle" =>
    /\ k.source \in Sources /\ k.n \in 1 .. Len(att[k.source])
    /\ k.pc = "sign" => k.tx # NoTx /\ k.tx.source = k.source /\ k.tx.n = k.n
    /\ k.pc = "claim" => k.tx # NoTx /\ k.tx = att[k.source][k.n].signed
    /\ k.pc \in {"look", "read_block", "seen", "broadcast", "record"} =>
         k.tx # NoTx /\ k.tx = att[k.source][k.n].txid
    /\ k.pc = "read_block" /\ k.tx \in MinedIn(land) => att[k.source][k.n].left + k.waited >= 1
    /\ k.pc = "seen" =>
         /\ k.seen \in Results \cup {"processing", "absent", "unknown"}
         /\ k.seen = "absent" => Over(k.tx, att[k.source][k.n].left, land)
         /\ k.seen \in Results => Decides(k.tx, k.seen, land)
    /\ k.pc = "record" => k.seen \in {"accepted", "unknown"}

CallsKnow == \A c \in Processes : Knows(call[c], attempts, landed)

Reclaims ==
  /\ TypeOK
  /\ JournalIsSound
  /\ OnlyDueAreSigned
  /\ ChainIsSound
  /\ PoolIsJournaled
  /\ CallsKnow

(* What no step takes back from an attempt.                                  *)
RowAdvances(r, next) ==
  /\ r.signed # NoTx => next.signed = r.signed /\ next.left = r.left
  /\ r.txid # NoTx => next.txid = r.txid
  /\ r.status \in Final => next.status = r.status

JournalAdvances ==
  /\ attempts' \in [Sources -> Seq(Row)]
  /\ \A s \in Sources :
       /\ Len(attempts[s]) <= Len(attempts'[s])
       /\ \A n \in 1 .. Latest(s) : RowAdvances(attempts[s][n], attempts'[s][n])

-----------------------------------------------------------------------------
LEMMA TxIsATx == \A tx \in Tx : tx # NoTx /\ tx.source \in Sources /\ tx.n \in Nat
BY NoTxIsNoTx DEF Tx

LEMMA Timers == Lag \in Nat \ {0} /\ Life \in Nat \ {0} /\ Lease \in Nat /\ Gone \in Int /\ Gone = 0 - Lag
BY TimersArePositive DEF Gone

LEMMA RowsAreRows ==
  ASSUME TypeOK, NEW s \in Sources, NEW n \in 1 .. Latest(s)
  PROVE  attempts[s][n] \in Row /\ attempts[s] \in Seq(Row) /\ Latest(s) \in Nat
BY DEF TypeOK, Latest

(* A process goes on knowing what it knew while attempts only advance.       *)
LEMMA KnowledgeStays ==
  ASSUME TypeOK, JournalIsSound, CallsKnow, JournalAdvances, NEW d \in Processes
  PROVE  Knows(call[d], attempts', landed)
<1> DEFINE k == call[d]
<1>1. Knows(k, attempts, landed) /\ k \in CallStates
  BY DEF CallsKnow, TypeOK
<1> SUFFICES ASSUME k.pc # "idle" PROVE Knows(k, attempts', landed)
  BY DEF Knows
<1>2. k.source \in Sources /\ k.n \in 1 .. Latest(k.source)
  BY <1>1 DEF Knows, Latest
<1> HIDE DEF k
<1> DEFINE r == attempts[k.source][k.n]
           q == attempts'[k.source][k.n]
<1>3. /\ Len(attempts[k.source]) \in Nat /\ Len(attempts'[k.source]) \in Nat
      /\ Len(attempts[k.source]) <= Len(attempts'[k.source])
      /\ RowAdvances(r, q)
  BY <1>2 DEF TypeOK, JournalAdvances
<1>4. k.n \in 1 .. Len(attempts'[k.source])
  BY <1>2, <1>3 DEF Latest
<1>5. r.txid # NoTx => r.signed = r.txid
  BY <1>2 DEF JournalIsSound, IsSound
<1>6. /\ k.pc = "sign" => k.tx # NoTx /\ k.tx.source = k.source /\ k.tx.n = k.n
      /\ k.pc = "claim" => k.tx # NoTx /\ k.tx = q.signed
      /\ k.pc \in {"look", "read_block", "seen", "broadcast", "record"} =>
           k.tx # NoTx /\ k.tx = q.txid /\ q.left = r.left
  BY <1>1, <1>3, <1>5 DEF Knows, RowAdvances
<1> QED BY <1>1, <1>2, <1>4, <1>6 DEF Knows

(* One process moves, to a state in which what it knows is true.             *)
LEMMA CallMoves ==
  ASSUME TypeOK, JournalIsSound, CallsKnow, JournalAdvances, UNCHANGED landed,
         NEW c \in Processes, NEW k \in CallStates, call' = [call EXCEPT ![c] = k],
         Knows(k, attempts', landed)
  PROVE  call' \in [Processes -> CallStates] /\ CallsKnow'
<1>1. \A d \in Processes : call'[d] = IF d = c THEN k ELSE call[d]
  BY DEF TypeOK
<1>2. \A d \in Processes : Knows(call'[d], attempts', landed')
  BY <1>1, KnowledgeStays
<1> QED BY <1>2 DEF CallsKnow, TypeOK

(* A step of one process that leaves journal and chain alone.                *)
LEMMA OnlyTheCallMoves ==
  ASSUME Reclaims, UNCHANGED <<sources, attempts, chain>>,
         NEW c \in Processes, NEW k \in CallStates, call' = [call EXCEPT ![c] = k],
         Knows(k, attempts, landed),
         cursor' \in [Processes -> 0 .. NumSources], page' \in [Processes -> SUBSET Sources],
         faults' \in 0 .. MaxFaults
  PROVE  Reclaims'
<1>1. UNCHANGED <<delivered, lease, pool, landed>>
  BY DEF chain, sources
<1>2. JournalAdvances
  BY DEF Reclaims, TypeOK, JournalAdvances, RowAdvances, Latest
<1>3. call' \in [Processes -> CallStates] /\ CallsKnow'
  BY <1>1, <1>2, CallMoves DEF Reclaims
<1>4. TypeOK'
  BY <1>1, <1>3 DEF Reclaims, TypeOK, Latest
<1>5. JournalIsSound' /\ OnlyDueAreSigned' /\ ChainIsSound' /\ PoolIsJournaled'
  BY <1>1 DEF Reclaims, JournalIsSound, OnlyDueAreSigned, ChainIsSound, PoolIsJournaled, Latest, Due
<1> QED BY <1>3, <1>4, <1>5 DEF Reclaims

(* A step of one process that changes one attempt.                           *)
LEMMA RowChanges ==
  ASSUME Reclaims, UNCHANGED <<sources, chain, scan>>,
         NEW s \in Sources, NEW n \in 1 .. Latest(s), NEW r \in Row,
         attempts' = [attempts EXCEPT ![s][n] = r],
         RowAdvances(attempts[s][n], r), IsSound(r, s, n, landed),
         r.status = "created" <=> r.txid = NoTx,
         r.signed # NoTx => Due(s),
         NEW c \in Processes, NEW k \in CallStates, call' = [call EXCEPT ![c] = k],
         Knows(k, attempts', landed),
         faults' \in 0 .. MaxFaults
  PROVE  Reclaims'
<1>1. UNCHANGED <<delivered, lease, pool, landed, cursor, page>>
  BY DEF chain, sources, scan
<1>2. /\ attempts' \in [Sources -> Seq(Row)]
      /\ \A t \in Sources : Len(attempts'[t]) = Len(attempts[t])
      /\ \A t \in Sources : \A m \in 1 .. Latest(t) :
           attempts'[t][m] = IF t = s /\ m = n THEN r ELSE attempts[t][m]
  <2>1. attempts[s] \in Seq(Row) /\ attempts \in [Sources -> Seq(Row)]
    BY DEF Reclaims, TypeOK
  <2> DEFINE q == [attempts[s] EXCEPT ![n] = r]
  <2>2. /\ q \in Seq(Row) /\ Len(q) = Len(attempts[s])
        /\ \A m \in 1 .. Latest(s) : q[m] = IF m = n THEN r ELSE attempts[s][m]
    BY <2>1 DEF Latest
  <2>3. attempts' = [attempts EXCEPT ![s] = q]
    OBVIOUS
  <2> HIDE DEF q
  <2> QED BY <2>1, <2>2, <2>3
<1>3. JournalAdvances
  BY <1>2 DEF JournalAdvances, RowAdvances, Latest, Reclaims, TypeOK
<1>4. call' \in [Processes -> CallStates] /\ CallsKnow'
  BY <1>1, <1>3, CallMoves DEF Reclaims
<1>5. \A t \in Sources : Latest(t)' = Latest(t)
  BY <1>2 DEF Latest
<1>6. TypeOK'
  BY <1>1, <1>2, <1>4, <1>5 DEF Reclaims, TypeOK
<1>7. JournalIsSound'
  BY <1>1, <1>2, <1>5 DEF Reclaims, JournalIsSound, RowAdvances, Final
<1>8. OnlyDueAreSigned' /\ ChainIsSound'
  BY <1>1, <1>2, <1>5 DEF Reclaims, OnlyDueAreSigned, ChainIsSound, Due
<1>9. PoolIsJournaled'
  <2> SUFFICES ASSUME NEW tx \in pool
               PROVE  tx.n \in 1 .. Latest(tx.source)' /\ attempts'[tx.source][tx.n].txid = tx
    BY <1>1 DEF PoolIsJournaled
  <2>1. tx \in Tx /\ tx # NoTx /\ tx.source \in Sources
    BY TxIsATx DEF Reclaims, TypeOK
  <2>2. tx.n \in 1 .. Latest(tx.source) /\ attempts[tx.source][tx.n].txid = tx
    BY DEF Reclaims, PoolIsJournaled
  <2> QED BY <1>2, <1>5, <2>1, <2>2 DEF RowAdvances
<1> QED BY <1>4, <1>6, <1>7, <1>8, <1>9 DEF Reclaims

-----------------------------------------------------------------------------
LEMMA InitReclaims == Init => Reclaims
<1> SUFFICES ASSUME Init PROVE Reclaims
  OBVIOUS
<1>1. \A t \in Sources : Latest(t) = 0 /\ attempts[t] \in Seq(Row)
  BY DEF Init, Latest
<1>2. Idle \in CallStates
  BY Timers, PagesHoldSources DEF Idle, CallStates
<1>3. TypeOK
  BY <1>1, <1>2, Timers, BoundsAreNatural, PagesHoldSources DEF Init, TypeOK
<1>4. CallsKnow
  BY DEF Init, CallsKnow, Knows, Idle
<1> QED BY <1>1, <1>3, <1>4
        DEF Init, Reclaims, JournalIsSound, OnlyDueAreSigned, ChainIsSound, PoolIsJournaled

LEMMA DeliverReclaims ==
  ASSUME Reclaims, NEW s \in Sources, Deliver(s)
  PROVE  Reclaims'
<1>1. UNCHANGED <<attempts, pool, landed, cursor, page, call, faults>>
  BY DEF Deliver, chain, scan
<1>2. delivered' = delivered \cup {s} /\ s \notin delivered /\ lease' \in [Sources -> 0 .. Lease]
  BY DEF Deliver, Reclaims, TypeOK
<1>3. TypeOK'
  BY <1>1, <1>2 DEF Reclaims, TypeOK, Latest
<1>4. \A t \in Sources : Due(t) => Due(t)'
  BY <1>2 DEF Deliver, Due, Reclaims, TypeOK
<1>5. OnlyDueAreSigned'
  BY <1>1, <1>4 DEF Reclaims, OnlyDueAreSigned, Latest
<1>6. JournalIsSound' /\ ChainIsSound' /\ PoolIsJournaled' /\ CallsKnow'
  BY <1>1 DEF Reclaims, JournalIsSound, ChainIsSound, PoolIsJournaled, CallsKnow, Latest
<1> QED BY <1>3, <1>5, <1>6 DEF Reclaims

(* What lands has time left, and nothing that has expired does.              *)
LEMMA LandReclaims ==
  ASSUME Reclaims, NEW tx \in pool, NEW result \in Results, Land(tx, result)
  PROVE  Reclaims'
<1> DEFINE l == [tx |-> tx, result |-> result, age |-> 0]
<1>1. /\ tx \in Tx /\ tx # NoTx /\ tx.source \in Sources
      /\ tx.n \in 1 .. Latest(tx.source) /\ attempts[tx.source][tx.n].txid = tx
      /\ attempts[tx.source][tx.n].left > 0
      /\ \A m \in landed : m.tx # tx
      /\ landed' = landed \cup {l}
      /\ UNCHANGED <<delivered, lease, attempts, pool, cursor, page, call, faults>>
  BY TxIsATx DEF Land, Mined, Reclaims, TypeOK, PoolIsJournaled, sources, scan
<1>2. /\ l \in [tx : Tx, result : Results, age : 0 .. Lag] /\ l.tx = tx
  BY <1>1, Timers
<1> HIDE DEF l
<1>3. TypeOK'
  BY <1>1, <1>2 DEF Reclaims, TypeOK, Latest
<1>4. MinedIn(landed') = MinedIn(landed) \cup {tx}
  BY <1>1, <1>2 DEF MinedIn
<1>5. \A t, r : Decides(t, r, landed) => Decides(t, r, landed')
  BY <1>1 DEF Decides
<1>6. attempts[tx.source][tx.n].signed = tx
  BY <1>1 DEF Reclaims, JournalIsSound, IsSound
<1>7. \A s \in Sources : \A n \in 1 .. Latest(s) :
        attempts[s][n].signed = tx => s = tx.source /\ n = tx.n
  BY <1>1 DEF Reclaims, JournalIsSound, IsSound
<1>8. JournalIsSound'
  <2> SUFFICES ASSUME NEW s \in Sources, NEW n \in 1 .. Latest(s)
               PROVE  IsSound(attempts[s][n], s, n, landed')
    BY <1>1 DEF Reclaims, JournalIsSound, Latest
  <2>1. IsSound(attempts[s][n], s, n, landed) /\ attempts[s][n].left \in Int
    BY RowsAreRows, Timers DEF Reclaims, JournalIsSound, Row
  <2>2. ASSUME attempts[s][n].left <= 0 PROVE attempts[s][n].signed # tx
    BY <1>1, <1>7, <2>1, <2>2
  <2> QED BY <1>4, <1>5, <2>1, <2>2 DEF IsSound, Over
<1>9. ChainIsSound'
  BY <1>1, <1>2 DEF Reclaims, ChainIsSound
<1>10. PoolIsJournaled' /\ OnlyDueAreSigned'
  BY <1>1 DEF Reclaims, PoolIsJournaled, OnlyDueAreSigned, Latest, Due
<1>11. CallsKnow'
  <2> SUFFICES ASSUME NEW c \in Processes PROVE Knows(call[c], attempts, landed')
    BY <1>1 DEF CallsKnow
  <2> DEFINE k == call[c]
  <2>1. Knows(k, attempts, landed) /\ k \in CallStates
    BY DEF Reclaims, CallsKnow, TypeOK
  <2>2. ASSUME k.pc \in {"read_block", "seen"}, k.tx = tx
        PROVE  k.source = tx.source /\ k.n = tx.n
    <3>1. /\ k.source \in Sources /\ k.n \in 1 .. Latest(k.source)
          /\ attempts[k.source][k.n].txid = tx
      BY <2>1, <2>2 DEF Knows, Latest
    <3>2. attempts[k.source][k.n].signed = tx
      BY <1>1, <3>1 DEF Reclaims, JournalIsSound, IsSound
    <3> QED BY <1>7, <3>1, <3>2
  <2> SUFFICES Knows(k, attempts, landed')
    OBVIOUS
  <2> HIDE DEF k
  <2>3. k.pc = "read_block" /\ k.tx = tx => attempts[k.source][k.n].left + k.waited >= 1
    <3>1. k.waited \in Nat
      BY <2>1, Timers DEF CallStates
    <3>2. attempts[tx.source][tx.n].left \in Int
      BY <1>1, RowsAreRows, Timers DEF Reclaims, Row
    <3> QED BY <1>1, <2>2, <3>1, <3>2
  <2>4. k.pc = "seen" /\ k.seen = "absent" => k.tx # tx
    <3>1. attempts[tx.source][tx.n].left \in Int
      BY <1>1, RowsAreRows, Timers DEF Reclaims, Row
    <3> QED BY <1>1, <2>1, <2>2, <3>1 DEF Knows, Over
  <2>5. k.pc = "read_block" /\ k.tx \in MinedIn(landed') =>
          attempts[k.source][k.n].left + k.waited >= 1
    BY <1>4, <2>1, <2>3 DEF Knows
  <2>6. k.pc = "seen" /\ k.seen = "absent" => Over(k.tx, attempts[k.source][k.n].left, landed')
    BY <1>4, <2>1, <2>4 DEF Knows, Over
  <2> QED BY <1>5, <2>1, <2>5, <2>6 DEF Knows
<1> QED BY <1>3, <1>8, <1>9, <1>10, <1>11 DEF Reclaims

(* A block: what is solidified stays so, and what is over; a reader of the   *)
(* solidified block has waited as long as the undelegation has lost time.    *)
LEMMA BlockReclaims ==
  ASSUME Reclaims, BlockIsAdded
  PROVE  Reclaims'
<1> DEFINE down(timer, floor) == IF timer > floor THEN timer - 1 ELSE timer
           older(l) == [l EXCEPT !.age = IF @ < Lag THEN @ + 1 ELSE @]
           aged(r) == [r EXCEPT !.left = down(@, Gone)]
           later(k) == [k EXCEPT !.left = down(@, 0), !.waited = IF k.pc = "read_block" THEN @ + 1 ELSE @]
<1>a. /\ lease' = [s \in Sources |-> down(lease[s], 0)]
      /\ attempts' = [s \in Sources |-> [n \in 1 .. Latest(s) |-> aged(attempts[s][n])]]
      /\ landed' = {older(l) : l \in landed}
      /\ call' = [c \in Processes |-> later(call[c])]
      /\ Fault \/ UNCHANGED faults
      /\ \A c \in Processes : call[c].pc = "read_block" => call[c].waited < Lag
      /\ UNCHANGED <<delivered, pool, cursor, page>>
  BY DEF BlockIsAdded, scan
<1> HIDE DEF older, aged, later
<1>t. TypeOK
  BY DEF Reclaims
<1>1. UNCHANGED <<delivered, pool, cursor, page>> /\ faults' \in 0 .. MaxFaults
  BY <1>a, <1>t, BoundsAreNatural DEF Fault, TypeOK
<1>2. /\ lease' \in [Sources -> 0 .. Lease]
      /\ \A s \in Sources : lease[s] = 0 => lease'[s] = 0
  BY <1>a, <1>t, Timers DEF TypeOK
<1>3. ASSUME NEW s \in Sources
      PROVE  /\ attempts'[s] \in Seq(Row) /\ Latest(s)' = Latest(s)
             /\ \A n \in 1 .. Latest(s) :
                  /\ attempts'[s][n] = aged(attempts[s][n])
                  /\ attempts[s][n] \in Row
  <2>1. attempts'[s] = [n \in 1 .. Latest(s) |-> aged(attempts[s][n])]
    BY <1>a
  <2>2. \A n \in 1 .. Latest(s) : attempts[s][n] \in Row
    BY RowsAreRows DEF Reclaims
  <2>3. \A r \in Row : aged(r) \in Row
    BY Timers DEF Row, aged
  <2>4. Latest(s) \in Nat
    BY DEF Reclaims, TypeOK, Latest
  <2>5. attempts'[s] \in Seq(Row) /\ Len(attempts'[s]) = Latest(s)
    BY <2>1, <2>2, <2>3, <2>4
  <2> QED BY <2>1, <2>2, <2>5 DEF Latest
<1>4. \A r \in Row : /\ aged(r).status = r.status /\ aged(r).signed = r.signed /\ aged(r).txid = r.txid
                     /\ aged(r).left \in Int /\ r.left \in Int /\ aged(r).left <= r.left /\ r.left <= aged(r).left + 1
  BY Timers DEF Row, aged
<1>5. landed' = {older(l) : l \in landed}
  BY <1>a
<1>6. \A l \in landed :
        /\ older(l) \in [tx : Tx, result : Results, age : 0 .. Lag]
        /\ older(l).tx = l.tx /\ older(l).result = l.result
        /\ l.age = Lag => older(l).age = Lag
  <2> SUFFICES ASSUME NEW l \in [tx : Tx, result : Results, age : 0 .. Lag]
               PROVE  /\ older(l) \in [tx : Tx, result : Results, age : 0 .. Lag]
                      /\ older(l).tx = l.tx /\ older(l).result = l.result
                      /\ l.age = Lag => older(l).age = Lag
    BY <1>t DEF TypeOK
  <2> QED BY Timers DEF older
<1>7. ASSUME NEW c \in Processes
      PROVE  /\ call'[c] = later(call[c]) /\ later(call[c]) \in CallStates
             /\ later(call[c]).pc = call[c].pc
             /\ later(call[c]).source = call[c].source /\ later(call[c]).n = call[c].n
             /\ later(call[c]).tx = call[c].tx /\ later(call[c]).seen = call[c].seen
             /\ call[c].pc = "read_block" => later(call[c]).waited = call[c].waited + 1
  <2>1. /\ call[c] \in CallStates /\ (call[c].pc = "read_block" => call[c].waited < Lag)
        /\ call'[c] = later(call[c])
    BY <1>a, <1>t DEF TypeOK
  <2>2. ASSUME NEW k \in CallStates, k.pc = "read_block" => k.waited < Lag
        PROVE  /\ later(k) \in CallStates /\ later(k).pc = k.pc
               /\ later(k).source = k.source /\ later(k).n = k.n
               /\ later(k).tx = k.tx /\ later(k).seen = k.seen
               /\ k.pc = "read_block" => later(k).waited = k.waited + 1
    <3>1. down(k.left, 0) \in 0 .. Life
      BY <2>2, Timers DEF CallStates
    <3> HIDE DEF down
    <3>2. CASE k.pc = "read_block"
      <4>1. k.waited + 1 \in 0 .. Lag
        BY <2>2, <3>2, Timers DEF CallStates
      <4>2. later(k) = [k EXCEPT !.left = down(k.left, 0), !.waited = k.waited + 1]
        BY <3>2 DEF later
      <4> QED BY <3>1, <4>1, <4>2 DEF CallStates
    <3>3. CASE k.pc # "read_block"
      <4>1. later(k) = [k EXCEPT !.left = down(k.left, 0)]
        BY <2>2, <3>3 DEF later, CallStates
      <4> QED BY <3>1, <3>3, <4>1 DEF CallStates
    <3> QED BY <3>2, <3>3
  <2> QED BY <2>1, <2>2
<1>8. MinedIn(landed') = MinedIn(landed)
  BY <1>5, <1>6 DEF MinedIn
<1>9. \A t, r : Decides(t, r, landed) => Decides(t, r, landed')
  BY <1>5, <1>6 DEF Decides
<1>10. TypeOK'
  <2>1. attempts' \in [Sources -> Seq(Row)]
    BY <1>3, <1>a
  <2>2. call' \in [Processes -> CallStates]
    BY <1>7, <1>a
  <2>3. landed' \subseteq [tx : Tx, result : Results, age : 0 .. Lag]
    BY <1>5, <1>6
  <2>4. \A s \in Sources : \A n \in 1 .. Latest(s)' :
          attempts'[s][n].status = "created" <=> attempts'[s][n].txid = NoTx
    <3> SUFFICES ASSUME NEW s \in Sources, NEW n \in 1 .. Latest(s)
                 PROVE  attempts'[s][n].status = "created" <=> attempts'[s][n].txid = NoTx
      BY <1>3
    <3>1. attempts[s][n].status = "created" <=> attempts[s][n].txid = NoTx
      BY <1>t DEF TypeOK
    <3> QED BY <1>3, <1>4, <3>1
  <2> QED BY <1>1, <1>2, <2>1, <2>2, <2>3, <2>4 DEF Reclaims, TypeOK
<1>11. JournalIsSound'
  <2> SUFFICES ASSUME NEW s \in Sources, NEW n \in 1 .. Latest(s)
               PROVE  /\ IsSound(attempts'[s][n], s, n, landed')
                      /\ n < Latest(s) => attempts'[s][n].status = "expired"
    BY <1>3 DEF JournalIsSound
  <2>1. IsSound(attempts[s][n], s, n, landed) /\ (n < Latest(s) => attempts[s][n].status = "expired")
    BY DEF Reclaims, JournalIsSound
  <2>2. attempts'[s][n].left <= 0 \/ attempts[s][n].left > 0
    BY <1>3, <1>4
  <2> QED BY <1>3, <1>4, <1>8, <1>9, <2>1, <2>2 DEF IsSound, Over
<1>12. OnlyDueAreSigned'
  BY <1>1, <1>2, <1>3, <1>4 DEF Reclaims, OnlyDueAreSigned, Due
<1>13. ChainIsSound'
  BY <1>1, <1>5, <1>6 DEF Reclaims, ChainIsSound
<1>14. PoolIsJournaled'
  <2> SUFFICES ASSUME NEW tx \in pool
               PROVE  tx.n \in 1 .. Latest(tx.source)' /\ attempts'[tx.source][tx.n].txid = tx
    BY <1>1 DEF PoolIsJournaled
  <2>1. tx.source \in Sources
    BY <1>t, TxIsATx DEF TypeOK
  <2>2. tx.n \in 1 .. Latest(tx.source) /\ attempts[tx.source][tx.n].txid = tx
    BY DEF Reclaims, PoolIsJournaled
  <2> QED BY <1>3, <1>4, <2>1, <2>2
<1>15. CallsKnow'
  <2> SUFFICES ASSUME NEW c \in Processes PROVE Knows(call'[c], attempts', landed')
    BY DEF CallsKnow
  <2> DEFINE k == call[c]
             q == call'[c]
  <2>1. Knows(k, attempts, landed) /\ k \in CallStates
    BY DEF Reclaims, CallsKnow, TypeOK
  <2>2. /\ q.pc = k.pc /\ q.source = k.source /\ q.n = k.n /\ q.tx = k.tx /\ q.seen = k.seen
        /\ k.pc = "read_block" => q.waited = k.waited + 1
    BY <1>7
  <2> SUFFICES ASSUME k.pc # "idle" PROVE Knows(q, attempts', landed')
    BY <2>2 DEF Knows
  <2>3. k.source \in Sources /\ k.n \in 1 .. Latest(k.source)
    BY <2>1 DEF Knows, Latest
  <2>4. k.waited \in Nat
    BY <2>1, Timers DEF CallStates
  <2> HIDE DEF k, q
  <2> DEFINE r == attempts[k.source][k.n]
             m == attempts'[k.source][k.n]
  <2>5. /\ m.signed = r.signed /\ m.txid = r.txid /\ m.left \in Int /\ r.left \in Int
        /\ m.left <= r.left /\ r.left <= m.left + 1
        /\ k.n \in 1 .. Len(attempts'[k.source])
    BY <1>3, <1>4, <2>3 DEF Latest
  <2> HIDE DEF r, m
  <2>6. k.pc = "read_block" /\ k.tx \in MinedIn(landed') => m.left + q.waited >= 1
    BY <1>8, <2>1, <2>2, <2>4, <2>5 DEF Knows, r
  <2>7. k.pc = "seen" /\ k.seen = "absent" => Over(k.tx, m.left, landed')
    BY <1>8, <2>1, <2>5 DEF Knows, Over, r
  <2>8. k.pc = "seen" /\ k.seen \in Results => Decides(k.tx, k.seen, landed')
    BY <1>9, <2>1 DEF Knows
  <2> QED BY <2>1, <2>2, <2>3, <2>5, <2>6, <2>7, <2>8 DEF Knows, r, m
<1> QED BY <1>10, <1>11, <1>12, <1>13, <1>14, <1>15 DEF Reclaims

-----------------------------------------------------------------------------
(* Steps of a process.                                                       *)

LEMMA AtHand ==
  ASSUME Reclaims, NEW c \in Processes
  PROVE  /\ call[c] \in CallStates /\ Knows(call[c], attempts, landed)
         /\ call[c].pc # "idle" =>
              /\ call[c].source \in Sources /\ call[c].n \in 1 .. Latest(call[c].source)
              /\ Current(c) \in Row /\ IsSound(Current(c), call[c].source, call[c].n, landed)
              /\ Current(c).status = "created" <=> Current(c).txid = NoTx
              /\ Current(c).signed # NoTx => Due(call[c].source)
<1>1. call[c] \in CallStates /\ Knows(call[c], attempts, landed)
  BY DEF Reclaims, TypeOK, CallsKnow
<1>2. ASSUME call[c].pc # "idle"
      PROVE  call[c].source \in Sources /\ call[c].n \in 1 .. Latest(call[c].source)
  BY <1>1, <1>2 DEF Knows, Latest
<1> QED BY <1>1, <1>2, RowsAreRows
        DEF Reclaims, TypeOK, JournalIsSound, OnlyDueAreSigned, Current

LEMMA NoOneIsIdle ==
  Idle \in CallStates /\ \A att, land : Knows(Idle, att, land)
BY Timers, PagesHoldSources DEF Idle, CallStates, Knows

LEMMA DoneReclaims ==
  ASSUME Reclaims, NEW c \in Processes, Done(c), UNCHANGED <<sources, attempts, chain>>,
         cursor' \in [Processes -> 0 .. NumSources], page' \in [Processes -> SUBSET Sources],
         faults' \in 0 .. MaxFaults
  PROVE  Reclaims'
BY NoOneIsIdle, OnlyTheCallMoves DEF Done, Goto

LEMMA ListReclaims ==
  ASSUME Reclaims, NEW c \in Processes, ListDueSources(c)
  PROVE  Reclaims'
<1>1. /\ cursor' \in [Processes -> 0 .. NumSources]
      /\ page' \in [Processes -> SUBSET Sources]
      /\ faults' \in 0 .. MaxFaults
  BY PagesHoldSources DEF ListDueSources, Reclaims, TypeOK
<1>2. call' = [call EXCEPT ![c] = call[c]] /\ UNCHANGED <<sources, attempts, chain>>
  BY DEF ListDueSources, Reclaims, TypeOK
<1> QED BY <1>1, <1>2, AtHand, OnlyTheCallMoves

(* A source is gone on with, or begun anew once all attempts have expired.   *)
LEMMA ReconcileReclaims ==
  ASSUME Reclaims, NEW c \in Processes, NEW s \in Sources, Reconcile(c, s)
  PROVE  Reclaims'
<1> DEFINE n == Latest(s)
           open == [Idle EXCEPT !.source = s]
<1>1. /\ cursor' \in [Processes -> 0 .. NumSources]
      /\ page' \in [Processes -> SUBSET Sources]
      /\ faults' \in 0 .. MaxFaults
      /\ UNCHANGED <<sources, chain, faults>>
  BY PagesHoldSources DEF Reconcile, Take, Reclaims, TypeOK, Sources
<1>2. n \in Nat /\ attempts[s] \in Seq(Row) /\ s \in 0 .. NumSources
  BY DEF Reclaims, TypeOK, Latest, Sources
<1>3. CASE UNCHANGED <<attempts, call>>
  <2>1. call' = [call EXCEPT ![c] = call[c]]
    BY <1>3 DEF Reclaims, TypeOK
  <2> QED BY <1>1, <1>3, <2>1, AtHand, OnlyTheCallMoves
<1>4. CASE /\ n > 0 /\ attempts[s][n].status \notin Final
           /\ Goto(c, [open EXCEPT !.n = n, !.tx = attempts[s][n].txid,
                         !.pc = IF attempts[s][n].txid = NoTx THEN "find" ELSE "look"])
           /\ UNCHANGED attempts
  <2> DEFINE k == [open EXCEPT !.n = n, !.tx = attempts[s][n].txid,
                         !.pc = IF attempts[s][n].txid = NoTx THEN "find" ELSE "look"]
  <2>1. attempts[s][n] \in Row
    BY <1>2, <1>4, RowsAreRows DEF Reclaims
  <2>2. /\ k \in CallStates /\ k.source = s /\ k.n = n /\ k.tx = attempts[s][n].txid
        /\ k.pc = IF attempts[s][n].txid = NoTx THEN "find" ELSE "look"
    BY <1>2, <2>1, NoOneIsIdle DEF CallStates, Row
  <2>3. call' = [call EXCEPT ![c] = k] /\ n \in 1 .. Len(attempts[s])
    BY <1>2, <1>4 DEF Goto, Latest
  <2> HIDE DEF k
  <2>4. Knows(k, attempts, landed)
    BY <2>2, <2>3 DEF Knows
  <2> QED BY <1>1, <1>4, <2>2, <2>3, <2>4, OnlyTheCallMoves
<1>5. CASE /\ n > 0 => attempts[s][n].status = "expired"
           /\ attempts' = [attempts EXCEPT ![s] = Append(@, NewAttempt)]
           /\ Goto(c, [open EXCEPT !.n = n + 1, !.pc = "find"])
  <2> DEFINE k == [open EXCEPT !.n = n + 1, !.pc = "find"]
  <2>1. k \in CallStates /\ k.source = s /\ k.n = n + 1 /\ k.pc = "find"
    <3>1. Idle \in CallStates /\ n + 1 \in Nat
      BY <1>2, NoOneIsIdle
    <3> QED BY <1>2, <3>1 DEF CallStates
  <2>2. call' = [call EXCEPT ![c] = k] /\ UNCHANGED <<delivered, lease, pool, landed>>
    BY <1>1, <1>5 DEF Goto, sources, chain
  <2> HIDE DEF k
  <2>3. NewAttempt \in Row /\ NewAttempt.status = "created" /\ NewAttempt.signed = NoTx /\ NewAttempt.txid = NoTx
    BY Timers DEF NewAttempt, Row, Statuses
  <2>4. /\ attempts'[s] \in Seq(Row) /\ Len(attempts'[s]) = n + 1
        /\ \A m \in 1 .. n : attempts'[s][m] = attempts[s][m]
        /\ attempts'[s][n + 1] = NewAttempt
    <3>1. attempts'[s] = Append(attempts[s], NewAttempt)
      BY <1>5 DEF Reclaims, TypeOK
    <3> QED BY <1>2, <2>3, <3>1 DEF Latest
  <2>5. \A t \in Sources \ {s} : attempts'[t] = attempts[t]
    BY <1>5 DEF Reclaims, TypeOK
  <2>6. attempts' \in [Sources -> Seq(Row)]
    BY <1>5, <2>4 DEF Reclaims, TypeOK
  <2>7. JournalAdvances
    <3> SUFFICES ASSUME NEW t \in Sources
                 PROVE  /\ Len(attempts[t]) <= Len(attempts'[t])
                        /\ \A m \in 1 .. Latest(t) : RowAdvances(attempts[t][m], attempts'[t][m])
      BY <2>6 DEF JournalAdvances
    <3>1. CASE t = s
      BY <1>2, <2>4, <3>1 DEF RowAdvances, Latest
    <3>2. CASE t # s
      BY <2>5, <3>2 DEF RowAdvances, Reclaims, TypeOK
    <3> QED BY <3>1, <3>2
  <2>8. Knows(k, attempts', landed)
    BY <1>2, <2>1, <2>4 DEF Knows
  <2>9. call' \in [Processes -> CallStates] /\ CallsKnow'
    BY <2>1, <2>2, <2>7, <2>8, CallMoves DEF Reclaims
  <2>10. \A t \in Sources : \A m \in 1 .. Latest(t)' :
           \/ t = s /\ m = n + 1 /\ attempts'[t][m] = NewAttempt
           \/ m \in 1 .. Latest(t) /\ attempts'[t][m] = attempts[t][m]
    <3>1. \A m \in 1 .. Latest(s)' : m = n + 1 \/ m \in 1 .. n
      BY <1>2, <2>4 DEF Latest
    <3>2. \A t \in Sources \ {s} : Latest(t)' = Latest(t)
      BY <2>5 DEF Latest
    <3> QED BY <2>4, <2>5, <3>1, <3>2
  <2>11. TypeOK'
    BY <1>1, <2>2, <2>3, <2>6, <2>9, <2>10 DEF Reclaims, TypeOK
  <2>12. JournalIsSound'
    <3> SUFFICES ASSUME NEW t \in Sources, NEW m \in 1 .. Latest(t)'
                 PROVE  /\ IsSound(attempts'[t][m], t, m, landed)
                        /\ m < Latest(t)' => attempts'[t][m].status = "expired"
      BY <2>2 DEF JournalIsSound
    <3>1. CASE t = s /\ m = n + 1 /\ attempts'[t][m] = NewAttempt
      BY <2>3, <2>4, <3>1 DEF IsSound, Latest, Results
    <3>2. CASE m \in 1 .. Latest(t) /\ attempts'[t][m] = attempts[t][m]
      <4>1. IsSound(attempts[t][m], t, m, landed) /\ (m < Latest(t) => attempts[t][m].status = "expired")
        BY <3>2 DEF Reclaims, JournalIsSound
      <4>2. CASE t = s
        BY <1>2, <1>5, <2>4, <3>2, <4>1, <4>2 DEF Latest
      <4>3. CASE t # s
        BY <2>5, <3>2, <4>1, <4>3 DEF Latest
      <4> QED BY <4>2, <4>3
    <3> QED BY <2>10, <3>1, <3>2
  <2>13. OnlyDueAreSigned'
    BY <2>2, <2>3, <2>10 DEF Reclaims, OnlyDueAreSigned, Due
  <2>14. ChainIsSound'
    BY <2>2 DEF Reclaims, ChainIsSound
  <2>15. PoolIsJournaled'
    <3> SUFFICES ASSUME NEW tx \in pool
                 PROVE  tx.n \in 1 .. Latest(tx.source)' /\ attempts'[tx.source][tx.n].txid = tx
      BY <2>2 DEF PoolIsJournaled
    <3>1. tx.source \in Sources /\ tx.n \in 1 .. Latest(tx.source) /\ attempts[tx.source][tx.n].txid = tx
      BY TxIsATx DEF Reclaims, TypeOK, PoolIsJournaled
    <3>2. CASE tx.source = s
      BY <1>2, <2>4, <3>1, <3>2 DEF Latest
    <3>3. CASE tx.source # s
      BY <2>5, <3>1, <3>3 DEF Latest
    <3> QED BY <3>2, <3>3
  <2> QED BY <2>9, <2>11, <2>12, <2>13, <2>14, <2>15 DEF Reclaims
<1> QED BY <1>3, <1>4, <1>5 DEF Reconcile, CurrentAttempt

(* Steps that only read.                                                     *)
LEMMA ReadsReclaim ==
  ASSUME Reclaims, NEW c \in Processes,
         FindSigned(c) \/ Look(c) \/ LookUnavailable(c) \/ ReadSolidifiedBlock(c)
  PROVE  Reclaims'
<1> DEFINE k == call[c]
<1>1. /\ k \in CallStates /\ Knows(k, attempts, landed) /\ k.pc # "idle"
      /\ k.source \in Sources /\ k.n \in 1 .. Latest(k.source)
      /\ Current(c) \in Row /\ IsSound(Current(c), k.source, k.n, landed)
  BY AtHand DEF FindSigned, Look, LookUnavailable, ReadSolidifiedBlock
<1>2. /\ UNCHANGED <<sources, attempts, chain, cursor, page>>
      /\ faults' \in 0 .. MaxFaults
  <2>1. UNCHANGED <<sources, attempts, chain, cursor, page>> /\ (Fault \/ UNCHANGED faults)
    BY DEF FindSigned, Look, LookUnavailable, ReadSolidifiedBlock, scan
  <2> QED BY <2>1, BoundsAreNatural DEF Fault, Reclaims, TypeOK
<1>3. cursor' \in [Processes -> 0 .. NumSources] /\ page' \in [Processes -> SUBSET Sources]
  BY <1>2 DEF Reclaims, TypeOK
<1>4. Current(c) = attempts[k.source][k.n]
  BY DEF Current
<1>5. SUFFICES \E q \in CallStates :
                 call' = [call EXCEPT ![c] = q] /\ Knows(q, attempts, landed)
  BY <1>2, <1>3, OnlyTheCallMoves
<1>6. CASE FindSigned(c)
  <2> DEFINE built == [source |-> k.source, n |-> k.n, by |-> c]
             q == IF Current(c).signed # NoTx
                  THEN [k EXCEPT !.pc = "claim", !.tx = Current(c).signed]
                  ELSE [k EXCEPT !.pc = "sign", !.tx = built, !.left = Life]
  <2>1. built \in Tx /\ built # NoTx /\ built.source = k.source /\ built.n = k.n
    <3>1. k.n \in Nat
      BY <1>1 DEF CallStates
    <3>2. built \in Tx
      BY <1>1, <3>1 DEF Tx
    <3> QED BY <3>2, TxIsATx
  <2>2. call' = [call EXCEPT ![c] = q]
    BY <1>6 DEF FindSigned, Goto
  <2> HIDE DEF k, built
  <2>3. CASE Current(c).signed # NoTx
    <3>1. q \in CallStates /\ q.pc = "claim" /\ q.tx = Current(c).signed /\ q.source = k.source /\ q.n = k.n
      BY <1>1, <2>3 DEF CallStates, Row
    <3> HIDE DEF q
    <3>2. Knows(q, attempts, landed)
      BY <1>1, <1>4, <2>3, <3>1 DEF Knows
    <3> QED BY <2>2, <3>1, <3>2
  <2>4. CASE Current(c).signed = NoTx
    <3>1. q \in CallStates /\ q.pc = "sign" /\ q.tx = built /\ q.source = k.source /\ q.n = k.n
      <4>1. q = [k EXCEPT !.pc = "sign", !.tx = built, !.left = Life] /\ Life \in 0 .. Life
        BY <2>4, Timers
      <4> HIDE DEF q
      <4> QED BY <1>1, <2>1, <4>1 DEF CallStates
    <3> HIDE DEF q
    <3>2. Knows(q, attempts, landed)
      BY <1>1, <2>1, <3>1 DEF Knows
    <3> QED BY <2>2, <3>1, <3>2
  <2> QED BY <2>3, <2>4
<1>7. ASSUME k.pc = "look", NEW seen \in Results \cup {"processing", "unknown"},
             call' = [call EXCEPT ![c] = [k EXCEPT !.pc = "seen", !.seen = seen]],
             seen \in Results => Decides(k.tx, seen, landed)
      PROVE  \E q \in CallStates : call' = [call EXCEPT ![c] = q] /\ Knows(q, attempts, landed)
  <2> DEFINE q == [k EXCEPT !.pc = "seen", !.seen = seen]
  <2> HIDE DEF k
  <2>1. /\ q \in CallStates /\ q.pc = "seen" /\ q.seen = seen
        /\ q.tx = k.tx /\ q.source = k.source /\ q.n = k.n
    BY <1>1 DEF CallStates
  <2>2. call' = [call EXCEPT ![c] = q]
    BY <1>7
  <2> HIDE DEF q
  <2>3. Knows(q, attempts, landed)
    BY <1>1, <1>7, <2>1 DEF Knows, Results
  <2> QED BY <2>1, <2>2, <2>3
<1>8. CASE Look(c)
  <2>1. k.pc = "look"
    BY <1>8 DEF Look
  <2>2. CASE k.tx \in Mined
    <3>1. PICK l \in landed :
            /\ l.tx = k.tx
            /\ call' = [call EXCEPT ![c] = [k EXCEPT !.pc = "seen",
                          !.seen = IF Solidified(l) THEN l.result ELSE "processing"]]
      BY <1>8, <2>2 DEF Look, Goto
    <3>2. l.result \in Results /\ (Solidified(l) => Decides(k.tx, l.result, landed))
      BY <3>1 DEF Reclaims, TypeOK, Solidified, Decides
    <3>3. CASE Solidified(l)
      BY <1>7, <2>1, <3>1, <3>2, <3>3
    <3>4. CASE ~Solidified(l)
      BY <1>7, <2>1, <3>1, <3>4 DEF Results
    <3> QED BY <3>3, <3>4
  <2>3. CASE k.tx \notin Mined
    <3> DEFINE q == [k EXCEPT !.pc = "read_block"]
    <3>1. call' = [call EXCEPT ![c] = q]
      BY <1>8, <2>3 DEF Look, GoOn, Goto
    <3> HIDE DEF k
    <3>2. q \in CallStates /\ q.pc = "read_block" /\ q.tx = k.tx /\ q.source = k.source /\ q.n = k.n
      BY <1>1 DEF CallStates
    <3>3. k.tx \notin MinedIn(landed)
      BY <2>3 DEF Mined, MinedIn
    <3> HIDE DEF q
    <3>4. Knows(q, attempts, landed)
      BY <1>1, <2>1, <3>2, <3>3 DEF Knows
    <3> QED BY <3>1, <3>2, <3>4
  <2> QED BY <2>2, <2>3
<1>9. CASE LookUnavailable(c)
  <2>1. PICK seen \in {"unknown", "processing"} :
          call' = [call EXCEPT ![c] = [k EXCEPT !.pc = "seen", !.seen = seen]]
    BY <1>9 DEF LookUnavailable, Goto
  <2>2. k.pc = "look"
    BY <1>9 DEF LookUnavailable
  <2> QED BY <1>7, <2>1, <2>2 DEF Results
<1>10. CASE ReadSolidifiedBlock(c)
  <2> DEFINE seen == IF Current(c).left = Gone THEN "absent" ELSE "unknown"
             q == [k EXCEPT !.pc = "seen", !.waited = 0, !.seen = seen]
  <2>1. call' = [call EXCEPT ![c] = q] /\ k.pc = "read_block"
    BY <1>10 DEF ReadSolidifiedBlock, Goto
  <2> HIDE DEF k
  <2>2. /\ q \in CallStates /\ q.pc = "seen" /\ q.seen = seen
        /\ q.tx = k.tx /\ q.source = k.source /\ q.n = k.n
    <3>1. seen \in {"absent", "unknown"} /\ 0 \in 0 .. Lag
      BY Timers
    <3> HIDE DEF seen
    <3> QED BY <1>1, <3>1 DEF CallStates
  <2> HIDE DEF q
  <2>3. Current(c).txid = k.tx /\ k.tx # NoTx /\ Current(c).signed = k.tx
    BY <1>1, <1>4, <2>1 DEF Knows, IsSound
  <2>4. seen = "absent" => Over(k.tx, Current(c).left, landed)
    <3>1. k.waited \in 0 .. Lag /\ Current(c).left \in Int
      BY <1>1, Timers DEF CallStates, Row
    <3>2. k.tx \in MinedIn(landed) => Current(c).left + k.waited >= 1
      BY <1>1, <1>4, <2>1 DEF Knows
    <3> QED BY <3>1, <3>2, Timers DEF Over
  <2>5. Knows(q, attempts, landed)
    <3>1. seen \in {"absent", "unknown"}
      OBVIOUS
    <3> HIDE DEF seen
    <3> QED BY <1>1, <1>4, <2>1, <2>2, <2>3, <2>4, <3>1 DEF Knows, Results
  <2> QED BY <2>1, <2>2, <2>5
<1> QED BY <1>6, <1>8, <1>9, <1>10

(* One transaction is signed for an attempt, while its source is due.        *)
LEMMA SignReclaims ==
  ASSUME Reclaims, NEW c \in Processes, Sign(c)
  PROVE  Reclaims'
<1> DEFINE k == call[c]
           row == Current(c)
<1>1. /\ k \in CallStates /\ Knows(k, attempts, landed) /\ k.pc = "sign"
      /\ k.source \in Sources /\ k.n \in 1 .. Latest(k.source)
      /\ row \in Row /\ IsSound(row, k.source, k.n, landed)
      /\ row.status = "created" <=> row.txid = NoTx
  BY AtHand DEF Sign
<1>2. UNCHANGED <<sources, chain, scan>> /\ (Fault \/ UNCHANGED faults)
  BY DEF Sign
<1>3. /\ cursor' \in [Processes -> 0 .. NumSources] /\ page' \in [Processes -> SUBSET Sources]
      /\ faults' \in 0 .. MaxFaults
  BY <1>2, BoundsAreNatural DEF Fault, scan, Reclaims, TypeOK
<1>4. CASE Done(c) /\ UNCHANGED attempts
  BY <1>2, <1>3, <1>4, DoneReclaims
<1>5. CASE /\ row.signed = NoTx /\ row.status = "created" /\ Due(k.source)
           /\ Update(c, [row EXCEPT !.signed = k.tx, !.left = k.left])
           /\ Goto(c, [k EXCEPT !.pc = "claim", !.left = 0]) \/ Done(c)
  <2> DEFINE r == [row EXCEPT !.signed = k.tx, !.left = k.left]
             q == [k EXCEPT !.pc = "claim", !.left = 0]
  <2>1. row = attempts[k.source][k.n] /\ k.n \in 1 .. Len(attempts[k.source])
    BY <1>1 DEF Current, Latest
  <2>2. attempts' = [attempts EXCEPT ![k.source][k.n] = r]
    BY <1>5 DEF Update
  <2>3. k.tx # NoTx /\ k.tx.source = k.source /\ k.tx.n = k.n
    BY <1>1 DEF Knows
  <2>4. /\ \E j \in {q, Idle} : call' = [call EXCEPT ![c] = j]
        /\ k.left \in Gone .. Life
    <3>1. k.left \in 0 .. Life
      BY <1>1 DEF CallStates
    <3> QED BY <1>5, <3>1, Timers DEF Done, Goto
  <2> HIDE DEF k, row
  <2>5. /\ r \in Row /\ r.signed = k.tx /\ r.txid = row.txid /\ r.status = row.status
    BY <1>1, <2>4 DEF Row, CallStates
  <2>6. /\ q \in CallStates /\ q.pc = "claim" /\ q.tx = k.tx /\ q.source = k.source /\ q.n = k.n
    <3>1. 0 \in 0 .. Life
      BY Timers
    <3> QED BY <1>1, <3>1 DEF CallStates
  <2> HIDE DEF r, q
  <2>7. attempts[k.source] \in Seq(Row) /\ attempts \in [Sources -> Seq(Row)]
    BY <1>1 DEF Reclaims, TypeOK
  <2>8. attempts'[k.source][k.n] = r /\ Len(attempts'[k.source]) = Len(attempts[k.source])
    BY <1>1, <2>1, <2>2, <2>7
  <2>9. Knows(q, attempts', landed) /\ Knows(Idle, attempts', landed)
    BY <1>1, <2>1, <2>3, <2>5, <2>6, <2>8, NoOneIsIdle DEF Knows
  <2>10. RowAdvances(row, r) /\ IsSound(r, k.source, k.n, landed)
    BY <1>1, <1>5, <2>3, <2>5 DEF RowAdvances, IsSound, Results, Final
  <2>11. PICK j \in {q, Idle} : call' = [call EXCEPT ![c] = j]
    BY <2>4
  <2>12. j \in CallStates /\ Knows(j, attempts', landed)
    BY <2>6, <2>9, NoOneIsIdle
  <2>13. Due(k.source) /\ (r.status = "created" <=> r.txid = NoTx)
    BY <1>1, <1>5, <2>5
  <2> QED BY <1>1, <1>2, <1>3, <2>1, <2>2, <2>5, <2>10, <2>11, <2>12, <2>13, RowChanges
<1> QED BY <1>4, <1>5 DEF Sign

(* The journal takes the transaction that was signed.                        *)
LEMMA ClaimReclaims ==
  ASSUME Reclaims, NEW c \in Processes, ClaimTransaction(c)
  PROVE  Reclaims'
<1> DEFINE k == call[c]
           row == Current(c)
           q == [k EXCEPT !.pc = "look"]
<1>1. /\ k \in CallStates /\ Knows(k, attempts, landed) /\ k.pc = "claim"
      /\ k.source \in Sources /\ k.n \in 1 .. Latest(k.source)
      /\ row \in Row /\ IsSound(row, k.source, k.n, landed)
      /\ row.signed # NoTx => Due(k.source)
  BY AtHand DEF ClaimTransaction
<1>2. UNCHANGED <<sources, chain, scan, faults>>
  BY DEF ClaimTransaction
<1>3. /\ cursor' \in [Processes -> 0 .. NumSources] /\ page' \in [Processes -> SUBSET Sources]
      /\ faults' \in 0 .. MaxFaults
  BY <1>2 DEF scan, Reclaims, TypeOK
<1>4. CASE Done(c) /\ UNCHANGED attempts
  BY <1>2, <1>3, <1>4, DoneReclaims
<1>5. row = attempts[k.source][k.n] /\ k.n \in 1 .. Len(attempts[k.source])
  BY <1>1 DEF Current, Latest
<1>6. GoOn(c, "look") => call' = [call EXCEPT ![c] = q]
  BY DEF GoOn, Goto
<1>7. row.txid # k.tx \/ ~GoOn(c, "look") \/ ~UNCHANGED attempts \/ Reclaims'
  <2> SUFFICES ASSUME row.txid = k.tx, GoOn(c, "look"), UNCHANGED attempts PROVE Reclaims'
    OBVIOUS
  <2> HIDE DEF k, row
  <2>1. /\ q \in CallStates /\ q.pc = "look" /\ q.tx = k.tx /\ q.source = k.source /\ q.n = k.n
    BY <1>1 DEF CallStates
  <2> HIDE DEF q
  <2>2. Knows(q, attempts, landed)
    BY <1>1, <1>5, <2>1 DEF Knows
  <2> QED BY <1>2, <1>3, <1>6, <2>1, <2>2, OnlyTheCallMoves
<1>8. CASE /\ row.txid = NoTx /\ row.status = "created" /\ row.signed = k.tx
           /\ Update(c, [row EXCEPT !.txid = k.tx, !.status = "signed"])
           /\ GoOn(c, "look")
  <2> DEFINE r == [row EXCEPT !.txid = k.tx, !.status = "signed"]
  <2>1. attempts' = [attempts EXCEPT ![k.source][k.n] = r]
    BY <1>8 DEF Update
  <2>2. k.tx # NoTx /\ call' = [call EXCEPT ![c] = q]
    BY <1>1, <1>6, <1>8 DEF Knows
  <2> HIDE DEF k, row
  <2>3. /\ q \in CallStates /\ q.pc = "look" /\ q.tx = k.tx /\ q.source = k.source /\ q.n = k.n
    BY <1>1 DEF CallStates
  <2>4. /\ r \in Row /\ r.signed = row.signed /\ r.left = row.left /\ r.txid = k.tx /\ r.status = "signed"
    BY <1>1 DEF Row, CallStates, Statuses
  <2> HIDE DEF r, q
  <2>5. attempts[k.source] \in Seq(Row) /\ attempts \in [Sources -> Seq(Row)]
    BY <1>1 DEF Reclaims, TypeOK
  <2>6. attempts'[k.source][k.n] = r /\ Len(attempts'[k.source]) = Len(attempts[k.source])
    BY <1>1, <1>5, <2>1, <2>5
  <2>7. Knows(q, attempts', landed)
    BY <1>1, <1>5, <2>2, <2>3, <2>4, <2>6 DEF Knows
  <2>8. RowAdvances(row, r) /\ IsSound(r, k.source, k.n, landed)
    BY <1>1, <1>8, <2>2, <2>4 DEF RowAdvances, IsSound, Results, Final
  <2>9. Due(k.source) /\ (r.status = "created" <=> r.txid = NoTx)
    BY <1>1, <1>8, <2>2, <2>4
  <2> QED BY <1>1, <1>2, <1>3, <1>5, <2>1, <2>2, <2>3, <2>4, <2>7, <2>8, <2>9, RowChanges
<1> QED BY <1>4, <1>7, <1>8 DEF ClaimTransaction

(* A status is recorded unless the attempt has a final one.                  *)
LEMMA RecordReclaims ==
  ASSUME Reclaims, NEW c \in Processes, call[c].pc \in {"seen", "record"},
         NEW status \in {"accepted", "processing", "unknown", "expired"} \cup Results,
         status = "expired" => Over(call[c].tx, Current(c).left, landed),
         status \in Results => Decides(call[c].tx, status, landed),
         RecordState(c, status), Done(c), UNCHANGED <<sources, chain, scan, faults>>
  PROVE  Reclaims'
<1> DEFINE k == call[c]
           row == Current(c)
           r == [row EXCEPT !.status = status]
<1>1. /\ k \in CallStates /\ Knows(k, attempts, landed)
      /\ k.source \in Sources /\ k.n \in 1 .. Latest(k.source)
      /\ row \in Row /\ IsSound(row, k.source, k.n, landed)
      /\ row.signed # NoTx => Due(k.source)
  BY AtHand
<1>2. /\ cursor' \in [Processes -> 0 .. NumSources] /\ page' \in [Processes -> SUBSET Sources]
      /\ faults' \in 0 .. MaxFaults
  BY DEF scan, Reclaims, TypeOK
<1>3. row = attempts[k.source][k.n]
  BY DEF Current
<1>4. row.txid = k.tx /\ k.tx # NoTx /\ row.signed = k.tx
  BY <1>1, <1>3 DEF Knows, IsSound
<1>5. CASE row.status \in Final
  BY <1>2, <1>5, DoneReclaims DEF RecordState
<1>6. CASE row.status \notin Final
  <2>1. attempts' = [attempts EXCEPT ![k.source][k.n] = r] /\ call' = [call EXCEPT ![c] = Idle]
    BY <1>6 DEF RecordState, Update, Done, Goto
  <2> HIDE DEF k, row
  <2>2. r \in Row /\ r.signed = row.signed /\ r.left = row.left /\ r.txid = row.txid /\ r.status = status
    BY <1>1 DEF Row, Statuses, Results
  <2> HIDE DEF r
  <2>3. RowAdvances(row, r)
    BY <1>6, <2>2 DEF RowAdvances
  <2>4. IsSound(r, k.source, k.n, landed)
    BY <1>1, <1>4, <2>2 DEF IsSound, k, row
  <2>5. (r.status = "created" <=> r.txid = NoTx) /\ Due(k.source)
    BY <1>1, <1>4, <2>2 DEF Results
  <2> QED BY <1>1, <1>2, <1>3, <2>1, <2>2, <2>3, <2>4, <2>5, NoOneIsIdle, RowChanges
<1> QED BY <1>5, <1>6

LEMMA RecordSeenReclaims ==
  ASSUME Reclaims, NEW c \in Processes, RecordSeen(c)
  PROVE  Reclaims'
<1> DEFINE k == call[c]
           seen == call[c].seen
           status == IF seen = "absent" THEN "expired" ELSE seen
           q == [k EXCEPT !.pc = "broadcast"]
<1>1. /\ k \in CallStates /\ Knows(k, attempts, landed) /\ k.pc = "seen"
      /\ k.source \in Sources /\ k.n \in 1 .. Latest(k.source)
      /\ Current(c) = attempts[k.source][k.n]
  BY AtHand DEF RecordSeen, Current
<1>2. UNCHANGED <<sources, chain, scan, faults>>
  BY DEF RecordSeen
<1>3. /\ cursor' \in [Processes -> 0 .. NumSources] /\ page' \in [Processes -> SUBSET Sources]
      /\ faults' \in 0 .. MaxFaults
  BY <1>2 DEF scan, Reclaims, TypeOK
<1>4. CASE seen # "unknown" /\ RecordState(c, status) /\ Done(c)
  <2>1. /\ seen \in Results \cup {"processing", "absent"}
        /\ seen = "absent" => Over(k.tx, Current(c).left, landed)
        /\ seen \in Results => Decides(k.tx, seen, landed)
    BY <1>1, <1>4 DEF Knows
  <2>2. /\ status \in {"accepted", "processing", "unknown", "expired"} \cup Results
        /\ status = "expired" => Over(call[c].tx, Current(c).left, landed)
        /\ status \in Results => Decides(call[c].tx, status, landed)
    BY <2>1 DEF Results
  <2> HIDE DEF status
  <2> QED BY <1>1, <1>2, <1>4, <2>2, RecordReclaims
<1>5. CASE Done(c) /\ UNCHANGED attempts
  BY <1>2, <1>3, <1>5, DoneReclaims
<1>6. CASE GoOn(c, "broadcast") /\ UNCHANGED attempts
  <2>1. call' = [call EXCEPT ![c] = q]
    BY <1>6 DEF GoOn, Goto
  <2> HIDE DEF k
  <2>2. q \in CallStates /\ q.pc = "broadcast" /\ q.tx = k.tx /\ q.source = k.source /\ q.n = k.n
    BY <1>1 DEF CallStates
  <2> HIDE DEF q
  <2>3. Knows(q, attempts, landed)
    BY <1>1, <2>2 DEF Knows
  <2> QED BY <1>2, <1>3, <1>6, <2>1, <2>2, <2>3, OnlyTheCallMoves
<1> QED BY <1>4, <1>5, <1>6 DEF RecordSeen

LEMMA RecordBroadcastReclaims ==
  ASSUME Reclaims, NEW c \in Processes, RecordBroadcast(c)
  PROVE  Reclaims'
<1>1. call[c].pc = "record" /\ call[c].seen \in {"accepted", "unknown"}
  BY AtHand DEF RecordBroadcast, Knows
<1> QED BY <1>1, RecordReclaims DEF RecordBroadcast, Results

(* Only what the journal holds is sent.                                      *)
LEMMA BroadcastReclaims ==
  ASSUME Reclaims, NEW c \in Processes, Broadcast(c)
  PROVE  Reclaims'
<1> DEFINE k == call[c]
           tx == call[c].tx
<1>1. /\ k \in CallStates /\ Knows(k, attempts, landed) /\ k.pc = "broadcast"
      /\ k.source \in Sources /\ k.n \in 1 .. Latest(k.source)
      /\ IsSound(attempts[k.source][k.n], k.source, k.n, landed)
  BY AtHand DEF Broadcast, Current
<1>2. /\ UNCHANGED <<delivered, lease, attempts, landed, cursor, page>>
      /\ Fault \/ UNCHANGED faults
      /\ pool' = pool \cup {tx} \/ pool' = pool
  BY DEF Broadcast, sources, scan
<1>3. PICK seen \in {"accepted", "unknown"} :
        call' = [call EXCEPT ![c] = [k EXCEPT !.pc = "record", !.seen = seen]]
  BY DEF Broadcast, Goto
<1>4. /\ tx # NoTx /\ attempts[k.source][k.n].txid = tx
      /\ tx.source = k.source /\ tx.n = k.n /\ tx \in Tx
  BY <1>1 DEF Knows, IsSound, CallStates
<1>5. faults' \in 0 .. MaxFaults
  BY <1>2, BoundsAreNatural DEF Fault, Reclaims, TypeOK
<1> DEFINE q == [k EXCEPT !.pc = "record", !.seen = seen]
<1>6. call' = [call EXCEPT ![c] = q]
  BY <1>3
<1> HIDE DEF k
<1>7. /\ q \in CallStates /\ q.pc = "record" /\ q.seen = seen
      /\ q.tx = k.tx /\ q.source = k.source /\ q.n = k.n
  BY <1>1, <1>3 DEF CallStates
<1> HIDE DEF q
<1>8. Knows(q, attempts, landed)
  BY <1>1, <1>3, <1>7 DEF Knows
<1>9. JournalAdvances
  BY <1>2 DEF Reclaims, TypeOK, JournalAdvances, RowAdvances, Latest
<1>10. call' \in [Processes -> CallStates] /\ CallsKnow'
  BY <1>2, <1>6, <1>7, <1>8, <1>9, CallMoves DEF Reclaims
<1>11. TypeOK'
  BY <1>2, <1>4, <1>5, <1>10 DEF Reclaims, TypeOK, Latest
<1>12. JournalIsSound' /\ OnlyDueAreSigned' /\ ChainIsSound'
  BY <1>2 DEF Reclaims, JournalIsSound, OnlyDueAreSigned, ChainIsSound, Latest, Due
<1>13. PoolIsJournaled'
  BY <1>1, <1>2, <1>4 DEF Reclaims, PoolIsJournaled, Latest
<1> QED BY <1>10, <1>11, <1>12, <1>13 DEF Reclaims

LEMMA FailuresReclaim ==
  ASSUME Reclaims, NEW c \in Processes, SourceFails(c) \/ ProcessDies(c)
  PROVE  Reclaims'
<1>1. Done(c) /\ Fault /\ UNCHANGED <<sources, attempts, chain>>
  BY DEF SourceFails, ProcessDies
<1>2. /\ cursor' \in [Processes -> 0 .. NumSources] /\ page' \in [Processes -> SUBSET Sources]
  <2>1. CASE SourceFails(c)
    BY <2>1 DEF SourceFails, scan, Reclaims, TypeOK
  <2>2. CASE ProcessDies(c)
    BY <2>2, PagesHoldSources DEF ProcessDies, Reclaims, TypeOK
  <2> QED BY <2>1, <2>2
<1>3. faults' \in 0 .. MaxFaults
  BY <1>1, BoundsAreNatural DEF Fault, Reclaims, TypeOK
<1> QED BY <1>1, <1>2, <1>3, DoneReclaims

LEMMA ReclaimsStep ==
  ASSUME Reclaims, [Next]_vars
  PROVE  Reclaims'
<1>1. ASSUME NEW c \in Processes, Step(c) PROVE Reclaims'
  BY <1>1, ListReclaims, ReconcileReclaims, ReadsReclaim, SignReclaims, ClaimReclaims,
     RecordSeenReclaims, BroadcastReclaims, RecordBroadcastReclaims DEF Step
<1>2. CASE UNCHANGED vars
  <2>1. UNCHANGED <<delivered, lease, attempts, pool, landed, cursor, page, call, faults>>
    BY <1>2 DEF vars, sources, chain, scan
  <2>2. TypeOK'
    BY <2>1 DEF Reclaims, TypeOK, Latest
  <2> QED BY <2>1, <2>2
          DEF Reclaims, JournalIsSound, OnlyDueAreSigned, ChainIsSound, PoolIsJournaled,
              CallsKnow, Latest, Due
<1> QED BY <1>1, <1>2, DeliverReclaims, ReadsReclaim, FailuresReclaim, LandReclaims, BlockReclaims DEF Next

LEMMA AlwaysReclaims == Spec => []Reclaims
<1>1. Reclaims /\ [Next]_vars => Reclaims'
  BY ReclaimsStep
<1> QED BY InitReclaims, <1>1, PTL DEF Spec

-----------------------------------------------------------------------------
(* Every variable keeps its type, and an attempt has its transaction exactly *)
(* once it is past being created.                                            *)
THEOREM ReclaimTypeOK == Spec => []TypeOK
<1>1. Reclaims => TypeOK
  BY DEF Reclaims
<1> QED BY <1>1, AlwaysReclaims, PTL

(* Attempts are decided as a solidified block decides them, and one is given *)
(* up for another only when its undelegation cannot be mined any more        *)
(* (observe, reconcile and getOrCreateCurrentAttempt).                       *)
THEOREM ReclaimOutcomesAreTrue == Spec => []OutcomesAreTrue
<1>1. Reclaims => OutcomesAreTrue
  <2> SUFFICES ASSUME Reclaims, NEW s \in Sources, NEW n \in 1 .. Latest(s)
               PROVE  /\ attempts[s][n].status \in Results =>
                           \E l \in landed : /\ l.tx = attempts[s][n].txid
                                             /\ l.result = attempts[s][n].status /\ Solidified(l)
                      /\ attempts[s][n].status = "expired" =>
                           attempts[s][n].signed \notin Mined /\ attempts[s][n].left <= 0
                      /\ n < Latest(s) => attempts[s][n].status = "expired"
    BY DEF OutcomesAreTrue
  <2> QED BY DEF Reclaims, JournalIsSound, IsSound, Decides, Over, MinedIn, Mined, Solidified
<1> QED BY <1>1, AlwaysReclaims, PTL

(* What has landed for a source leaves no time to any other undelegation.    *)
LEMMA NothingElseLands ==
  ASSUME Reclaims, NEW tx \in pool \ Mined, attempts[tx.source][tx.n].left > 0
  PROVE  tx.source \in Sources /\ Due(tx.source) /\ Returns(tx.source) = {}
<1> DEFINE s == tx.source
<1>1. /\ s \in Sources /\ tx # NoTx
      /\ tx.n \in 1 .. Latest(s) /\ attempts[s][tx.n].txid = tx
  BY TxIsATx DEF Reclaims, TypeOK, PoolIsJournaled
<1>2. attempts[s][tx.n].signed = tx /\ Latest(s) \in Nat
  BY <1>1, RowsAreRows DEF Reclaims, JournalIsSound, IsSound
<1>3. Due(s)
  BY <1>1, <1>2 DEF Reclaims, OnlyDueAreSigned
<1>4. ASSUME NEW l \in landed, l.tx.source = s PROVE FALSE
  <2> DEFINE m == l.tx.n
  <2>1. l.tx \in pool /\ l.tx \in MinedIn(landed) /\ l.tx # NoTx /\ l.tx # tx
    BY TxIsATx DEF Reclaims, ChainIsSound, MinedIn, Mined, TypeOK
  <2>2. m \in 1 .. Latest(s) /\ attempts[s][m].txid = l.tx /\ attempts[s][m].signed = l.tx
    BY <1>1, <1>4, <2>1 DEF Reclaims, PoolIsJournaled, JournalIsSound, IsSound
  <2>3. attempts[s][m].status # "expired"
    BY <1>1, <2>1, <2>2 DEF Reclaims, JournalIsSound, IsSound, Over
  <2>4. attempts[s][tx.n].left \in Int
    BY <1>1, RowsAreRows, Timers DEF Reclaims, Row
  <2>5. attempts[s][tx.n].status # "expired"
    BY <1>1, <2>4 DEF Reclaims, JournalIsSound, IsSound, Over
  <2>6. m = Latest(s) /\ tx.n = Latest(s)
    BY <1>1, <1>2, <2>2, <2>3, <2>5 DEF Reclaims, JournalIsSound
  <2> QED BY <1>1, <2>1, <2>2, <2>6
<1>5. Returns(s) = {}
  BY <1>4 DEF Returns
<1> QED BY <1>1, <1>3, <1>5

(* Every delegation is lent and taken back as EnergyLease says: not before   *)
(* its lease is over and at most once, whatever EnergyReclaimService retries,*)
(* sends again or replaces, in however many processes.                       *)
THEOREM ReclaimImplementsLease == Spec => ImplementsLease
<1> DEFINE due == {s \in delivered : lease[s] = 0}
           returned == [s \in Sources |-> Cardinality(Returns(s))]
           lent == <<delivered, due, returned>>
<1>1. Init => EL!Init
  <2> SUFFICES ASSUME Init PROVE EL!Init
    OBVIOUS
  <2>1. \A s \in Sources : Returns(s) = {}
    BY DEF Init, Returns
  <2> QED BY <2>1, FS_EmptySet DEF Init, EL!Init
<1>2. Reclaims /\ [Next]_vars => [EL!Next]_lent
  <2> SUFFICES ASSUME Reclaims, [Next]_vars PROVE [EL!Next]_lent
    OBVIOUS
  <2>1. CASE UNCHANGED <<delivered, lease, landed>>
    <3>1. \A s \in Sources : Returns(s)' = Returns(s)
      BY <2>1 DEF Returns
    <3> QED BY <2>1, <3>1
  <2>2. ASSUME NEW s \in Sources, Deliver(s) PROVE EL!Next
    <3>1. s \notin delivered /\ delivered' = delivered \cup {s} /\ landed' = landed
      BY <2>2 DEF Deliver, chain
    <3>2. \A t \in delivered : lease'[t] = lease[t]
      BY <2>2, <3>1 DEF Deliver, Reclaims, TypeOK
    <3>3. due' \in {due, due \cup {s}}
      <4>1. due' = due \/ due' = due \cup {s}
        BY <3>1, <3>2
      <4> QED BY <4>1
    <3>4. returned' = returned
      BY <3>1 DEF Returns
    <3>5. EL!Lend(s)
      BY <3>1, <3>3, <3>4 DEF EL!Lend
    <3> QED BY <3>5 DEF EL!Next
  <2>3. ASSUME NEW tx \in pool, NEW result \in Results, Land(tx, result) PROVE [EL!Next]_lent
    <3> DEFINE s == tx.source
    <3>1. /\ tx \in pool \ Mined /\ attempts[s][tx.n].left > 0
          /\ landed' = landed \cup {[tx |-> tx, result |-> result, age |-> 0]}
          /\ UNCHANGED <<delivered, lease>>
      BY <2>3 DEF Land, sources
    <3>2. s \in Sources /\ Due(s) /\ Returns(s) = {}
      BY <3>1, NothingElseLands
    <3>3. \A t \in Sources \ {s} : Returns(t)' = Returns(t)
      BY <3>1 DEF Returns
    <3>4. CASE result = "completed"
      <4>1. Returns(s)' = {tx}
        <5> DEFINE new == [tx |-> tx, result |-> result, age |-> 0]
        <5>1. new.tx = tx /\ new.result = "completed" /\ landed' = landed \cup {new}
          BY <3>1, <3>4
        <5> HIDE DEF new
        <5>2. \A l \in landed : ~(l.tx.source = s /\ l.result = "completed")
          BY <3>2 DEF Returns
        <5> QED BY <5>1, <5>2 DEF Returns
      <4>2. Cardinality(Returns(s)) = 0 /\ Cardinality(Returns(s)') = 1
        BY <3>2, <4>1, FS_EmptySet, FS_Singleton
      <4>3. returned' = [returned EXCEPT ![s] = 1] /\ returned[s] = 0
        BY <3>2, <3>3, <4>2
      <4>4. s \in due /\ due' = due
        BY <3>1, <3>2 DEF Due
      <4>5. EL!Return(s)
        BY <3>1, <4>3, <4>4 DEF EL!Return
      <4> QED BY <3>2, <4>5 DEF EL!Next
    <3>5. CASE result # "completed"
      <4>1. Returns(s)' = Returns(s)
        BY <3>1, <3>5 DEF Returns
      <4>2. returned' = returned
        BY <3>3, <4>1
      <4> QED BY <3>1, <4>2
    <3> QED BY <3>4, <3>5
  <2>4. CASE BlockIsAdded
    <3> DEFINE older(l) == [l EXCEPT !.age = IF @ < Lag THEN @ + 1 ELSE @]
    <3>1. /\ UNCHANGED delivered /\ \A s \in Sources : lease[s] = 0 => lease'[s] = 0
      <4>1. /\ delivered' = delivered
            /\ lease' = [s \in Sources |-> IF lease[s] > 0 THEN lease[s] - 1 ELSE lease[s]]
        BY <2>4 DEF BlockIsAdded
      <4> QED BY <4>1
    <3>2. landed' = {older(l) : l \in landed}
      BY <2>4 DEF BlockIsAdded
    <3>3. \A l \in landed : older(l).tx = l.tx /\ older(l).result = l.result
      BY DEF Reclaims, TypeOK
    <3> HIDE DEF older
    <3>4. \A s \in Sources : Returns(s)' = Returns(s)
      BY <3>2, <3>3 DEF Returns
    <3>5. due \subseteq due' /\ due' \subseteq delivered /\ returned' = returned
      BY <3>1, <3>4 DEF Reclaims, TypeOK
    <3>6. EL!LeasesEnd
      BY <3>1, <3>5 DEF EL!LeasesEnd
    <3> QED BY <3>6 DEF EL!Next
  <2>5. ASSUME NEW c \in Processes, Step(c) \/ LookUnavailable(c) \/ SourceFails(c) \/ ProcessDies(c)
        PROVE  UNCHANGED <<delivered, lease, landed>>
    BY <2>5 DEF Step, ListDueSources, Reconcile, FindSigned, Sign, ClaimTransaction, Look,
       LookUnavailable, ReadSolidifiedBlock, RecordSeen, Broadcast, RecordBroadcast,
       SourceFails, ProcessDies, sources, chain
  <2>6. CASE UNCHANGED vars
    BY <2>1, <2>6 DEF vars, sources, chain
  <2> QED BY <2>1, <2>2, <2>3, <2>4, <2>5, <2>6 DEF Next
<1> QED BY <1>1, <1>2, AlwaysReclaims, PTL DEF Spec, ImplementsLease, EL!Spec
=============================================================================
