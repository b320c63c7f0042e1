----------------------------- MODULE Ledger_proofs -----------------------------
(***************************************************************************)
(* Proofs about Ledger for every block tree, every set of entries, every   *)
(* configuration of accounts and every bound on failures and restarts.     *)
(***************************************************************************)
EXTENDS Ledger, SequenceTheorems, WellFoundedInduction, TLAPS

------------------------------------------------------------------------------
(* The statements an entry makes the listener execute. *)

Movements == [do : {"deposit", "withdraw"}, entry : Tx, block : Block, key : STRING \X Address,
              to : Address, strict : BOOLEAN]
Balances == [do : {"balance"}, key : Address \X Token, tx : STRING]
Transactions == [do : {"transaction"}, key : STRING, block : Block]
Events == [do : {"event"}, key : STRING \X Nat, entry : Tx, block : Block]
Panics_ == [do : {"panic"}]

Statement == Movements \cup Balances \cup Transactions \cup Events \cup Panics_

\* An entry makes at most one statement of each kind that writes a deposit, a withdraw
\* or an event.
Payer(e) == IF Data[e].name = "Deposit" THEN Data[e].sender ELSE Data[e].from

StatementsOf(e, info, logged) ==
  {Deposit(e, Payer(e), Data[e].to, info), Withdraw(e, Data[e].from, Data[e].to, info),
   SaveEvent(e, info), SaveEvent(e, logged)}
    \cup Balances \cup Transactions \cup Panics_

\* The last statement of an entry is no movement, whose handler looks at the next one.
EndsInSave(w) == w # <<>> => w[Len(w)].do \in {"event", "transaction", "panic"}

LEMMA StatementFacts ==
  ASSUME NEW e \in Tx, NEW b \in Block
  PROVE  /\ \A account \in Account : Spelled(e, account) \in Address
         /\ \A from, to \in Account :
              Deposit(e, from, to, b) \in Movements /\ Withdraw(e, from, to, b) \in Movements
         /\ \A account \in Account : Balance(e, account) \in Balances
         /\ SaveTransaction(e, b) \in Transactions
         /\ SaveEvent(e, b) \in Events
         /\ Panic \in Panics_
<1>1. Data[e] \in Entry
  BY LedgerAssumption
<1>2. /\ Data[e].tx \in STRING /\ Data[e].index \in Nat /\ Data[e].token \in Token
      /\ Data[e].sender \in Account /\ Data[e].from \in Account /\ Data[e].to \in Account
  BY <1>1 DEF Entry
<1>3. \A account \in Account : Spelled(e, account) \in Address
  BY DEF Spelled, Address
<1>4. \A from, to \in Account :
        Deposit(e, from, to, b) \in Movements /\ Withdraw(e, from, to, b) \in Movements
  BY <1>2, <1>3 DEF Deposit, Withdraw, Movement, Movements
<1>5. \A account \in Account : Balance(e, account) \in Balances
  BY <1>2, <1>3 DEF Balance, Balances
<1>6. SaveTransaction(e, b) \in Transactions /\ SaveEvent(e, b) \in Events /\ Panic \in Panics_
  BY <1>2 DEF SaveTransaction, Transactions, SaveEvent, Events, Panic, Panics_
<1> QED
  BY <1>3, <1>4, <1>5, <1>6

\* What comes last stays last when something is put in front of it.
LEMMA EndsInSaveConcat ==
  ASSUME NEW R, NEW s \in Seq(R), NEW t \in Seq(R), t # <<>>, EndsInSave(t)
  PROVE  s \o t \in Seq(R) /\ EndsInSave(s \o t)
<1>1. /\ s \o t \in Seq(R) /\ Len(s \o t) = Len(s) + Len(t)
      /\ \A i \in 1..Len(s) + Len(t) : (s \o t)[i] = IF i <= Len(s) THEN s[i] ELSE t[i - Len(s)]
  BY ConcatProperties
<1>2. Len(s) \in Nat /\ Len(t) \in Nat \ {0}
  BY EmptySeq, LenProperties
<1>3. (s \o t)[Len(s \o t)] = t[Len(t)]
  BY <1>1, <1>2
<1> QED
  BY <1>1, <1>3 DEF EndsInSave

LEMMA HandlerFacts ==
  ASSUME NEW e \in Tx, NEW info \in Block, NEW logged \in Block
  PROVE  HandlerWork(e, info) \in Seq(StatementsOf(e, info, logged))
<1> DEFINE d == Data[e]
           R == StatementsOf(e, info, logged)
<1>1. d.sender \in Account /\ d.from \in Account /\ d.to \in Account
  BY LedgerAssumption DEF Entry
<1>2. /\ \A account \in Account : Balance(e, account) \in R
      /\ Withdraw(e, d.from, d.to, info) \in R /\ Deposit(e, Payer(e), d.to, info) \in R
  BY StatementFacts DEF StatementsOf
<1>3. /\ d.name = "Deposit" => Payer(e) = d.sender
      /\ d.name # "Deposit" => Payer(e) = d.from
  BY DEF Payer
<1> HIDE DEF R
<1>4. /\ \A s, t \in R : <<s, t>> \in Seq(R)
      /\ \A s \in R : <<s>> \in Seq(R)
      /\ <<>> \in Seq(R)
  BY EmptySeq
<1>5. \A s, t \in Seq(R) : s \o t \in Seq(R)
  BY ConcatProperties
<1>6. HandlerWork(e, info) \in Seq(R)
  BY <1>1, <1>2, <1>3, <1>4, <1>5, SMTT(40) DEF HandlerWork, When
<1> QED
  BY <1>6 DEF R

LEMMA WorkOfEntry ==
  ASSUME NEW e \in Tx, NEW info \in Block, NEW logged \in Block
  PROVE  /\ Work(e, info, logged) \in Seq(StatementsOf(e, info, logged))
         /\ EndsInSave(Work(e, info, logged))
<1> DEFINE d == Data[e]
           R == StatementsOf(e, info, logged)
           w == Work(e, info, logged)
<1>1. d.sender \in Account /\ d.from \in Account /\ d.to \in Account
  BY LedgerAssumption DEF Entry
<1>2. /\ SaveEvent(e, info) \in R /\ SaveEvent(e, logged) \in R
      /\ SaveTransaction(e, info) \in R /\ Panic \in R
      /\ SaveEvent(e, info).do = "event" /\ SaveEvent(e, logged).do = "event"
      /\ SaveTransaction(e, info).do = "transaction" /\ Panic.do = "panic"
  BY StatementFacts DEF StatementsOf, SaveEvent, SaveTransaction, Panic
<1>3. CASE Data[e].name = "NativeTransfer"
  <2> DEFINE isWithdraw == d.from = WithdrawEOA
             toMonitored == d.to \in Monitored
             first == When(isWithdraw, <<Withdraw(e, d.from, d.to, info), Balance(e, d.from)>>)
             second == When(toMonitored, <<Deposit(e, d.from, d.to, info), Balance(e, d.to)>>)
             last == <<SaveEvent(e, info), SaveTransaction(e, info)>>
  <2>1. first \in Seq(R) /\ second \in Seq(R)
    <3>1. /\ Withdraw(e, d.from, d.to, info) \in R /\ Deposit(e, d.from, d.to, info) \in R
          /\ Balance(e, d.from) \in R /\ Balance(e, d.to) \in R
      BY <1>1, <1>3, StatementFacts DEF StatementsOf, Payer
    <3> HIDE DEF R
    <3>2. /\ <<Withdraw(e, d.from, d.to, info), Balance(e, d.from)>> \in Seq(R)
          /\ <<Deposit(e, d.from, d.to, info), Balance(e, d.to)>> \in Seq(R)
      BY <3>1
    <3> QED
      BY <3>2, EmptySeq DEF When
  <2> HIDE DEF R
  <2>2. last \in Seq(R) /\ last # <<>> /\ EndsInSave(last)
    BY <1>2 DEF EndsInSave
  <2>3. w = first \o second \o When(isWithdraw \/ toMonitored, last)
    BY <1>3 DEF Work, NativeWork
  <2>4. first \o second \in Seq(R)
    BY <2>1, ConcatProperties
  <2> HIDE DEF w
  <2>5. CASE isWithdraw \/ toMonitored
    <3>1. w = first \o second \o last
      BY <2>3, <2>5 DEF When
    <3> HIDE DEF first, second, last
    <3>2. w \in Seq(R) /\ EndsInSave(w)
      BY <2>2, <2>4, <3>1, EndsInSaveConcat
    <3> QED
      BY <3>2 DEF R, w
  <2>6. CASE ~(isWithdraw \/ toMonitored)
    <3>1. w = <<>> \o <<>> \o <<>>
      BY <2>3, <2>6 DEF When
    <3>2. w = <<>>
      BY <3>1, ConcatEmptySeq, EmptySeq
    <3> QED
      BY <3>2, EmptySeq DEF EndsInSave, w
  <2> QED
    BY <2>5, <2>6
<1>4. CASE Data[e].name # "NativeTransfer"
  <2>1. CASE ~Relevant(e)
    BY <1>4, <2>1, EmptySeq DEF Work, LogWork, EndsInSave
  <2>2. CASE Relevant(e) /\ d.create /\ d.name = "Deposit" /\ d.sender \in Monitored
    <3>1. w = <<Panic>>
      BY <1>4, <2>2 DEF Work, LogWork
    <3> HIDE DEF R, w
    <3>2. w \in Seq(R) /\ EndsInSave(w)
      BY <1>2, <3>1 DEF EndsInSave
    <3> QED
      BY <3>2 DEF R, w
  <2>3. CASE Relevant(e) /\ ~(d.create /\ d.name = "Deposit" /\ d.sender \in Monitored)
    <3> DEFINE last == <<SaveTransaction(e, info), IF d.create THEN Panic ELSE SaveEvent(e, logged)>>
    <3>1. w = HandlerWork(e, info) \o last
      BY <1>4, <2>3 DEF Work, LogWork
    <3>2. HandlerWork(e, info) \in Seq(R)
      BY HandlerFacts
    <3> HIDE DEF R, w
    <3>3. last \in Seq(R) /\ last # <<>> /\ EndsInSave(last)
      BY <1>2 DEF EndsInSave
    <3> HIDE DEF last
    <3>4. w \in Seq(R) /\ EndsInSave(w)
      BY <3>1, <3>2, <3>3, EndsInSaveConcat
    <3> QED
      BY <3>4 DEF R, w
  <2> QED
    BY <2>1, <2>2, <2>3
<1> QED
  BY <1>3, <1>4

LEMMA WorkFacts ==
  ASSUME NEW e \in Tx, NEW info \in Block, NEW logged \in Block,
         NEW w, w = Work(e, info, logged)
  PROVE  /\ w \in Seq(Statement) /\ EndsInSave(w)
         /\ \A i \in DOMAIN w : w[i].do \in {"deposit", "withdraw"} => w[i].block = info
<1>1. StatementsOf(e, info, logged) \subseteq Statement
  <2>1. Payer(e) \in Account /\ Data[e].from \in Account /\ Data[e].to \in Account
    BY LedgerAssumption DEF Entry, Payer
  <2> QED
    BY <2>1, StatementFacts DEF StatementsOf, Statement
<1>2. w \in Seq(StatementsOf(e, info, logged)) /\ EndsInSave(w)
  BY WorkOfEntry
<1>3. /\ w = [i \in 1..Len(w) |-> w[i]] /\ Len(w) \in Nat /\ DOMAIN w = 1..Len(w)
      /\ \A i \in 1..Len(w) : w[i] \in StatementsOf(e, info, logged)
  BY <1>2, LenProperties, ElementOfSeq
<1>4. w \in Seq(Statement)
  <2>1. w \in [1..Len(w) -> Statement]
    BY <1>1, <1>3
  <2> QED
    BY <1>3, <2>1, SeqDef
<1>5. \A s \in StatementsOf(e, info, logged) : s.do \in {"deposit", "withdraw"} => s.block = info
  BY DEF StatementsOf, Balances, Transactions, Panics_, Deposit, Withdraw, Movement, SaveEvent
<1> QED
  BY <1>2, <1>3, <1>4, <1>5

------------------------------------------------------------------------------
(* What the statements do to a table. *)

\* A table whose rows are of the set R.
Rows(R, table) == table \in [DOMAIN table -> R]

LEMMA InsertFacts ==
  ASSUME NEW R, NEW table, Rows(R, table), NEW key, NEW row \in R,
         NEW after, after = InsertIfAbsent(table, key, row)
  PROVE  /\ Rows(R, after) /\ DOMAIN after = DOMAIN table \cup {key}
         /\ \A k \in DOMAIN table : after[k] = table[k]
         /\ key \notin DOMAIN table => after[key] = row
         /\ key \in DOMAIN table => after = table
  BY DEF Rows, InsertIfAbsent

LEMMA InsertedRows ==
  ASSUME NEW R, NEW table, Rows(R, table)
  PROVE  \A key : \A row \in R : Rows(R, InsertIfAbsent(table, key, row))
  BY InsertFacts

LEMMA InsertedKeys ==
  ASSUME NEW table, NEW key, NEW row
  PROVE  DOMAIN InsertIfAbsent(table, key, row) = DOMAIN table \cup {key}
  BY DEF InsertIfAbsent

LEMMA BelowFacts ==
  ASSUME NEW R, NEW table, Rows(R, table), NEW n, NEW after, after = Below(table, n)
  PROVE  /\ Rows(R, after)
         /\ DOMAIN after = {k \in DOMAIN table : Number[table[k].block] <= n}
         /\ \A k \in DOMAIN after : after[k] = table[k]
  BY DEF Rows, Below

MovementRow == [block : Block, to : Address]
HistoryRow == [block : Block, after : SUBSET Tx]
BalanceRow == [block : Block, value : SUBSET Tx]
TransactionRow == [block : Block, live : BOOLEAN]
LedgerEvent == [entry : Tx, block : Block, live : BOOLEAN]

LEMMA SoftDeleteFacts ==
  ASSUME NEW table, NEW n \in Nat, NEW after, after = RollbackEventRows(table, Number, n)
  PROVE  /\ Rows(TransactionRow, table) => Rows(TransactionRow, after)
         /\ Rows(LedgerEvent, table) => Rows(LedgerEvent, after)
         /\ DOMAIN after = DOMAIN table
<1>1. ASSUME Rows(TransactionRow, table), NEW k \in DOMAIN table
      PROVE  [table[k] EXCEPT !.live = @ /\ Number[table[k].block] <= n] \in TransactionRow
  BY <1>1 DEF Rows, TransactionRow
<1>2. ASSUME Rows(LedgerEvent, table), NEW k \in DOMAIN table
      PROVE  [table[k] EXCEPT !.live = @ /\ Number[table[k].block] <= n] \in LedgerEvent
  BY <1>2 DEF Rows, LedgerEvent
<1> QED
  BY <1>1, <1>2 DEF RollbackEventRows, Rows

------------------------------------------------------------------------------
(* Type correctness.  The types need to know what is in work, and that the header *)
(* is of the height in hand.  Where the branch was not replaced below the         *)
(* goroutine the header is still on the chain, what FilterLogs answered from is   *)
(* the header, and what is in work names the header.                              *)

Writing == stage \in {"natives", "logs"}

ChainOK == canon \in Chains /\ reorgs \in Nat

PlaceOK ==
  /\ work # <<>> => Writing
  /\ ~Writing \/ cursor = 0 => todo = {} /\ work = <<>>
  /\ InBlock => Number[header] = cursor
  /\ InBlock /\ cursor \notin mixed => cursor \in DOMAIN canon /\ canon[cursor] = header
  /\ stage = "logs" /\ cursor \notin mixed => source = header

\* What is left to be executed.
Ahead == {work[i] : i \in DOMAIN work}

\* A movement is of the height in hand.
Named(s) ==
  s.do \in {"deposit", "withdraw"} =>
    Number[s.block] = cursor /\ (cursor \notin mixed => s.block = header)

WorkOK == work \in Seq(Statement) /\ EndsInSave(work) /\ \A s \in Ahead : Named(s)

IInv == TypeOK /\ ChainOK /\ PlaceOK /\ WorkOK

TablesOK ==
  /\ Rows(MovementRow, deposits) /\ Rows(MovementRow, withdraws)
  /\ Rows(HistoryRow, history) /\ Rows(BalanceRow, balances)
  /\ Rows(TransactionRow, txs) /\ Rows(LedgerEvent, events)

ControlOK ==
  /\ Rows(Block, blocks) /\ DOMAIN blocks \subseteq Nat
  /\ stage \in {"down", "idle", "header", "natives", "logs"} /\ cursor \in Nat /\ todo \subseteq Tx
  /\ header \in Block /\ source \in Block /\ mixed \subseteq Nat

CountsOK ==
  /\ faults \in 0..MaxFaults /\ swallowed \in 0..MaxSwallowed /\ restarts \in 0..MaxRestarts
  /\ panicked \in BOOLEAN

LEMMA TypeParts ==
  /\ TypeOK <=> TablesOK /\ ControlOK /\ CountsOK
  /\ TypeOK' <=> TablesOK' /\ ControlOK' /\ CountsOK'
  BY DEF TypeOK, TablesOK, ControlOK, CountsOK, Rows, MovementRow, HistoryRow, BalanceRow,
     TransactionRow, LedgerEvent

\* A canonical chain has one block per height.
LEMMA CanonFacts ==
  ASSUME NEW c \in Chains
  PROVE  \E h \in Nat :
           /\ HeadHeight(c) = h /\ DOMAIN c = 0..h /\ c \in [0..h -> Block]
           /\ \A n \in 0..h : Number[c[n]] = n
           /\ \A n \in 1..h : Parent[c[n]] = c[n-1]
<1>1. PICK h \in 0..MaxHeight :
         /\ c \in [0..h -> Block]
         /\ \A n \in 0..h : Number[c[n]] = n
         /\ \A n \in 1..h : Parent[c[n]] = c[n-1]
  BY ChainAssumption
<1>2. DOMAIN c = 0..h
  BY <1>1
<1>3. HeadHeight(c) \in 0..MaxHeight /\ DOMAIN c = 0..HeadHeight(c)
  BY <1>2 DEF HeadHeight
<1>4. HeadHeight(c) = h
  BY <1>2, <1>3, BlockAssumption
<1> QED
  BY <1>1, <1>2, <1>4, BlockAssumption

\* The block of the chain at the height in hand.
LEMMA AtCursor ==
  ASSUME IInv, cursor \in DOMAIN canon
  PROVE  /\ canon[cursor] \in Block /\ Number[canon[cursor]] = cursor /\ cursor \in Nat
         /\ cursor = 0 => canon[cursor] = Genesis
<1>1. canon[cursor] \in Block /\ Number[canon[cursor]] = cursor /\ cursor \in Nat
  BY CanonFacts DEF IInv, ChainOK
<1> QED
  BY <1>1, BlockAssumption

\* What the node answers for the height in hand.
LEMMA FetchedFacts ==
  ASSUME IInv
  PROVE  /\ NativesAt(cursor) \subseteq Tx /\ LogsAt(cursor) \subseteq Tx
         /\ cursor = 0 => NativesAt(cursor) = {} /\ LogsAt(cursor) = {}
<1>1. CASE cursor \in DOMAIN canon
  BY <1>1, AtCursor, EventAssumption, GenesisAssumption DEF NativesAt, LogsAt
<1>2. CASE cursor \notin DOMAIN canon
  BY <1>2 DEF NativesAt, LogsAt
<1> QED
  BY <1>1, <1>2

\* What is ahead: the statement in hand, and what comes after it.
LEMMA AheadFacts ==
  /\ work = <<>> => Ahead = {}
  /\ WorkOK /\ work # <<>> /\ work' = Tail(work) => Ahead = {Head(work)} \cup Ahead'
  /\ WorkOK /\ work # <<>> /\ Tail(work) # <<>> /\ work' = Tail(Tail(work)) => Ahead' \subseteq Ahead
<1> DEFINE In(w) == {w[i] : i \in DOMAIN w}
<1>1. ASSUME work = <<>>
      PROVE  Ahead = {}
  BY <1>1, EmptySeq DEF Ahead
<1>2. ASSUME NEW w \in Seq(Statement), w # <<>>
      PROVE  In(w) = {Head(w)} \cup In(Tail(w)) /\ Tail(w) \in Seq(Statement)
  <2>1. /\ Head(w) = w[1] /\ Len(Tail(w)) = Len(w) - 1 /\ Len(w) \in Nat \ {0}
        /\ DOMAIN w = 1..Len(w) /\ DOMAIN Tail(w) = 1..Len(Tail(w)) /\ Tail(w) \in Seq(Statement)
        /\ \A i \in 1..Len(Tail(w)) : Tail(w)[i] = w[i+1]
    BY <1>2, HeadTailProperties, LenProperties, EmptySeq
  <2>2. \A i \in DOMAIN w : w[i] = Head(w) \/ (i - 1 \in DOMAIN Tail(w) /\ Tail(w)[i-1] = w[i])
    <3> SUFFICES ASSUME NEW i \in DOMAIN w, i # 1
                 PROVE  i - 1 \in DOMAIN Tail(w) /\ Tail(w)[i-1] = w[i]
      BY <2>1
    <3>1. i \in Nat /\ i > 1 /\ i <= Len(w)
      BY <2>1
    <3>2. i - 1 \in 1..Len(Tail(w)) /\ (i - 1) + 1 = i
      BY <2>1, <3>1
    <3> QED
      BY <2>1, <3>2
  <2>3. \A i \in DOMAIN Tail(w) : i + 1 \in DOMAIN w /\ Tail(w)[i] = w[i+1]
    BY <2>1
  <2>4. 1 \in DOMAIN w
    BY <2>1
  <2>5. Head(w) \in In(w)
    BY <2>1, <2>4
  <2>6. ASSUME NEW x \in In(w)
        PROVE  x = Head(w) \/ x \in In(Tail(w))
    <3>1. PICK i \in DOMAIN w : x = w[i]
      OBVIOUS
    <3> QED
      BY <2>2, <3>1
  <2>7. ASSUME NEW x \in In(Tail(w))
        PROVE  x \in In(w)
    <3>1. PICK i \in DOMAIN Tail(w) : x = Tail(w)[i]
      OBVIOUS
    <3> QED
      BY <2>3, <3>1
  <2> HIDE DEF In
  <2> QED
    BY <2>1, <2>5, <2>6, <2>7
<1>3. ASSUME WorkOK, work # <<>>, work' = Tail(work)
      PROVE  Ahead = {Head(work)} \cup Ahead'
  <2>1. In(work) = {Head(work)} \cup In(Tail(work))
    BY <1>2, <1>3 DEF WorkOK
  <2> QED
    BY <1>3, <2>1 DEF Ahead
<1>4. ASSUME WorkOK, work # <<>>, Tail(work) # <<>>, work' = Tail(Tail(work))
      PROVE  Ahead' \subseteq Ahead
  <2>1. In(Tail(Tail(work))) \subseteq In(work)
    BY <1>2, <1>4 DEF WorkOK
  <2> QED
    BY <1>4, <2>1 DEF Ahead
<1> QED
  BY <1>1, <1>3, <1>4

\* The statement in hand.
LEMMA HeadOfWork ==
  ASSUME IInv, work # <<>>
  PROVE  /\ Head(work) \in Statement /\ Named(Head(work)) /\ Writing /\ InBlock /\ cursor # 0
         /\ Tail(work) \in Seq(Statement) /\ EndsInSave(Tail(work))
         /\ Head(work).do \in {"deposit", "withdraw"} =>
              /\ Head(work) \in Movements /\ Tail(work) # <<>>
              /\ Tail(Tail(work)) \in Seq(Statement) /\ EndsInSave(Tail(Tail(work)))
         /\ Head(work).do = "balance" => Head(work) \in Balances
         /\ Head(work).do = "transaction" => Head(work) \in Transactions
         /\ Head(work).do = "event" => Head(work) \in Events
<1>1. work \in Seq(Statement) /\ EndsInSave(work) /\ Writing /\ InBlock /\ cursor # 0
  BY DEF IInv, WorkOK, PlaceOK, Writing, InBlock
<1>2. /\ Head(work) \in Statement /\ Tail(work) \in Seq(Statement)
      /\ Len(Tail(work)) = Len(work) - 1 /\ Len(work) \in Nat \ {0}
      /\ \A i \in 1..Len(Tail(work)) : Tail(work)[i] = work[i+1]
      /\ Head(work) = work[1] /\ 1 \in DOMAIN work
  BY <1>1, HeadTailProperties, EmptySeq, LenProperties
<1>3. ASSUME NEW w \in Seq(Statement), w # <<>>, EndsInSave(w)
      PROVE  Tail(w) \in Seq(Statement) /\ EndsInSave(Tail(w))
  <2>1. /\ Tail(w) \in Seq(Statement) /\ Len(Tail(w)) = Len(w) - 1
        /\ Len(w) \in Nat \ {0}
        /\ \A i \in 1..Len(Tail(w)) : Tail(w)[i] = w[i+1]
    BY <1>3, HeadTailProperties, EmptySeq
  <2>2. Tail(w) # <<>> => Len(Tail(w)) \in Nat \ {0}
    BY <2>1, EmptySeq
  <2>3. Tail(w) # <<>> => Tail(w)[Len(Tail(w))] = w[Len(w)]
    BY <2>1, <2>2
  <2> QED
    BY <1>3, <2>1, <2>3 DEF EndsInSave
<1>4. Tail(work) = <<>> => Len(work) = 1
  <2>1. Len(<<>>) = 0
    BY EmptySeq
  <2>2. ASSUME Tail(work) = <<>>
        PROVE  Len(Tail(work)) = 0
    BY <2>1, <2>2, Zenon
  <2>3. Len(Tail(work)) = 0 => Len(work) = 1
    <3> DEFINE m == Len(work)
               l == Len(Tail(work))
    <3>1. l = m - 1 /\ m \in Nat \ {0}
      BY <1>2
    <3> HIDE DEF m, l
    <3>2. l = 0 => m = 1
      BY <3>1
    <3> QED
      BY <3>2 DEF m, l
  <2> QED
    BY <2>2, <2>3
<1>5. Head(work).do \in {"deposit", "withdraw"} => Tail(work) # <<>>
  BY <1>1, <1>2, <1>4 DEF EndsInSave
<1>6. /\ Head(work).do \in {"deposit", "withdraw"} => Head(work) \in Movements
      /\ Head(work).do = "balance" => Head(work) \in Balances
      /\ Head(work).do = "transaction" => Head(work) \in Transactions
      /\ Head(work).do = "event" => Head(work) \in Events
  BY <1>2 DEF Statement, Movements, Balances, Transactions, Events, Panics_
<1>7. Named(Head(work))
  BY <1>2 DEF IInv, WorkOK, Ahead
<1> QED
  BY <1>1, <1>2, <1>3, <1>5, <1>6, <1>7

\* A failure is counted within its bound.
LEMMA CountFacts ==
  ASSUME CountsOK
  PROVE  /\ Fault /\ UNCHANGED <<swallowed, deaths>> => CountsOK'
         /\ Swallowed /\ UNCHANGED <<faults, deaths>> => CountsOK'
         /\ UNCHANGED counts => CountsOK'
  BY LedgerAssumption DEF CountsOK, Fault, Swallowed, counts, deaths

LEMMA InitInvariant == Init => IInv
<1> SUFFICES ASSUME Init
             PROVE  IInv
  OBVIOUS
<1>1. \A R : Rows(R, Empty)
  BY DEF Rows, Empty
<1>2. DOMAIN Empty = {}
  BY DEF Empty
<1>3. TablesOK /\ ControlOK /\ CountsOK
  <2>1. TablesOK
    BY <1>1 DEF Init, TablesOK
  <2>2. ControlOK
    BY <1>1, <1>2, BlockAssumption DEF Init, ControlOK
  <2>3. CountsOK
    <3>1. faults = 0 /\ swallowed = 0 /\ restarts = 0 /\ panicked \in BOOLEAN
      BY DEF Init
    <3>2. MaxFaults \in Nat /\ MaxSwallowed \in Nat /\ MaxRestarts \in Nat
      BY LedgerAssumption
    <3> QED
      BY <3>1, <3>2 DEF CountsOK
  <2> QED
    BY <2>1, <2>2, <2>3
<1>4. ChainOK
  BY DEF Init, ChainInit, ChainOK
<1>5. PlaceOK
  BY DEF Init, PlaceOK, InBlock, Writing
<1>6. WorkOK
  BY AheadFacts, EmptySeq DEF Init, WorkOK, EndsInSave
<1> QED
  BY <1>3, <1>4, <1>5, <1>6, TypeParts DEF IInv

\* The steps of the scan and of the process leave the ledger alone, except for a rollback.
LEMMA ControlStep ==
  ASSUME IInv, UNCHANGED ledger, ControlOK', CountsOK', ChainOK', PlaceOK', WorkOK'
  PROVE  IInv'
<1>1. TablesOK'
  BY TypeParts DEF IInv, TablesOK, Rows, ledger
<1> QED
  BY <1>1, TypeParts DEF IInv

\* With nothing in hand there is nothing to be named.
LEMMA NothingInHand == work' = <<>> => WorkOK'
  BY EmptySeq DEF WorkOK, EndsInSave, Ahead

\* The rollback target lies below the cursor.
LEMMA RollbackFacts ==
  ASSUME IInv, Rollback
  PROVE  \E target \in Nat : target < cursor /\ RollBackTo(target) /\ cursor' = target + 1
<1>1. cursor \in Nat /\ cursor > 0 /\ RollbackDepth \in Nat \ {0}
  BY LedgerAssumption DEF IInv, TypeOK, Rollback, RollBackTo
<1>2. PICK target \in Nat : target < cursor /\ RollBackTo(target)
  BY <1>1 DEF Rollback
<1> QED
  BY <1>2 DEF RollBackTo

LEMMA RollbackInvariant ==
  ASSUME IInv, Rollback
  PROVE  IInv'
<1>1. TablesOK /\ ControlOK /\ CountsOK
  BY TypeParts DEF IInv
<1>2. PICK target \in Nat : target < cursor /\ RollBackTo(target) /\ cursor' = target + 1
  BY RollbackFacts
<1>3. /\ stage = "idle" /\ UNCHANGED <<chainVars, stage, todo, header, source, work, counts>>
      /\ DeleteAbove(target) /\ mixed' = {n \in mixed : n <= target}
  BY <1>2 DEF RollBackTo
<1>4. TablesOK'
  BY <1>1, <1>3, BelowFacts, SoftDeleteFacts DEF DeleteAbove, TablesOK
<1>5. Rows(Block, blocks') /\ DOMAIN blocks' = {n \in DOMAIN blocks : n <= target}
  BY <1>1, <1>3 DEF DeleteAbove, RollbackBlockRows, Rows, ControlOK
<1>6. ControlOK'
  <2>1. mixed' \subseteq mixed /\ cursor' \in Nat /\ DOMAIN blocks' \subseteq DOMAIN blocks
    BY <1>2, <1>3, <1>5
  <2>2. UNCHANGED <<stage, todo, header, source>>
    BY <1>3
  <2> QED
    BY <1>1, <1>5, <2>1, <2>2 DEF ControlOK
<1>7. work = <<>> /\ todo = {}
  BY <1>3 DEF IInv, PlaceOK, Writing
<1>8. PlaceOK'
  BY <1>3, <1>7 DEF PlaceOK, InBlock, Writing
<1>9. CountsOK' /\ ChainOK' /\ WorkOK'
  BY <1>1, <1>3, <1>7, CountFacts, NothingInHand DEF IInv, ChainOK, chainVars
<1> QED
  BY <1>4, <1>6, <1>8, <1>9, TypeParts DEF IInv

\* The first log left is in hand.
LEMMA NextLogFacts ==
  ASSUME NEW e, TakeLog(e) \/ SkipLog(e)
  PROVE  /\ stage = "logs" /\ work = <<>> /\ e \in todo /\ todo' = todo \ {e}
         /\ \A f \in todo : Data[e].index <= Data[f].index
         /\ UNCHANGED <<chainVars, ledger, blocks, stage, cursor, header, source, mixed>>
  BY DEF TakeLog, SkipLog, NextLog

LEMMA ScanInvariant ==
  ASSUME IInv,
         \/ Resume \/ StartAfresh \/ BeginBlock \/ FetchNatives \/ FetchNativesFails
         \/ FetchLogs \/ FetchLogsFails \/ SaveBlock \/ SaveBlockFails
         \/ Environment \/ UNCHANGED vars
         \/ \E e \in Tx : TakeNative(e) \/ TakeLog(e) \/ SkipLog(e)
  PROVE  IInv'
<1>1. TablesOK /\ ControlOK /\ CountsOK /\ ChainOK /\ PlaceOK /\ WorkOK
  BY TypeParts DEF IInv
<1>2. CASE Resume \/ StartAfresh
  <2>1. /\ UNCHANGED <<chainVars, ledger, blocks, todo, header, source, mixed, work>>
        /\ stage' = "idle" /\ stage = "down" /\ todo = {} /\ work = <<>>
    BY <1>1, <1>2 DEF Resume, StartAfresh, PlaceOK, Writing
  <2>2. cursor' \in Nat
    BY <1>1, <1>2, LedgerAssumption DEF Resume, StartAfresh, ControlOK
  <2>3. PlaceOK' /\ WorkOK'
    BY <2>1, NothingInHand DEF PlaceOK, InBlock, Writing
  <2>4. CountsOK'
    BY <1>1, <1>2, CountFacts DEF Resume, StartAfresh, counts, deaths
  <2>5. ControlOK' /\ ChainOK'
    BY <1>1, <2>1, <2>2 DEF ControlOK, ChainOK, chainVars, Rows
  <2> QED
    BY <2>1, <2>3, <2>4, <2>5, ControlStep
<1>3. CASE BeginBlock
  <2>1. /\ cursor \in DOMAIN canon /\ header' = canon[cursor] /\ stage' = "header"
        /\ stage = "idle" /\ todo = {} /\ work = <<>>
        /\ UNCHANGED <<chainVars, ledger, blocks, cursor, todo, source, mixed, work, counts>>
    BY <1>1, <1>3 DEF BeginBlock, PlaceOK, Writing
  <2>2. header' \in Block /\ Number[header'] = cursor
    BY <2>1, AtCursor
  <2>3. PlaceOK'
    BY <2>1, <2>2 DEF PlaceOK, InBlock, Writing, chainVars
  <2>4. ControlOK' /\ CountsOK' /\ ChainOK' /\ WorkOK'
    BY <1>1, <2>1, <2>2, CountFacts, NothingInHand DEF ControlOK, ChainOK, chainVars, Rows
  <2> QED
    BY <2>1, <2>3, <2>4, ControlStep
<1>4. CASE FetchNatives \/ FetchNativesFails
  <2>1. /\ stage = "header" /\ stage' = "natives" /\ todo = {} /\ work = <<>>
        /\ todo' \in {NativesAt(cursor), todo}
        /\ UNCHANGED <<chainVars, ledger, blocks, cursor, header, source, mixed, work>>
    BY <1>1, <1>4 DEF FetchNatives, FetchNativesFails, PlaceOK, Writing
  <2>2. todo' \subseteq Tx /\ (cursor = 0 => todo' = {})
    BY <2>1, FetchedFacts
  <2>3. PlaceOK'
    BY <1>1, <2>1, <2>2 DEF PlaceOK, InBlock, Writing, chainVars
  <2>4. CountsOK'
    BY <1>1, <1>4, CountFacts DEF FetchNatives, FetchNativesFails
  <2>5. ControlOK' /\ ChainOK' /\ WorkOK'
    BY <1>1, <2>1, <2>2, NothingInHand DEF ControlOK, ChainOK, chainVars, Rows
  <2> QED
    BY <2>1, <2>3, <2>4, <2>5, ControlStep
<1>5. CASE FetchLogs
  <2>1. /\ stage = "natives" /\ stage' = "logs" /\ work = <<>> /\ todo' = LogsAt(cursor)
        /\ source' = IF cursor \in DOMAIN canon THEN canon[cursor] ELSE header
        /\ UNCHANGED <<chainVars, ledger, blocks, cursor, header, mixed, work, counts>>
    BY <1>5 DEF FetchLogs
  <2>2. todo' \subseteq Tx /\ (cursor = 0 => todo' = {}) /\ source' \in Block
    BY <1>1, <2>1, FetchedFacts, AtCursor DEF ControlOK
  <2>3. PlaceOK'
    BY <1>1, <2>1, <2>2 DEF PlaceOK, InBlock, Writing, chainVars
  <2>4. ControlOK' /\ CountsOK' /\ ChainOK' /\ WorkOK'
    BY <1>1, <2>1, <2>2, CountFacts, NothingInHand DEF ControlOK, ChainOK, chainVars, Rows
  <2> QED
    BY <2>1, <2>3, <2>4, ControlStep
<1>6. CASE FetchLogsFails
  <2>1. /\ stage = "natives" /\ stage' = "idle" /\ work = <<>> /\ todo = {} /\ header' = Genesis
        /\ UNCHANGED <<chainVars, ledger, blocks, cursor, todo, source, mixed, work>>
    BY <1>6 DEF FetchLogsFails
  <2>2. PlaceOK' /\ WorkOK'
    BY <2>1, NothingInHand DEF PlaceOK, InBlock, Writing
  <2>3. CountsOK'
    BY <1>1, <1>6, CountFacts DEF FetchLogsFails
  <2>4. ControlOK' /\ ChainOK'
    BY <1>1, <2>1, BlockAssumption DEF ControlOK, ChainOK, chainVars, Rows
  <2> QED
    BY <2>1, <2>2, <2>3, <2>4, ControlStep
<1>7. CASE SaveBlock \/ SaveBlockFails
  <2>1. Advance /\ blocks' \in {InsertIfAbsent(blocks, cursor, header), blocks}
    BY <1>7 DEF SaveBlock, SaveBlockFails, SaveBlockRow
  <2>2. /\ stage' = "idle" /\ cursor' = cursor + 1 /\ header' = Genesis /\ source' = Genesis
        /\ work = <<>> /\ todo = {} /\ UNCHANGED <<chainVars, ledger, todo, mixed, work>>
    BY <2>1 DEF Advance
  <2>3. Rows(Block, blocks') /\ DOMAIN blocks' \subseteq Nat
    <3>1. Rows(Block, blocks) /\ DOMAIN blocks \subseteq Nat /\ header \in Block /\ cursor \in Nat
      BY <1>1 DEF ControlOK
    <3>2. /\ Rows(Block, InsertIfAbsent(blocks, cursor, header))
          /\ DOMAIN InsertIfAbsent(blocks, cursor, header) = DOMAIN blocks \cup {cursor}
      BY <3>1, InsertedRows, InsertedKeys
    <3> QED
      BY <2>1, <3>1, <3>2
  <2>4. PlaceOK' /\ WorkOK'
    BY <2>2, NothingInHand DEF PlaceOK, InBlock, Writing
  <2>5. CountsOK'
    BY <1>1, <1>7, CountFacts DEF SaveBlock, SaveBlockFails
  <2>6. ControlOK' /\ ChainOK'
    BY <1>1, <2>2, <2>3, BlockAssumption DEF ControlOK, ChainOK, chainVars
  <2> QED
    BY <2>2, <2>4, <2>5, <2>6, ControlStep
<1>8. CASE Environment
  <2>1. /\ UNCHANGED <<ledger, blocks, stage, cursor, todo, header, source, work, counts>>
        /\ canon' \in Chains /\ reorgs' \in {reorgs, reorgs + 1}
        /\ mixed' = IF InBlock /\ Replaced THEN mixed \cup {cursor} ELSE mixed
    BY <1>8 DEF Environment, ChainNext, Grow, Reorg
  <2>2. mixed \subseteq mixed' /\ mixed' \subseteq mixed \cup {cursor}
    BY <2>1
  <2>3. InBlock /\ cursor \notin mixed' => cursor \in DOMAIN canon' /\ canon'[cursor] = header
    BY <2>1 DEF Replaced
  <2>4. PlaceOK'
    BY <1>1, <2>1, <2>2, <2>3 DEF PlaceOK, InBlock, Writing
  <2>5. WorkOK'
    BY <1>1, <2>1, <2>2 DEF WorkOK, Ahead, Named
  <2>6. ControlOK' /\ CountsOK' /\ ChainOK'
    BY <1>1, <2>1, <2>2, CountFacts DEF ControlOK, ChainOK, Rows
  <2> QED
    BY <2>1, <2>4, <2>5, <2>6, ControlStep
<1>9. ASSUME NEW e \in Tx, TakeNative(e) \/ TakeLog(e)
      PROVE  IInv'
  <2>1. /\ stage \in {"natives", "logs"} /\ work = <<>> /\ e \in todo /\ todo' = todo \ {e}
        /\ UNCHANGED <<chainVars, ledger, blocks, stage, cursor, header, source, mixed, counts>>
    BY <1>9, NextLogFacts DEF TakeNative, TakeLog
  <2>2. /\ InBlock /\ cursor # 0 /\ Number[header] = cursor /\ header \in Block /\ source \in Block
        /\ (cursor \notin mixed => cursor \in DOMAIN canon /\ canon[cursor] = header)
    BY <1>1, <2>1 DEF PlaceOK, ControlOK, InBlock
  <2>3. ControlOK' /\ CountsOK' /\ ChainOK' /\ PlaceOK'
    BY <1>1, <2>1, <2>2, CountFacts DEF ControlOK, ChainOK, PlaceOK, InBlock, Writing, chainVars, Rows
  <2>4. ASSUME NEW info \in Block, NEW logged \in Block, work' = Work(e, info, logged),
               Number[info] = cursor, cursor \notin mixed => info = header
        PROVE  WorkOK'
    <3>1. /\ work' \in Seq(Statement) /\ EndsInSave(work')
          /\ \A i \in DOMAIN work' : work'[i].do \in {"deposit", "withdraw"} => work'[i].block = info
      BY <2>4, WorkFacts
    <3>2. \A s \in Ahead' : Named(s)'
      BY <2>1, <2>4, <3>1 DEF Ahead, Named
    <3>3. EndsInSave(work)'
      BY <3>1 DEF EndsInSave
    <3> QED
      BY <3>1, <3>2, <3>3 DEF WorkOK
  <2>5. WorkOK'
    <3>1. CASE TakeNative(e)
      BY <2>2, <2>4, <3>1 DEF TakeNative
    <3>2. CASE TakeLog(e) /\ cursor \in DOMAIN canon /\ work' = Work(e, canon[cursor], source)
      BY <2>2, <2>4, <3>2, AtCursor
    <3>3. TakeLog(e) => work' = <<>> \/ (cursor \in DOMAIN canon /\ work' = Work(e, canon[cursor], source))
      BY DEF TakeLog, When
    <3> QED
      BY <1>9, <3>1, <3>2, <3>3, NothingInHand
  <2> QED
    BY <2>1, <2>3, <2>5, ControlStep
<1>10. ASSUME NEW e \in Tx, SkipLog(e)
       PROVE  IInv'
  <2>1. /\ stage = "logs" /\ e \in todo /\ todo' = todo \ {e} /\ work = <<>>
        /\ UNCHANGED <<chainVars, ledger, blocks, stage, cursor, header, source, mixed, work>>
    BY <1>10, NextLogFacts DEF SkipLog
  <2>2. CountsOK'
    BY <1>1, <1>10, CountFacts DEF SkipLog
  <2>3. ControlOK' /\ ChainOK' /\ PlaceOK' /\ WorkOK'
    BY <1>1, <2>1, NothingInHand DEF ControlOK, ChainOK, PlaceOK, InBlock, Writing, chainVars, Rows
  <2> QED
    BY <2>1, <2>2, <2>3, ControlStep
<1>11. CASE UNCHANGED vars
  <2>1. ControlOK' /\ CountsOK' /\ ChainOK' /\ PlaceOK' /\ WorkOK'
    BY <1>1, <1>11, CountFacts
    DEF vars, control, chainVars, ControlOK, ChainOK, PlaceOK, InBlock, Writing, WorkOK, Ahead,
        Named, EndsInSave, Rows
  <2> QED
    BY <1>11, <2>1, ControlStep DEF vars
<1> QED
  BY <1>2, <1>3, <1>4, <1>5, <1>6, <1>7, <1>8, <1>9, <1>10, <1>11

\* A statement leaves the scan alone and takes itself off the list.
LEMMA StatementStep ==
  ASSUME IInv, work # <<>>, UNCHANGED <<chainVars, control>>,
         \/ work' = Tail(work)
         \/ Head(work).do \in {"deposit", "withdraw"} /\ work' = Tail(Tail(work)),
         TablesOK', CountsOK'
  PROVE  IInv'
<1>1. UNCHANGED <<chainVars, blocks, stage, cursor, todo, header, source, mixed>>
  BY DEF control
<1>2. ControlOK' /\ ChainOK'
  BY <1>1, TypeParts DEF IInv, ControlOK, ChainOK, chainVars, Rows
<1>3. PlaceOK'
  BY <1>1, HeadOfWork DEF IInv, PlaceOK, InBlock, Writing, chainVars
<1>4. WorkOK'
  <2>1. work' \in Seq(Statement) /\ EndsInSave(work')
    BY HeadOfWork
  <2>2. Ahead' \subseteq Ahead
    BY HeadOfWork, AheadFacts DEF IInv
  <2>3. \A s \in Ahead : Named(s)
    BY DEF IInv, WorkOK
  <2>4. \A s \in Ahead' : Named(s)'
    BY <1>1, <2>2, <2>3 DEF Named
  <2>5. EndsInSave(work)'
    BY <2>1 DEF EndsInSave
  <2> QED
    BY <2>1, <2>4, <2>5 DEF WorkOK
<1> QED
  BY <1>2, <1>3, <1>4, TypeParts DEF IInv

LEMMA StatementInvariant ==
  ASSUME IInv,
         \/ Record \/ UpdateBalance \/ RecordTransaction \/ RecordEvent \/ StatementFails
         \/ Crash \/ Panics
  PROVE  IInv'
<1>1. TablesOK /\ ControlOK /\ CountsOK /\ ChainOK /\ PlaceOK /\ WorkOK
  BY TypeParts DEF IInv
<1>2. cursor \in DOMAIN canon => canon[cursor] \in Block
  BY AtCursor
<1>3. CASE Record
  <2> DEFINE s == Head(work)
             row == [block |-> s.block, to |-> s.to]
  <2>1. /\ work # <<>> /\ work' = Tail(work) /\ s.do \in {"deposit", "withdraw"}
        /\ \/ deposits' = InsertIfAbsent(deposits, s.key, row) /\ UNCHANGED withdraws
           \/ withdraws' = InsertIfAbsent(withdraws, s.key, row) /\ UNCHANGED deposits
        /\ UNCHANGED <<chainVars, history, balances, txs, events, control, counts>>
    BY <1>3 DEF Record, Doing
  <2>2. row \in MovementRow
    BY <2>1, HeadOfWork DEF Movements, MovementRow
  <2> HIDE DEF row
  <2>3. Rows(MovementRow, deposits') /\ Rows(MovementRow, withdraws')
    <3>1. CASE deposits' = InsertIfAbsent(deposits, s.key, row) /\ UNCHANGED withdraws
      <4>1. Rows(MovementRow, deposits) /\ Rows(MovementRow, withdraws)
        BY <1>1 DEF TablesOK
      <4>2. \A key : \A r \in MovementRow : Rows(MovementRow, InsertIfAbsent(deposits, key, r))
        BY <4>1, InsertedRows
      <4> QED
        BY <2>2, <3>1, <4>1, <4>2
    <3>2. CASE withdraws' = InsertIfAbsent(withdraws, s.key, row) /\ UNCHANGED deposits
      <4>1. Rows(MovementRow, deposits) /\ Rows(MovementRow, withdraws)
        BY <1>1 DEF TablesOK
      <4>2. \A key : \A r \in MovementRow : Rows(MovementRow, InsertIfAbsent(withdraws, key, r))
        BY <4>1, InsertedRows
      <4> QED
        BY <2>2, <3>2, <4>1, <4>2
    <3> QED
      BY <2>1, <3>1, <3>2
  <2>4. TablesOK' /\ CountsOK'
    BY <1>1, <2>1, <2>3, CountFacts DEF TablesOK, Rows
  <2> QED
    BY <2>1, <2>4, StatementStep
<1>4. CASE UpdateBalance
  <2> DEFINE s == Head(work)
             key == <<s.key[1], s.key[2], s.tx>>
             value == BalanceAt(s.key[1], s.key[2], cursor)
  <2>1. /\ work # <<>> /\ work' = Tail(work)
        /\ UNCHANGED <<chainVars, deposits, withdraws, txs, events, control, counts>>
    BY <1>4 DEF UpdateBalance, SetBalance, Doing
  <2>2. value \in SUBSET Tx
    BY DEF BalanceAt
  <2>3. \/ UNCHANGED <<history, balances>>
        \/ /\ cursor \in DOMAIN canon
           /\ history' = InsertIfAbsent(history, key, [block |-> canon[cursor], after |-> value])
           /\ balances' = [k \in DOMAIN balances \cup {s.key} |->
                             IF k = s.key THEN [block |-> canon[cursor], value |-> value]
                             ELSE balances[k]]
    BY <1>4 DEF UpdateBalance, SetBalance
  <2> HIDE DEF value, key
  <2>4. cursor \in DOMAIN canon =>
        /\ [block |-> canon[cursor], after |-> value] \in HistoryRow
        /\ [block |-> canon[cursor], value |-> value] \in BalanceRow
    BY <1>2, <2>1, <2>2 DEF HistoryRow, BalanceRow
  <2>5. Rows(HistoryRow, history')
    <3>1. Rows(HistoryRow, history)
      BY <1>1 DEF TablesOK
    <3>2. \A k : \A r \in HistoryRow : Rows(HistoryRow, InsertIfAbsent(history, k, r))
      BY <3>1, InsertedRows
    <3> QED
      BY <2>3, <2>4, <3>1, <3>2 DEF Rows
  <2>6. Rows(BalanceRow, balances')
    BY <1>1, <2>3, <2>4 DEF TablesOK, Rows
  <2>7. TablesOK' /\ CountsOK'
    BY <1>1, <2>1, <2>5, <2>6, CountFacts DEF TablesOK, Rows
  <2> QED
    BY <2>1, <2>7, StatementStep
<1>5. CASE RecordTransaction \/ RecordEvent
  <2>1. /\ work # <<>> /\ work' = Tail(work)
        /\ UNCHANGED <<chainVars, deposits, withdraws, history, balances, control, counts>>
    BY <1>5 DEF RecordTransaction, RecordEvent, Doing
  <2>2. CASE RecordTransaction
    <3>1. [block |-> Head(work).block, live |-> TRUE] \in TransactionRow
      BY <2>1, <2>2, HeadOfWork DEF RecordTransaction, Doing, Transactions, TransactionRow
    <3>2. Rows(TransactionRow, txs') /\ UNCHANGED events
      <4>1. Rows(TransactionRow, txs)
        BY <1>1 DEF TablesOK
      <4>2. /\ txs' = InsertIfAbsent(txs, Head(work).key, [block |-> Head(work).block, live |-> TRUE])
            /\ UNCHANGED events
        BY <2>2 DEF RecordTransaction
      <4>3. \A key : \A row \in TransactionRow : Rows(TransactionRow, InsertIfAbsent(txs, key, row))
        BY <4>1, InsertedRows
      <4> QED
        BY <3>1, <4>2, <4>3
    <3>3. TablesOK'
      BY <1>1, <2>1, <3>2 DEF TablesOK, Rows
    <3> QED
      BY <1>1, <2>1, <3>3, CountFacts, StatementStep
  <2>3. CASE RecordEvent
    <3>1. Head(work) \in Events
      BY <2>1, <2>3, HeadOfWork DEF RecordEvent, Doing
    <3>2. [entry |-> Head(work).entry, block |-> Head(work).block, live |-> TRUE] \in LedgerEvent
      BY <3>1 DEF LedgerEvent, Events
    <3>3. Rows(LedgerEvent, events') /\ UNCHANGED txs
      <4>1. Rows(LedgerEvent, events)
        BY <1>1 DEF TablesOK
      <4>2. /\ events' = InsertIfAbsent(events, Head(work).key,
                         [entry |-> Head(work).entry, block |-> Head(work).block, live |-> TRUE])
            /\ UNCHANGED txs
        BY <2>3 DEF RecordEvent
      <4>3. \A key : \A row \in LedgerEvent : Rows(LedgerEvent, InsertIfAbsent(events, key, row))
        BY <4>1, InsertedRows
      <4> QED
        BY <3>2, <4>2, <4>3
    <3>4. TablesOK'
      BY <1>1, <2>1, <3>3 DEF TablesOK, Rows
    <3> QED
      BY <1>1, <2>1, <3>4, CountFacts, StatementStep
  <2> QED
    BY <1>5, <2>2, <2>3
<1>6. CASE StatementFails
  <2>1. /\ work # <<>> /\ UNCHANGED <<chainVars, ledger, control, faults, deaths>> /\ Swallowed
        /\ \/ work' = Tail(work)
           \/ Head(work).do \in {"deposit", "withdraw"} /\ work' = Tail(Tail(work))
    BY <1>6 DEF StatementFails
  <2>2. TablesOK' /\ CountsOK'
    BY <1>1, <2>1, CountFacts DEF TablesOK, Rows, ledger
  <2> QED
    BY <2>1, <2>2, StatementStep
<1>7. CASE Crash \/ Panics
  <2>1. /\ stage' = "down" /\ cursor' = 0 /\ todo' = {} /\ work' = <<>>
        /\ header' = Genesis /\ source' = Genesis
        /\ UNCHANGED <<chainVars, ledger, blocks, mixed, faults, swallowed>>
    BY <1>7 DEF Crash, Panics, Die
  <2>2. CountsOK'
    <3>1. restarts' \in 0..MaxRestarts
      BY <1>1, <1>7, LedgerAssumption DEF Crash, Panics, CountsOK
    <3>2. panicked' \in BOOLEAN
      BY <1>1, <1>7 DEF Crash, Panics, CountsOK
    <3> QED
      BY <1>1, <2>1, <3>1, <3>2 DEF CountsOK
  <2>3. WorkOK'
    BY <2>1, NothingInHand
  <2>4. ControlOK' /\ ChainOK' /\ PlaceOK'
    BY <1>1, <2>1, BlockAssumption DEF ControlOK, ChainOK, PlaceOK, InBlock, Writing, chainVars, Rows
  <2> QED
    BY <2>1, <2>2, <2>3, <2>4, ControlStep
<1> QED
  BY <1>3, <1>4, <1>5, <1>6, <1>7

LEMMA Invariant == Spec => []IInv
<1>1. IInv /\ [Next]_vars => IInv'
  BY ScanInvariant, RollbackInvariant, StatementInvariant DEF Next, Scanning, Failing
<1> QED
  BY <1>1, InitInvariant, PTL DEF Spec

\* Every table and every local has its type, for all trees, entries and bounds.
THEOREM TypeCorrect == Spec => []TypeOK
<1>1. IInv => TypeOK
  BY DEF IInv
<1> QED
  BY <1>1, Invariant, PTL

------------------------------------------------------------------------------
(* Rows of blocks that are gone.  As long as no block is left half written, every *)
(* row is of the height in hand or of one below it, and where the branch was not  *)
(* replaced while the height was written it is of the header; a rollback deletes  *)
(* rows and blocks alike, and takes place between two blocks only.                *)

Quiet == faults = 0 /\ restarts = 0 /\ ~panicked

InPlace(table) ==
  \A k \in DOMAIN table :
    LET b == table[k].block
        n == Number[b]
    IN IF n = cursor
       THEN InBlock /\ (n \notin mixed => b = header)
       ELSE n < cursor /\ (n \in DOMAIN blocks \ mixed => b = blocks[n])

AllInPlace == InPlace(deposits) /\ InPlace(withdraws) /\ InPlace(history)

\* The stored blocks are below the height in hand, the replaced ones not above it.
Behind ==
  /\ \A n \in DOMAIN blocks : n < cursor
  /\ \A n \in mixed : n < cursor \/ (n = cursor /\ InBlock)

NothingWritten ==
  deposits = Empty /\ withdraws = Empty /\ history = Empty /\ blocks = Empty /\ mixed = {}

QuietInv == Quiet => IF stage = "down" THEN NothingWritten ELSE AllInPlace /\ Behind

\* Where nothing is written everything is in place.
LEMMA NothingInPlace ==
  /\ NothingWritten => AllInPlace /\ Behind
  /\ NothingWritten' => AllInPlace' /\ Behind'
  BY DEF NothingWritten, Empty, AllInPlace, InPlace, Behind

\* A step that writes nothing, and leaves the block in hand where it was or takes one up.
LEMMA QuietUnwritten ==
  ASSUME QuietInv, UNCHANGED <<ledger, blocks, mixed>>, Quiet' => Quiet,
         stage' # "down" \/ (stage' = stage),
         stage = "down" \/ (cursor' = cursor /\ (InBlock => InBlock' /\ header' = header)),
         IInv
  PROVE  QuietInv'
<1> SUFFICES ASSUME Quiet'
             PROVE  IF stage' = "down" THEN NothingWritten' ELSE AllInPlace' /\ Behind'
  BY DEF QuietInv
<1>1. IF stage = "down" THEN NothingWritten ELSE AllInPlace /\ Behind
  BY DEF QuietInv
<1>2. UNCHANGED <<deposits, withdraws, history, blocks, mixed>>
  BY DEF ledger
<1>3. CASE stage = "down"
  <2>1. NothingWritten'
    BY <1>1, <1>2, <1>3 DEF NothingWritten
  <2> QED
    BY <2>1, NothingInPlace
<1>4. CASE stage # "down"
  <2>1. ASSUME NEW table, InPlace(table), table' = table
        PROVE  InPlace(table)'
    BY <1>2, <1>4, <2>1 DEF InPlace
  <2>2. AllInPlace'
    BY <1>1, <1>2, <1>4 DEF AllInPlace, InPlace
  <2>3. Behind'
    BY <1>1, <1>2, <1>4 DEF Behind
  <2> QED
    BY <1>4, <2>2, <2>3
<1> QED
  BY <1>3, <1>4

LEMMA QuietScan ==
  ASSUME IInv, QuietInv,
         \/ Resume \/ StartAfresh \/ BeginBlock \/ FetchNatives \/ FetchNativesFails \/ FetchLogs
         \/ FetchLogsFails \/ Crash \/ Panics \/ RecordTransaction \/ RecordEvent \/ StatementFails
         \/ UNCHANGED vars
         \/ \E e \in Tx : TakeNative(e) \/ TakeLog(e) \/ SkipLog(e)
  PROVE  QuietInv'
<1>1. CASE Resume \/ StartAfresh \/ BeginBlock \/ FetchNatives \/ FetchNativesFails \/ FetchLogs
  <2>1. /\ UNCHANGED <<ledger, blocks, mixed, faults, deaths>> /\ stage' # "down"
        /\ stage = "down" \/ (cursor' = cursor /\ (InBlock => InBlock' /\ header' = header))
    BY <1>1
    DEF Resume, StartAfresh, BeginBlock, FetchNatives, FetchNativesFails, FetchLogs, InBlock, counts
  <2> QED
    BY <2>1, QuietUnwritten DEF Quiet, deaths
<1>2. CASE UNCHANGED vars \/ StatementFails \/ \E e \in Tx : TakeNative(e) \/ TakeLog(e) \/ SkipLog(e)
  <2>1. UNCHANGED <<ledger, blocks, mixed, stage, cursor, header, faults, deaths>>
    BY <1>2 DEF StatementFails, TakeNative, TakeLog, SkipLog, NextLog, vars, control, counts
  <2>2. UNCHANGED InBlock
    BY <2>1 DEF InBlock
  <2> QED
    BY <2>1, <2>2, QuietUnwritten DEF Quiet, deaths
<1>3. CASE FetchLogsFails \/ Crash \/ Panics
  <2>1. ~Quiet'
    BY <1>3, TypeParts DEF FetchLogsFails, Fault, Crash, Panics, Quiet, IInv, CountsOK
  <2> QED
    BY <2>1 DEF QuietInv
<1>4. CASE RecordTransaction \/ RecordEvent
  <2>1. UNCHANGED <<deposits, withdraws, history, control, counts>>
    BY <1>4 DEF RecordTransaction, RecordEvent
  <2>2. UNCHANGED <<AllInPlace, Behind, NothingWritten, Quiet, stage>>
    BY <2>1 DEF AllInPlace, InPlace, Behind, NothingWritten, Quiet, InBlock, control, counts, deaths
  <2> QED
    BY <2>2 DEF QuietInv
<1> QED
  BY <1>1, <1>2, <1>3, <1>4

\* A row of the height in hand is in place: of the header, unless that was replaced.
LEMMA InsertInPlace ==
  ASSUME NEW table, InPlace(table), InBlock, NEW key, NEW row,
         Number[row.block] = cursor, cursor \notin mixed => row.block = header
  PROVE  InPlace(InsertIfAbsent(table, key, row))
<1> DEFINE after == InsertIfAbsent(table, key, row)
<1> SUFFICES ASSUME NEW k \in DOMAIN after
             PROVE  LET b == after[k].block
                        n == Number[b]
                    IN IF n = cursor
                       THEN InBlock /\ (n \notin mixed => b = header)
                       ELSE n < cursor /\ (n \in DOMAIN blocks \ mixed => b = blocks[n])
  BY DEF InPlace
<1>1. \/ k \in DOMAIN table /\ after[k] = table[k]
      \/ after[k] = row
  BY DEF InsertIfAbsent
<1> HIDE DEF after
<1>2. CASE k \in DOMAIN table /\ after[k] = table[k]
  BY <1>2 DEF InPlace
<1>3. CASE after[k] = row
  BY <1>3
<1> QED
  BY <1>1, <1>2, <1>3

LEMMA QuietWrite ==
  ASSUME IInv, QuietInv,
         Rollback \/ SaveBlock \/ SaveBlockFails \/ Record \/ UpdateBalance \/ Environment
  PROVE  QuietInv'
<1> SUFFICES ASSUME Quiet'
             PROVE  IF stage' = "down" THEN NothingWritten' ELSE AllInPlace' /\ Behind'
  BY DEF QuietInv
<1>1. UNCHANGED <<faults, deaths>>
  BY DEF Rollback, RollBackTo, SaveBlock, SaveBlockFails, Record, UpdateBalance, SetBalance,
     Environment, counts
<1>2. IF stage = "down" THEN NothingWritten ELSE AllInPlace /\ Behind
  BY <1>1 DEF Quiet, QuietInv, deaths
<1>3. ControlOK /\ TablesOK /\ PlaceOK
  BY TypeParts DEF IInv
<1>4. CASE Rollback
  <2>1. PICK target \in Nat : target < cursor /\ RollBackTo(target) /\ cursor' = target + 1
    BY <1>4, RollbackFacts
  <2>2. /\ stage = "idle" /\ stage' = stage /\ DeleteAbove(target)
        /\ mixed' = {n \in mixed : n <= target}
    BY <2>1 DEF RollBackTo
  <2>3. /\ deposits' = Below(deposits, target) /\ withdraws' = Below(withdraws, target)
        /\ history' = Below(history, target) /\ blocks' = RollbackBlockRows(blocks, target)
    BY <2>2 DEF DeleteAbove
  <2>4. AllInPlace /\ Behind
    BY <1>2, <2>2
  <2>5. ASSUME NEW R, NEW table, Rows(R, table), \A row \in R : Number[row.block] \in Nat, InPlace(table),
               NEW k \in DOMAIN Below(table, target)
        PROVE  LET b == Below(table, target)[k].block
                   n == Number[b]
               IN n < cursor' /\ (n \in DOMAIN blocks' \ mixed' => b = blocks'[n])
    <3>1. /\ k \in DOMAIN table /\ Below(table, target)[k] = table[k]
          /\ Number[table[k].block] <= target
      BY <2>5 DEF Below
    <3>2. Number[table[k].block] \in Nat
      BY <2>5, <3>1 DEF Rows
    <3>3. Number[table[k].block] < cursor' /\ Number[table[k].block] # cursor
      BY <2>1, <3>1, <3>2, <1>3 DEF ControlOK
    <3>4. Number[table[k].block] \in DOMAIN blocks \ mixed => table[k].block = blocks[Number[table[k].block]]
      BY <2>5, <3>1, <3>3 DEF InPlace
    <3>5. \A n \in DOMAIN blocks' \ mixed' : n \in DOMAIN blocks \ mixed /\ blocks'[n] = blocks[n]
      BY <2>2, <2>3 DEF RollbackBlockRows
    <3> QED
      BY <3>1, <3>3, <3>4, <3>5
  <2>6. \A row \in MovementRow \cup HistoryRow : Number[row.block] \in Nat
    BY BlockAssumption DEF MovementRow, HistoryRow
  <2>7. ~InBlock'
    BY <2>2 DEF InBlock
  <2>8. AllInPlace'
    <3>1. /\ \A k \in DOMAIN deposits' :
               LET n == Number[deposits'[k].block]
               IN n < cursor' /\ (n \in DOMAIN blocks' \ mixed' => deposits'[k].block = blocks'[n])
          /\ \A k \in DOMAIN withdraws' :
               LET n == Number[withdraws'[k].block]
               IN n < cursor' /\ (n \in DOMAIN blocks' \ mixed' => withdraws'[k].block = blocks'[n])
      BY <1>3, <2>3, <2>4, <2>5, <2>6 DEF AllInPlace, TablesOK
    <3>2. \A k \in DOMAIN history' :
            LET n == Number[history'[k].block]
            IN n < cursor' /\ (n \in DOMAIN blocks' \ mixed' => history'[k].block = blocks'[n])
      BY <1>3, <2>3, <2>4, <2>5, <2>6 DEF AllInPlace, TablesOK
    <3>3. cursor' \in Nat
      BY <2>1
    <3> QED
      BY <3>1, <3>2, <3>3 DEF AllInPlace, InPlace
  <2>9. Behind'
    BY <1>3, <2>1, <2>2, <2>3, <2>7 DEF Behind, RollbackBlockRows, ControlOK
  <2> QED
    BY <2>2, <2>8, <2>9
<1>5. CASE SaveBlock \/ SaveBlockFails
  <2>1. Advance /\ blocks' \in {InsertIfAbsent(blocks, cursor, header), blocks}
    BY <1>5 DEF SaveBlock, SaveBlockFails, SaveBlockRow
  <2>2. /\ stage = "logs" /\ stage' = "idle" /\ cursor' = cursor + 1 /\ UNCHANGED <<ledger, mixed>>
        /\ InBlock
    BY <2>1 DEF Advance, InBlock
  <2>3. AllInPlace /\ Behind /\ cursor \notin DOMAIN blocks
    BY <1>2, <1>3, <2>2 DEF Behind, ControlOK
  <2>4. \A n \in DOMAIN blocks' : IF n = cursor THEN blocks'[n] = header ELSE n \in DOMAIN blocks /\ blocks'[n] = blocks[n]
    BY <2>1, <2>3 DEF InsertIfAbsent
  <2>5. ASSUME NEW R, NEW table, Rows(R, table), \A row \in R : Number[row.block] \in Nat, InPlace(table),
               NEW k \in DOMAIN table
        PROVE  LET n == Number[table[k].block]
               IN n < cursor' /\ n # cursor' /\ (n \in DOMAIN blocks' \ mixed' => table[k].block = blocks'[n])
    <3> DEFINE n == Number[table[k].block]
    <3>1. n \in Nat /\ cursor \in Nat
      BY <1>3, <2>5 DEF Rows, ControlOK
    <3>2. CASE n = cursor
      <4>1. n \notin mixed => table[k].block = header
        BY <2>5, <3>2 DEF InPlace
      <4> QED
        BY <2>2, <2>4, <3>1, <3>2, <4>1
    <3>3. CASE n # cursor
      <4>1. n < cursor /\ (n \in DOMAIN blocks \ mixed => table[k].block = blocks[n])
        BY <2>5, <3>3 DEF InPlace
      <4> QED
        BY <2>2, <2>4, <3>1, <3>3, <4>1
    <3> QED
      BY <3>2, <3>3
  <2>6. \A row \in MovementRow \cup HistoryRow : Number[row.block] \in Nat
    BY BlockAssumption DEF MovementRow, HistoryRow
  <2>7. AllInPlace'
    <3>1. UNCHANGED <<deposits, withdraws, history>>
      BY <2>2 DEF ledger
    <3>2. \A k \in DOMAIN deposits :
            LET n == Number[deposits[k].block]
            IN n < cursor' /\ n # cursor' /\ (n \in DOMAIN blocks' \ mixed' => deposits[k].block = blocks'[n])
      BY <1>3, <2>3, <2>5, <2>6 DEF AllInPlace, TablesOK
    <3>3. \A k \in DOMAIN withdraws :
            LET n == Number[withdraws[k].block]
            IN n < cursor' /\ n # cursor' /\ (n \in DOMAIN blocks' \ mixed' => withdraws[k].block = blocks'[n])
      BY <1>3, <2>3, <2>5, <2>6 DEF AllInPlace, TablesOK
    <3>4. \A k \in DOMAIN history :
            LET n == Number[history[k].block]
            IN n < cursor' /\ n # cursor' /\ (n \in DOMAIN blocks' \ mixed' => history[k].block = blocks'[n])
      BY <1>3, <2>3, <2>5, <2>6 DEF AllInPlace, TablesOK
    <3> QED
      BY <3>1, <3>2, <3>3, <3>4 DEF AllInPlace, InPlace
  <2>8. Behind'
    <3>1. \A n \in DOMAIN blocks' : n < cursor'
      BY <1>3, <2>2, <2>3, <2>4 DEF Behind, ControlOK
    <3>2. \A n \in mixed' : n < cursor'
      BY <1>3, <2>2, <2>3 DEF Behind, ControlOK
    <3> QED
      BY <3>1, <3>2 DEF Behind
  <2> QED
    BY <2>2, <2>7, <2>8
<1>6. CASE Record \/ UpdateBalance
  <2>1. /\ work # <<>> /\ UNCHANGED <<chainVars, control>>
    BY <1>6 DEF Record, UpdateBalance, SetBalance, Doing
  <2>2. InBlock /\ stage # "down" /\ UNCHANGED <<blocks, stage, cursor, header, mixed>>
    BY <2>1, HeadOfWork DEF InBlock, control
  <2>3. UNCHANGED InBlock
    BY <2>2 DEF InBlock
  <2>4. AllInPlace /\ Behind /\ Behind'
    BY <1>2, <2>2, <2>3 DEF Behind
  <2>5. CASE Record
    <3> DEFINE row == [block |-> Head(work).block, to |-> Head(work).to]
    <3>1. /\ history' = history
          /\ \/ deposits' = InsertIfAbsent(deposits, Head(work).key, row) /\ withdraws' = withdraws
             \/ withdraws' = InsertIfAbsent(withdraws, Head(work).key, row) /\ deposits' = deposits
      BY <2>5 DEF Record
    <3>2. Number[row.block] = cursor /\ (cursor \notin mixed => row.block = header)
      BY <2>1, <2>5, HeadOfWork DEF Record, Doing, Named
    <3> HIDE DEF row
    <3>3. /\ InPlace(InsertIfAbsent(deposits, Head(work).key, row))
          /\ InPlace(InsertIfAbsent(withdraws, Head(work).key, row))
      BY <2>2, <2>4, <3>2, InsertInPlace DEF AllInPlace
    <3>4. AllInPlace'
      BY <2>2, <2>3, <2>4, <3>1, <3>3 DEF AllInPlace, InPlace
    <3> QED
      BY <2>2, <2>4, <3>4
  <2>6. CASE UpdateBalance
    <3>1. /\ deposits' = deposits /\ withdraws' = withdraws
          /\ \/ history' = history
             \/ /\ cursor \in DOMAIN canon
                /\ \E key, value : history' = InsertIfAbsent(history, key,
                                                [block |-> canon[cursor], after |-> value])
      BY <2>6 DEF UpdateBalance, SetBalance
    <3>2. InPlace(history) /\ InPlace(deposits) /\ InPlace(withdraws)
      BY <2>4 DEF AllInPlace
    <3>3. CASE history' = history
      BY <2>2, <2>3, <2>4, <3>1, <3>2, <3>3 DEF AllInPlace, InPlace
    <3>4. ASSUME cursor \in DOMAIN canon, NEW key, NEW value,
                 history' = InsertIfAbsent(history, key, [block |-> canon[cursor], after |-> value])
          PROVE  AllInPlace'
      <4> DEFINE row == [block |-> canon[cursor], after |-> value]
      <4>1. Number[row.block] = cursor /\ (cursor \notin mixed => row.block = header)
        BY <1>3, <2>2, <3>4, AtCursor DEF PlaceOK
      <4>2. history' = InsertIfAbsent(history, key, row)
        BY <3>4
      <4> HIDE DEF row
      <4>3. InPlace(InsertIfAbsent(history, key, row))
        BY <2>2, <3>2, <4>1, InsertInPlace
      <4> QED
        BY <2>2, <2>3, <3>1, <3>2, <4>2, <4>3 DEF AllInPlace, InPlace
    <3> QED
      BY <2>2, <2>4, <3>1, <3>3, <3>4
  <2> QED
    BY <1>6, <2>5, <2>6
<1>7. CASE Environment
  <2>1. /\ UNCHANGED <<ledger, blocks, stage, cursor, header>>
        /\ mixed' = IF InBlock /\ Replaced THEN mixed \cup {cursor} ELSE mixed
    BY <1>7 DEF Environment
  <2>2. UNCHANGED <<deposits, withdraws, history, InBlock>>
    BY <2>1 DEF ledger, InBlock
  <2>3. CASE stage = "down"
    BY <1>2, <2>1, <2>2, <2>3 DEF NothingWritten, InBlock
  <2>4. CASE stage # "down"
    <3>1. AllInPlace /\ Behind /\ mixed \subseteq mixed'
      BY <1>2, <2>1, <2>4
    <3>2. AllInPlace'
      BY <2>1, <2>2, <3>1 DEF AllInPlace, InPlace
    <3>3. Behind'
      BY <2>1, <2>2, <3>1 DEF Behind
    <3> QED
      BY <2>1, <2>4, <3>2, <3>3
  <2> QED
    BY <2>3, <2>4
<1> QED
  BY <1>4, <1>5, <1>6, <1>7

\* Every set of numbers with an element has a least one.
Less == OpToRel(<, Nat)

LEMMA LeastElement ==
  ASSUME NEW S, S \subseteq Nat, S # {}
  PROVE  \E x \in S : \A y \in S : x <= y
<1>1. IsWellFoundedOn(Less, Nat)
  BY NatLessThanWellFounded DEF Less
<1>2. \A x, y \in Nat : x < y => <<x, y>> \in Less
  <2> SUFFICES ASSUME NEW x \in Nat, NEW y \in Nat, x < y
               PROVE  <<x, y>> \in Less
    OBVIOUS
  <2>1. <<x, y>> \in Nat \X Nat /\ <<x, y>>[1] = x /\ <<x, y>>[2] = y
    OBVIOUS
  <2> QED
    BY <2>1 DEF Less, OpToRel
<1>3. PICK x \in S : \A y \in S : ~(<<y, x>> \in Less)
  BY <1>1, WFMin
<1>4. ASSUME NEW y \in S
      PROVE  x <= y
  <2>1. x \in Nat /\ y \in Nat
    OBVIOUS
  <2>2. ~(y < x)
    BY <1>2, <1>3, <2>1
  <2> QED
    BY <2>1, <2>2
<1> QED
  BY <1>4

\* Two chains that share a block share every block below it.
LEMMA SameBelow ==
  ASSUME NEW c \in Chains, NEW d \in Chains, NEW m \in DOMAIN c \cap DOMAIN d, c[m] = d[m]
  PROVE  \A k \in 0..m : c[k] = d[k]
<1>1. PICK h \in Nat : DOMAIN c = 0..h /\ \A n \in 1..h : Parent[c[n]] = c[n-1]
  BY CanonFacts
<1>2. PICK g \in Nat : DOMAIN d = 0..g /\ \A n \in 1..g : Parent[d[n]] = d[n-1]
  BY CanonFacts
<1>3. m \in Nat /\ m <= h /\ m <= g
  BY <1>1, <1>2
<1> DEFINE S == {j \in 0..m : c[m - j] # d[m - j]}
<1>4. ASSUME S # {}
      PROVE  FALSE
  <2>1. PICK j \in S : \A i \in S : j <= i
    <3>1. S \subseteq Nat
      BY <1>3
    <3> HIDE DEF S
    <3> QED
      BY <1>4, <3>1, LeastElement
  <2>2. j \in 0..m /\ c[m - j] # d[m - j] /\ j # 0
    BY <1>3
  <2>3. j - 1 \in 0..m /\ j - 1 \notin S /\ m - (j - 1) = (m - j) + 1
    BY <1>3, <2>1, <2>2
  <2>4. c[(m - j) + 1] = d[(m - j) + 1]
    BY <2>3
  <2>5. (m - j) + 1 \in 1..h /\ (m - j) + 1 \in 1..g /\ ((m - j) + 1) - 1 = m - j
    BY <1>3, <2>2
  <2> QED
    BY <1>1, <1>2, <2>2, <2>4, <2>5
<1>5. ASSUME NEW k \in 0..m
      PROVE  c[k] = d[k]
  <2>1. m - k \in 0..m /\ m - (m - k) = k
    BY <1>3
  <2>2. m - k \notin S
    BY <1>4
  <2> QED
    BY <2>1, <2>2
<1> QED
  BY <1>5

\* The chain d continues c.
Extends(d, c) == \A n \in DOMAIN c : n \in DOMAIN d /\ d[n] = c[n]

\* The block at height n is on no chain that c can grow into.
OffChain(c, n, b) == \A d \in Chains : Extends(d, c) => n \notin DOMAIN d \/ d[n] # b

Numbered == \A n \in DOMAIN blocks : Number[blocks[n]] = n

\* With one change of branch a header that was replaced stays off the chain, so that
\* its block, once stored, is the parent of none, and the next header is answered by
\* a rollback.
MixedInv ==
  /\ Numbered
  /\ Quiet /\ reorgs <= 1 =>
       /\ reorgs = 0 => mixed = {}
       /\ \A n \in mixed \cap DOMAIN blocks :
            ~InBlock /\ IsLastRow(blocks, n) /\ OffChain(canon, n, blocks[n])
       /\ InBlock /\ cursor \in mixed => OffChain(canon, cursor, header)

\* Most steps do not touch what the invariant speaks of.
LEMMA MixedUntouched ==
  ASSUME MixedInv, UNCHANGED <<chainVars, blocks, mixed, cursor, header, InBlock>>, Quiet' => Quiet
  PROVE  MixedInv'
<1>1. Numbered'
  BY DEF MixedInv, Numbered
<1>2. canon' = canon
  BY DEF chainVars
<1> QED
  BY <1>1, <1>2 DEF MixedInv, IsLastRow, chainVars

LEMMA MixedScan ==
  ASSUME IInv, MixedInv, QuietInv,
         \/ Resume \/ StartAfresh \/ FetchNatives \/ FetchNativesFails \/ FetchLogs \/ FetchLogsFails
         \/ Record \/ UpdateBalance \/ RecordTransaction \/ RecordEvent \/ StatementFails
         \/ Crash \/ Panics \/ UNCHANGED vars
         \/ \E e \in Tx : TakeNative(e) \/ TakeLog(e) \/ SkipLog(e)
  PROVE  MixedInv'
<1>1. CASE Resume \/ StartAfresh
  <2>1. /\ stage = "down" /\ stage' = "idle" /\ UNCHANGED <<chainVars, blocks, mixed, faults, deaths>>
    BY <1>1 DEF Resume, StartAfresh, counts
  <2>2. Numbered' /\ ~InBlock'
    BY <2>1 DEF MixedInv, Numbered, InBlock
  <2>3. Quiet' => mixed' = {}
    BY <2>1 DEF Quiet, QuietInv, NothingWritten, deaths
  <2> QED
    BY <2>2, <2>3 DEF MixedInv
<1>2. CASE \/ FetchNatives \/ FetchNativesFails \/ FetchLogs \/ Record \/ UpdateBalance
           \/ RecordTransaction \/ RecordEvent \/ StatementFails \/ UNCHANGED vars
           \/ \E e \in Tx : TakeNative(e) \/ TakeLog(e) \/ SkipLog(e)
  <2>1. UNCHANGED <<chainVars, blocks, mixed, cursor, header, faults, deaths>>
    BY <1>2 DEF FetchNatives, FetchNativesFails, FetchLogs, Record, UpdateBalance, SetBalance,
       RecordTransaction, RecordEvent, StatementFails, TakeNative, TakeLog, SkipLog, NextLog,
       vars, control, counts
  <2>2. UNCHANGED InBlock
    BY <1>2 DEF FetchNatives, FetchNativesFails, FetchLogs, Record, UpdateBalance, SetBalance,
       RecordTransaction, RecordEvent, StatementFails, TakeNative, TakeLog, SkipLog, NextLog,
       vars, control, InBlock
  <2> QED
    BY <2>1, <2>2, MixedUntouched DEF Quiet, deaths
<1>3. CASE FetchLogsFails \/ Crash \/ Panics
  <2>1. ~Quiet'
    BY <1>3, TypeParts DEF FetchLogsFails, Fault, Crash, Panics, Quiet, IInv, CountsOK
  <2>2. UNCHANGED blocks
    BY <1>3 DEF FetchLogsFails, Crash, Panics, Die
  <2> QED
    BY <2>1, <2>2 DEF MixedInv, Numbered
<1> QED
  BY <1>1, <1>2, <1>3

LEMMA MixedBegin ==
  ASSUME IInv, MixedInv, QuietInv, BeginBlock
  PROVE  MixedInv'
<1>1. /\ stage = "idle" /\ cursor \in DOMAIN canon /\ (cursor > 0 => ~Mismatch)
      /\ UNCHANGED <<chainVars, blocks, cursor, mixed, counts>>
  BY DEF BeginBlock
<1>2. Numbered'
  BY <1>1 DEF MixedInv, Numbered
<1> SUFFICES ASSUME Quiet', reorgs' <= 1
             PROVE  (reorgs' = 0 => mixed' = {}) /\ mixed' \cap DOMAIN blocks' = {} /\ cursor' \notin mixed'
  BY <1>2 DEF MixedInv
<1>3. Behind /\ ~InBlock /\ Quiet /\ reorgs <= 1
  BY <1>1 DEF QuietInv, Quiet, InBlock, counts, deaths, chainVars
<1>4. cursor \notin mixed
  BY <1>1, <1>3, TypeParts DEF Behind, IInv, ControlOK
<1>5. ASSUME NEW n \in mixed \cap DOMAIN blocks
      PROVE  FALSE
  <2>1. IsLastRow(blocks, n) /\ OffChain(canon, n, blocks[n]) /\ Number[blocks[n]] = n
    BY <1>3 DEF MixedInv, Numbered
  <2>2. n < cursor /\ n \in Nat /\ cursor \in Nat
    BY <1>3, TypeParts DEF Behind, IInv, ControlOK
  <2>3. cursor > 0
    BY <2>2
  <2>4. blocks[n] = Parent[canon[cursor]]
    BY <1>1, <2>1, <2>3 DEF Mismatch
  <2>5. canon \in Chains
    BY DEF IInv, ChainOK
  <2>6. /\ cursor - 1 \in DOMAIN canon /\ Parent[canon[cursor]] = canon[cursor - 1]
        /\ Number[canon[cursor - 1]] = cursor - 1
    BY <1>1, <2>2, <2>3, <2>5, CanonFacts
  <2>7. n \in DOMAIN canon /\ canon[n] = blocks[n]
    BY <2>1, <2>4, <2>6
  <2> QED
    BY <2>1, <2>5, <2>7 DEF OffChain, Extends
<1> QED
  BY <1>1, <1>3, <1>4, <1>5 DEF MixedInv, chainVars

LEMMA MixedWrite ==
  ASSUME IInv, MixedInv, QuietInv, Rollback \/ SaveBlock \/ SaveBlockFails
  PROVE  MixedInv'
<1>1. TypeOK /\ ControlOK /\ PlaceOK
  BY TypeParts DEF IInv
<1>2. CASE Rollback
  <2>1. PICK target \in Nat : RollBackTo(target)
    BY <1>2, RollbackFacts
  <2>2. /\ stage = "idle" /\ stage' = stage /\ mixed' \subseteq mixed
        /\ UNCHANGED <<chainVars, counts>> /\ blocks' = RollbackBlockRows(blocks, target)
    BY <2>1 DEF RollBackTo, DeleteAbove
  <2>3. DOMAIN blocks' \subseteq DOMAIN blocks /\ \A n \in DOMAIN blocks' : blocks'[n] = blocks[n]
    BY <2>2 DEF RollbackBlockRows
  <2>4. Numbered'
    BY <2>3 DEF MixedInv, Numbered
  <2>5. ~InBlock' /\ (Quiet' => Quiet) /\ reorgs' = reorgs
    BY <2>2 DEF InBlock, Quiet, counts, deaths, chainVars
  <2>6. canon' = canon
    BY <2>2 DEF chainVars
  <2>7. \A n \in DOMAIN blocks' : IsLastRow(blocks, n) => IsLastRow(blocks', n)
    BY <2>3 DEF IsLastRow
  <2>8. mixed = {} => mixed' = {}
    BY <2>2
  <2>9. ASSUME Quiet', reorgs' <= 1, NEW n \in mixed' \cap DOMAIN blocks'
        PROVE  IsLastRow(blocks', n) /\ OffChain(canon', n, blocks'[n])
    <3>1. n \in mixed \cap DOMAIN blocks /\ blocks'[n] = blocks[n]
      BY <2>2, <2>3
    <3>2. IsLastRow(blocks, n) /\ OffChain(canon, n, blocks[n])
      BY <2>5, <2>9, <3>1 DEF MixedInv
    <3> QED
      BY <2>6, <2>7, <2>9, <3>1, <3>2
  <2> QED
    BY <2>4, <2>5, <2>8, <2>9 DEF MixedInv
<1>3. CASE SaveBlock \/ SaveBlockFails
  <2>1. Advance /\ blocks' \in {InsertIfAbsent(blocks, cursor, header), blocks}
        /\ UNCHANGED <<faults, deaths>>
    BY <1>3 DEF SaveBlock, SaveBlockFails, SaveBlockRow, counts
  <2>2. InBlock /\ ~InBlock' /\ UNCHANGED <<chainVars, mixed>> /\ (Quiet' => Quiet)
        /\ stage # "down"
    BY <2>1 DEF Advance, InBlock, Quiet, deaths
  <2>3. Number[header] = cursor
    BY <1>1, <2>2 DEF PlaceOK
  <2>4. \A n \in DOMAIN blocks' :
          (n \in DOMAIN blocks /\ blocks'[n] = blocks[n]) \/ (n = cursor /\ blocks'[n] = header)
    BY <2>1 DEF InsertIfAbsent
  <2>5. Numbered'
    BY <2>3, <2>4 DEF MixedInv, Numbered
  <2>6. canon' = canon
    BY <2>2 DEF chainVars
  <2>7. ASSUME Quiet', reorgs' <= 1, NEW n \in mixed' \cap DOMAIN blocks'
        PROVE  IsLastRow(blocks', n) /\ OffChain(canon', n, blocks'[n])
    <3>1. Quiet /\ reorgs <= 1 /\ Behind
      BY <2>2, <2>7 DEF QuietInv, chainVars
    <3>2. n \notin DOMAIN blocks
      BY <2>2, <2>7, <3>1 DEF MixedInv
    <3>3. n = cursor /\ blocks'[n] = header
      BY <2>4, <2>7, <3>2
    <3>4. OffChain(canon, cursor, header)
      BY <2>2, <2>7, <3>1, <3>3 DEF MixedInv
    <3>5. \A m \in DOMAIN blocks' : m <= n
      BY <1>1, <2>4, <3>1, <3>3 DEF Behind, ControlOK
    <3> QED
      BY <2>6, <2>7, <3>3, <3>4, <3>5 DEF IsLastRow
  <2>8. Quiet' /\ reorgs' = 0 => mixed' = {}
    BY <2>2 DEF MixedInv, chainVars
  <2> QED
    BY <2>2, <2>5, <2>7, <2>8 DEF MixedInv
<1> QED
  BY <1>2, <1>3

LEMMA MixedEnvironment ==
  ASSUME IInv, MixedInv, QuietInv, Environment
  PROVE  MixedInv'
<1>1. /\ UNCHANGED <<blocks, stage, cursor, header, counts>>
      /\ mixed' = IF InBlock /\ Replaced THEN mixed \cup {cursor} ELSE mixed
      /\ Grow \/ Reorg
  BY DEF Environment, ChainNext
<1>2. UNCHANGED <<InBlock, Quiet>>
  BY <1>1 DEF InBlock, Quiet, counts, deaths
<1>3. Numbered'
  BY <1>1 DEF MixedInv, Numbered
<1> SUFFICES ASSUME Quiet', reorgs' <= 1
             PROVE  /\ reorgs' = 0 => mixed' = {}
                    /\ \A n \in mixed' \cap DOMAIN blocks :
                         ~InBlock /\ IsLastRow(blocks, n) /\ OffChain(canon', n, blocks[n])
                    /\ InBlock /\ cursor \in mixed' => OffChain(canon', cursor, header)
  BY <1>1, <1>2, <1>3 DEF MixedInv
<1>4. canon \in Chains /\ reorgs \in Nat /\ ControlOK /\ PlaceOK
  BY TypeParts DEF IInv, ChainOK
<1>5. CASE Grow
  <2>1. /\ reorgs' = reorgs /\ \A n \in DOMAIN canon : n \in DOMAIN canon' /\ canon'[n] = canon[n]
    <3>1. PICK h \in Nat : HeadHeight(canon) = h /\ DOMAIN canon = 0..h
      BY <1>4, CanonFacts
    <3> QED
      BY <1>5, <3>1 DEF Grow
  <2>2. mixed' = mixed
    <3>1. InBlock /\ Replaced => cursor \in mixed
      BY <1>4, <2>1 DEF PlaceOK, Replaced
    <3> QED
      BY <1>1, <3>1
  <2>3. \A n, b : OffChain(canon, n, b) => OffChain(canon', n, b)
    BY <2>1 DEF OffChain, Extends
  <2>4. Quiet /\ reorgs <= 1
    BY <1>2, <2>1
  <2> QED
    BY <2>1, <2>2, <2>3, <2>4 DEF MixedInv
<1>6. CASE Reorg
  <2>1. /\ reorgs' = reorgs + 1 /\ canon' \in Chains
        /\ \E n \in DOMAIN canon \cap DOMAIN canon' : canon'[n] # canon[n]
    BY <1>6 DEF Reorg
  <2>2. reorgs = 0 /\ mixed = {}
    BY <1>2, <1>4, <2>1 DEF MixedInv
  <2>3. \A n \in mixed' : n = cursor /\ InBlock /\ Replaced
    BY <1>1, <2>2
  <2>4. ASSUME NEW n \in mixed' \cap DOMAIN blocks
        PROVE  FALSE
    <3>1. n = cursor /\ stage # "down"
      BY <2>3 DEF InBlock
    <3>2. \A m \in DOMAIN blocks : m < cursor
      BY <1>2, <3>1 DEF QuietInv, Behind
    <3> QED
      BY <1>4, <2>4, <3>1, <3>2 DEF ControlOK
  <2>5. ASSUME InBlock, cursor \in mixed', NEW c \in Chains, Extends(c, canon'), cursor \in DOMAIN c,
               c[cursor] = header
        PROVE  FALSE
    <3>1. Replaced /\ cursor \in DOMAIN canon /\ canon[cursor] = header
      BY <1>4, <2>2, <2>3, <2>5 DEF PlaceOK
    <3>2. \A k \in 0..cursor : c[k] = canon[k]
      BY <1>4, <2>5, <3>1, SameBelow
    <3>3. PICK d \in DOMAIN canon \cap DOMAIN canon' : canon'[d] # canon[d]
      BY <2>1
    <3>4. c[d] # canon[d]
      BY <2>5, <3>3 DEF Extends
    <3>5. PICK h \in Nat : DOMAIN canon' = 0..h
      BY <2>1, CanonFacts
    <3>6. d > cursor /\ cursor \in DOMAIN canon'
      BY <1>4, <3>2, <3>3, <3>4, <3>5 DEF ControlOK
    <3>7. canon'[cursor] = header
      BY <2>5, <3>6 DEF Extends
    <3> QED
      BY <3>1, <3>6, <3>7 DEF Replaced
  <2>6. InBlock /\ cursor \in mixed' => OffChain(canon', cursor, header)
    BY <1>1, <2>5 DEF OffChain
  <2> QED
    BY <1>4, <2>1, <2>2, <2>4, <2>6
<1> QED
  BY <1>1, <1>5, <1>6

\* The deposits, withdraws and balance histories of a stored height are those of the
\* stored block, for every tree, every set of entries and any number of branch changes,
\* wherever the chain did not replace the block while it was being written; and where it
\* did, no block is stored above it after one change of branch (RollbackToBlock,
\* SaveDeposit, SaveWithdraw, UpdateAddressBalance, processBlock).
THEOREM RowsFollowTheBranch == Spec => []NoOrphanRows
<1>1. Init => QuietInv /\ MixedInv
  <2>1. DOMAIN Empty = {}
    BY DEF Empty
  <2> QED
    BY <2>1 DEF Init, QuietInv, NothingWritten, MixedInv, Numbered
<1>2. IInv /\ QuietInv /\ MixedInv /\ [Next]_vars => QuietInv' /\ MixedInv'
  BY QuietScan, QuietWrite, MixedScan, MixedBegin, MixedWrite, MixedEnvironment
  DEF Next, Scanning, Failing
<1>3. IInv /\ QuietInv /\ MixedInv => NoOrphanRows
  <2> SUFFICES ASSUME IInv, QuietInv, MixedInv, Quiet
               PROVE  /\ OnBranch(deposits) /\ OnBranch(withdraws) /\ OnBranch(history)
                      /\ \A n \in mixed \cap DOMAIN blocks : (\E m \in DOMAIN blocks : m > n) => reorgs > 1
    BY DEF NoOrphanRows, Quiet
  <2>1. AllInPlace /\ Behind
    BY NothingInPlace DEF QuietInv
  <2>2. DOMAIN blocks \subseteq Nat /\ cursor \in Nat /\ reorgs \in Nat
    BY TypeParts DEF IInv, ControlOK, ChainOK
  <2>3. ASSUME NEW table, InPlace(table)
        PROVE  OnBranch(table)
    <3> SUFFICES ASSUME NEW k \in DOMAIN table, Number[table[k].block] \in DOMAIN blocks \ mixed
                 PROVE  table[k].block = blocks[Number[table[k].block]]
      BY DEF OnBranch
    <3>1. Number[table[k].block] # cursor
      BY <2>1, <2>2 DEF Behind
    <3> QED
      BY <2>3, <3>1 DEF InPlace
  <2>4. ASSUME NEW n \in mixed \cap DOMAIN blocks, NEW m \in DOMAIN blocks, m > n, ~(reorgs > 1)
        PROVE  FALSE
    <3>1. IsLastRow(blocks, n)
      BY <2>2, <2>4 DEF MixedInv
    <3> QED
      BY <2>2, <2>4, <3>1 DEF IsLastRow
  <2> QED
    BY <2>1, <2>3, <2>4 DEF AllInPlace
<1> QED
  BY <1>1, <1>2, <1>3, Invariant, PTL DEF Spec

------------------------------------------------------------------------------
(* The balances.  Without a branch change the stored blocks are the chain's, which *)
(* only grows, so that the answer for a height stays what it was.  The history of  *)
(* a process that does not die reaches no higher than where it stands, also after  *)
(* the rollback that a block whose save failed brings about; and if nothing is     *)
(* swallowed there is no such rollback, the stored blocks are those from the first *)
(* to the height in hand, and a new process goes on where the old one stood.       *)

OnChain == \A n \in DOMAIN blocks : n \in DOMAIN canon /\ blocks[n] = canon[n]

BalancesRight ==
  \A k \in DOMAIN balances :
    LET n == Number[balances[k].block] IN
    /\ n \in DOMAIN canon
    /\ balances[k].value = BalanceAt(k[1], k[2], n)
    /\ \A h \in DOMAIN history : <<h[1], h[2]>> = k => Number[history[h].block] <= n

HistoryUpTo(n) == \A h \in DOMAIN history : Number[history[h].block] <= n

AliveInv == IF stage = "down" THEN DOMAIN history = {} ELSE HistoryUpTo(cursor)

\* Every block from the first one to below n is stored; block 0 alone is scanned again.
ScannedTo(n) ==
  /\ StartBlock <= n /\ DOMAIN blocks = {m \in Nat : StartBlock <= m /\ m < n}
  /\ stage # "down" => cursor = n \/ (cursor = 0 /\ n = 1 /\ StartBlock = 0)
  /\ HistoryUpTo(n)

ChainInv ==
  reorgs = 0 =>
    /\ mixed = {} /\ OnChain
    /\ restarts = 0 /\ ~panicked => BalancesRight /\ AliveInv
    /\ swallowed = 0 => BalancesRight /\ \E n \in Nat : ScannedTo(n)

\* A chain that grows keeps its answers.
LEMMA GrowFacts ==
  ASSUME canon \in Chains, Grow
  PROVE  /\ \A n \in DOMAIN canon : n \in DOMAIN canon' /\ canon'[n] = canon[n]
         /\ \A address, token : \A n \in DOMAIN canon :
              BalanceAt(address, token, n)' = BalanceAt(address, token, n)
<1>1. PICK h \in Nat : HeadHeight(canon) = h /\ DOMAIN canon = 0..h
  BY CanonFacts
<1>2. DOMAIN canon' = 0..(h + 1) /\ \A n \in DOMAIN canon : canon'[n] = canon[n]
  BY <1>1 DEF Grow
<1>3. \A n \in DOMAIN canon : \A m : (m \in DOMAIN canon' /\ m <= n) <=> (m \in DOMAIN canon /\ m <= n)
  BY <1>1, <1>2
<1> QED
  BY <1>1, <1>2, <1>3 DEF BalanceAt

\* Where every block is stored there is nothing to roll back.
LEMMA NoMismatch ==
  ASSUME IInv, OnChain, NEW n \in Nat, ScannedTo(n)
  PROVE  ~Rollback
<1> SUFFICES ASSUME stage = "idle", cursor \in DOMAIN canon, cursor > 0, Mismatch
             PROVE  FALSE
  BY DEF Rollback, RollBackTo
<1>1. PICK m \in DOMAIN blocks : IsLastRow(blocks, m) /\ blocks[m] # Parent[canon[cursor]]
  BY DEF Mismatch, IsLastRow
<1>2. cursor \in Nat /\ cursor = n /\ StartBlock \in Nat
  BY TypeParts, LedgerAssumption DEF IInv, ControlOK, ScannedTo
<1>3. m \in Nat /\ StartBlock <= m /\ m < n /\ cursor - 1 \in Nat
  BY <1>1, <1>2 DEF ScannedTo
<1>4. cursor - 1 \in DOMAIN blocks
  <2>1. StartBlock <= cursor - 1 /\ cursor - 1 < n
    BY <1>2, <1>3
  <2> QED
    BY <1>3, <2>1 DEF ScannedTo
<1>5. m = cursor - 1
  <2>1. cursor - 1 <= m
    BY <1>1, <1>4 DEF IsLastRow
  <2> QED
    BY <1>2, <1>3, <2>1
<1>6. Parent[canon[cursor]] = canon[cursor - 1]
  <2>1. canon \in Chains
    BY DEF IInv, ChainOK
  <2> QED
    BY <1>2, <2>1, CanonFacts
<1> QED
  BY <1>1, <1>5, <1>6 DEF OnChain

\* The balance in hand is the newest of its key.
LEMMA BalancesStep ==
  ASSUME IInv, BalancesRight, HistoryUpTo(cursor), UpdateBalance
  PROVE  BalancesRight' /\ \A h \in DOMAIN history' : Number[history'[h].block] <= cursor
<1> DEFINE s == Head(work)
           key == <<s.key[1], s.key[2], s.tx>>
           value == BalanceAt(s.key[1], s.key[2], cursor)
           row == [block |-> canon[cursor], value |-> value]
           past == [block |-> canon[cursor], after |-> value]
<1>1. /\ work # <<>> /\ s.do = "balance" /\ UNCHANGED <<chainVars, control>>
      /\ \/ UNCHANGED <<history, balances>>
         \/ /\ key \notin DOMAIN history /\ cursor \in DOMAIN canon
            /\ history' = InsertIfAbsent(history, key, past)
            /\ balances' = [k \in DOMAIN balances \cup {s.key} |-> IF k = s.key THEN row ELSE balances[k]]
  BY DEF UpdateBalance, SetBalance, Doing
<1>2. s.key = <<s.key[1], s.key[2]>>
  BY <1>1, HeadOfWork DEF Balances, Address
<1>3. cursor \in Nat /\ (cursor \in DOMAIN canon => Number[canon[cursor]] = cursor)
  BY AtCursor, TypeParts DEF IInv, ControlOK
<1>4. /\ \A address, token, n : BalanceAt(address, token, n)' = BalanceAt(address, token, n)
      /\ canon' = canon
  BY <1>1 DEF BalanceAt, chainVars
<1>5. CASE UNCHANGED <<history, balances>>
  BY <1>4, <1>5 DEF BalancesRight, HistoryUpTo
<1>6. CASE /\ key \notin DOMAIN history /\ cursor \in DOMAIN canon
           /\ history' = InsertIfAbsent(history, key, past)
           /\ balances' = [k \in DOMAIN balances \cup {s.key} |-> IF k = s.key THEN row ELSE balances[k]]
  <2>1. past.block = canon[cursor] /\ row.block = canon[cursor] /\ row.value = value
    OBVIOUS
  <2>2. key[1] = s.key[1] /\ key[2] = s.key[2]
    OBVIOUS
  <2>3. value = BalanceAt(s.key[1], s.key[2], cursor)
    OBVIOUS
  <2> HIDE DEF s, key, value, row, past
  <2>4. DOMAIN history' = DOMAIN history \cup {key}
        /\ \A h \in DOMAIN history' : history'[h] = IF h \in DOMAIN history THEN history[h] ELSE past
    BY <1>6 DEF InsertIfAbsent
  <2>5. \A h \in DOMAIN history' : Number[history'[h].block] <= cursor
    BY <1>3, <1>6, <2>1, <2>4 DEF HistoryUpTo
  <2>6. ASSUME NEW k \in DOMAIN balances'
        PROVE  /\ Number[balances'[k].block] \in DOMAIN canon
               /\ balances'[k].value = BalanceAt(k[1], k[2], Number[balances'[k].block])
               /\ \A h \in DOMAIN history' :
                    <<h[1], h[2]>> = k => Number[history'[h].block] <= Number[balances'[k].block]
    <3>1. CASE k = s.key
      <4>1. balances'[k] = row
        BY <1>6, <3>1
      <4> QED
        BY <1>3, <1>6, <2>1, <2>3, <2>5, <3>1, <4>1
    <3>2. CASE k # s.key
      <4>1. k \in DOMAIN balances /\ balances'[k] = balances[k]
        BY <1>6, <3>2
      <4>2. \A h \in DOMAIN history' :
              <<h[1], h[2]>> = k => h \in DOMAIN history /\ history'[h] = history[h]
        BY <1>2, <2>2, <2>4, <3>2
      <4> QED
        BY <4>1, <4>2 DEF BalancesRight
    <3> QED
      BY <3>1, <3>2
  <2>7. BalancesRight'
    BY <1>4, <2>6 DEF BalancesRight
  <2> QED
    BY <2>5, <2>7
<1> QED
  BY <1>1, <1>5, <1>6

\* Steps that write neither a balance nor a block leave the balances right on their chain.
LEMMA BalancesStay ==
  ASSUME UNCHANGED <<chainVars, history, balances, blocks>>
  PROVE  /\ OnChain => OnChain'
         /\ BalancesRight => BalancesRight'
         /\ \A n : HistoryUpTo(n) => \A h \in DOMAIN history' : Number[history'[h].block] <= n
<1>1. /\ \A address, token, n : BalanceAt(address, token, n)' = BalanceAt(address, token, n)
      /\ canon' = canon
  BY DEF BalanceAt, chainVars
<1> QED
  BY <1>1 DEF OnChain, BalancesRight, HistoryUpTo

\* The process starts: where the old one stood, if nothing was swallowed.
LEMMA ChainStart ==
  ASSUME IInv, ChainInv, Resume \/ StartAfresh
  PROVE  ChainInv'
<1> SUFFICES ASSUME reorgs' = 0
             PROVE  ChainInv'
  BY DEF ChainInv
<1>1. /\ stage = "down" /\ stage' = "idle" /\ UNCHANGED <<chainVars, ledger, blocks, mixed, deaths>>
  BY DEF Resume, StartAfresh, counts
<1>2. mixed' = {} /\ OnChain' /\ reorgs = 0
  BY <1>1, BalancesStay DEF ChainInv, chainVars, ledger
<1>3. ASSUME restarts' = 0, ~panicked'
      PROVE  BalancesRight' /\ AliveInv'
  <2>1. BalancesRight /\ AliveInv
    BY <1>1, <1>2, <1>3 DEF ChainInv, deaths
  <2>2. DOMAIN history' = {}
    BY <1>1, <2>1 DEF AliveInv, ledger
  <2> QED
    BY <1>1, <2>1, <2>2, BalancesStay DEF AliveInv, HistoryUpTo, ledger
<1>4. ASSUME swallowed' = 0
      PROVE  BalancesRight' /\ \E n \in Nat : ScannedTo(n)'
  <2>1. swallowed = 0 /\ (StartAfresh => ~\E m \in DOMAIN blocks : m > 0)
    BY <1>4, TypeParts DEF Resume, StartAfresh, Swallowed, counts, IInv, CountsOK
  <2>2. PICK n \in Nat : ScannedTo(n)
    BY <1>2, <2>1 DEF ChainInv
  <2>3. BalancesRight' /\ StartBlock \in Nat
    BY <1>1, <1>2, <2>1, BalancesStay, LedgerAssumption DEF ChainInv, ledger
  <2>4. cursor' = n \/ (cursor' = 0 /\ n = 1 /\ StartBlock = 0)
    <3>1. CASE Resume
      <4>1. PICK m \in DOMAIN blocks : IsLastRow(blocks, m) /\ cursor' = m + 1
        BY <3>1 DEF Resume
      <4>2. m \in Nat /\ StartBlock <= m /\ m < n
        BY <4>1, <2>2 DEF ScannedTo
      <4>3. n - 1 \in DOMAIN blocks
        <5>1. n - 1 \in Nat /\ StartBlock <= n - 1 /\ n - 1 < n
          BY <2>3, <4>2
        <5> QED
          BY <2>2, <5>1 DEF ScannedTo
      <4>4. n - 1 <= m
        BY <4>1, <4>3 DEF IsLastRow
      <4> QED
        BY <4>1, <4>2, <4>4
    <3>2. CASE StartAfresh
      <4>1. cursor' = StartBlock /\ StartBlock <= n
        BY <2>2, <3>2 DEF StartAfresh, ScannedTo
      <4>2. ASSUME StartBlock < n
            PROVE  StartBlock = 0 /\ n = 1
        <5>1. StartBlock \in DOMAIN blocks /\ n - 1 \in DOMAIN blocks
          <6>1. n - 1 \in Nat /\ StartBlock <= n - 1 /\ n - 1 < n
            BY <2>3, <4>2
          <6> QED
            BY <2>2, <2>3, <4>2, <6>1 DEF ScannedTo
        <5>2. ~(StartBlock > 0) /\ ~(n - 1 > 0)
          BY <2>1, <3>2, <5>1
        <5> QED
          BY <2>3, <4>2, <5>2
      <4> QED
        BY <2>3, <4>1, <4>2
    <3> QED
      BY <3>1, <3>2
  <2>5. ScannedTo(n)'
    BY <1>1, <2>2, <2>4 DEF ScannedTo, HistoryUpTo, ledger
  <2> QED
    BY <2>3, <2>5
<1> QED
  BY <1>2, <1>3, <1>4 DEF ChainInv

\* A block is stored, or its save fails.
LEMMA ChainSave ==
  ASSUME IInv, ChainInv, SaveBlock \/ SaveBlockFails
  PROVE  ChainInv'
<1> SUFFICES ASSUME reorgs' = 0
             PROVE  ChainInv'
  BY DEF ChainInv
<1>1. /\ Advance /\ blocks' \in {InsertIfAbsent(blocks, cursor, header), blocks}
      /\ SaveBlock => blocks' = InsertIfAbsent(blocks, cursor, header)
      /\ UNCHANGED deaths
  BY DEF SaveBlock, SaveBlockFails, SaveBlockRow, counts
<1>2. /\ stage = "logs" /\ stage' = "idle" /\ cursor' = cursor + 1
      /\ UNCHANGED <<chainVars, ledger, mixed>>
  BY <1>1 DEF Advance
<1>3. reorgs = 0 /\ mixed = {} /\ OnChain /\ ControlOK /\ PlaceOK
  BY <1>2, TypeParts DEF ChainInv, IInv, chainVars
<1>4. cursor \in Nat /\ cursor \in DOMAIN canon /\ canon[cursor] = header
  BY <1>2, <1>3 DEF ControlOK, PlaceOK, InBlock
<1>5. /\ \A address, token, n : BalanceAt(address, token, n)' = BalanceAt(address, token, n)
      /\ UNCHANGED <<canon, history, balances>>
  BY <1>2 DEF BalanceAt, chainVars, ledger
<1>6. mixed' = {} /\ OnChain'
  BY <1>1, <1>2, <1>3, <1>4, <1>5 DEF OnChain, InsertIfAbsent
<1>7. BalancesRight => BalancesRight'
  BY <1>5 DEF BalancesRight
<1>8. ASSUME restarts' = 0, ~panicked'
      PROVE  BalancesRight' /\ AliveInv'
  <2>1. BalancesRight /\ HistoryUpTo(cursor)
    BY <1>1, <1>2, <1>3, <1>8 DEF ChainInv, AliveInv, deaths
  <2>2. \A h \in DOMAIN history : Number[history[h].block] \in Nat
    BY TypeParts, BlockAssumption DEF IInv, TablesOK, Rows, HistoryRow
  <2>3. \A h \in DOMAIN history : Number[history[h].block] <= cursor + 1
    BY <1>4, <2>1, <2>2 DEF HistoryUpTo
  <2> QED
    BY <1>2, <1>5, <1>7, <2>1, <2>3 DEF AliveInv, HistoryUpTo
<1>9. ASSUME swallowed' = 0
      PROVE  BalancesRight' /\ \E n \in Nat : ScannedTo(n)'
  <2>1. swallowed = 0 /\ blocks' = InsertIfAbsent(blocks, cursor, header)
    BY <1>1, <1>9, TypeParts DEF SaveBlock, SaveBlockFails, Swallowed, counts, IInv, CountsOK
  <2>2. PICK n \in Nat : ScannedTo(n)
    BY <1>3, <2>1 DEF ChainInv
  <2>3. BalancesRight /\ StartBlock \in Nat
    BY <1>3, <2>1, LedgerAssumption DEF ChainInv
  <2>4. DOMAIN blocks' = DOMAIN blocks \cup {cursor}
    BY <2>1, InsertedKeys
  <2>5. \A h \in DOMAIN history : Number[history[h].block] \in Nat /\ Number[history[h].block] <= n
    BY <2>2, TypeParts, BlockAssumption DEF IInv, TablesOK, Rows, HistoryRow, ScannedTo, HistoryUpTo
  <2>6. StartBlock <= n /\ DOMAIN blocks = {m \in Nat : StartBlock <= m /\ m < n}
        /\ (cursor = n \/ (cursor = 0 /\ n = 1 /\ StartBlock = 0))
    BY <1>2, <2>2 DEF ScannedTo
  <2>7. CASE cursor = n
    <3>1. DOMAIN blocks' = {m \in Nat : StartBlock <= m /\ m < n + 1}
      BY <2>3, <2>4, <2>6, <2>7
    <3>2. StartBlock <= n + 1 /\ cursor' = n + 1 /\ n + 1 \in Nat
      BY <1>2, <2>3, <2>6, <2>7
    <3>3. \A h \in DOMAIN history' : Number[history'[h].block] <= n + 1
      BY <1>5, <2>5
    <3>4. ScannedTo(n + 1)'
      BY <3>1, <3>2, <3>3 DEF ScannedTo, HistoryUpTo
    <3> QED
      BY <1>7, <2>3, <3>2, <3>4
  <2>8. CASE cursor = 0 /\ n = 1 /\ StartBlock = 0
    <3>1. DOMAIN blocks' = {m \in Nat : StartBlock <= m /\ m < n}
      BY <2>4, <2>6, <2>8
    <3>2. cursor' = n
      BY <1>2, <2>8
    <3>3. ScannedTo(n)'
      BY <1>5, <2>5, <2>6, <3>1, <3>2 DEF ScannedTo, HistoryUpTo
    <3> QED
      BY <1>7, <2>3, <3>3
  <2> QED
    BY <2>6, <2>7, <2>8
<1> QED
  BY <1>6, <1>8, <1>9 DEF ChainInv

LEMMA ChainBalance ==
  ASSUME IInv, ChainInv, UpdateBalance
  PROVE  ChainInv'
<1> SUFFICES ASSUME reorgs' = 0
             PROVE  ChainInv'
  BY DEF ChainInv
<1>1. work # <<>> /\ UNCHANGED <<chainVars, blocks, stage, cursor, mixed, counts>>
  BY DEF UpdateBalance, SetBalance, Doing, control
<1>2. reorgs = 0 /\ mixed' = {} /\ OnChain' /\ stage # "down" /\ cursor # 0
  BY <1>1, HeadOfWork DEF ChainInv, OnChain, Writing, chainVars
<1>3. ASSUME restarts' = 0, ~panicked'
      PROVE  BalancesRight' /\ AliveInv'
  <2>1. BalancesRight /\ HistoryUpTo(cursor)
    BY <1>1, <1>2, <1>3 DEF ChainInv, AliveInv, counts, deaths
  <2> QED
    BY <1>1, <1>2, <2>1, BalancesStep DEF AliveInv, HistoryUpTo
<1>4. ASSUME swallowed' = 0
      PROVE  BalancesRight' /\ \E n \in Nat : ScannedTo(n)'
  <2>1. PICK n \in Nat : ScannedTo(n)
    BY <1>1, <1>2, <1>4 DEF ChainInv, counts
  <2>2. cursor = n /\ BalancesRight
    BY <1>1, <1>2, <1>4, <2>1 DEF ScannedTo, ChainInv, counts
  <2>3. BalancesRight' /\ \A h \in DOMAIN history' : Number[history'[h].block] <= n
    BY <2>1, <2>2, BalancesStep DEF ScannedTo
  <2>4. ScannedTo(n)'
    BY <1>1, <2>1, <2>3 DEF ScannedTo, HistoryUpTo
  <2> QED
    BY <2>3, <2>4
<1> QED
  BY <1>2, <1>3, <1>4 DEF ChainInv

\* A rollback follows a block whose save failed; it deletes what the history has above.
LEMMA ChainRollback ==
  ASSUME IInv, ChainInv, Rollback
  PROVE  ChainInv'
<1> SUFFICES ASSUME reorgs' = 0
             PROVE  ChainInv'
  BY DEF ChainInv
<1>1. PICK target \in Nat : target < cursor /\ RollBackTo(target) /\ cursor' = target + 1
  BY RollbackFacts
<1>2. /\ stage = "idle" /\ stage' = stage /\ mixed' \subseteq mixed
      /\ UNCHANGED <<chainVars, balances, counts>>
      /\ history' = Below(history, target) /\ blocks' = RollbackBlockRows(blocks, target)
  BY <1>1 DEF RollBackTo, DeleteAbove
<1>3. reorgs = 0 /\ mixed' = {} /\ OnChain
  BY <1>2 DEF ChainInv, chainVars
<1>4. OnChain'
  BY <1>2, <1>3 DEF OnChain, RollbackBlockRows, chainVars
<1>5. swallowed # 0
  <2>1. swallowed = 0 => \E n \in Nat : ScannedTo(n)
    BY <1>3 DEF ChainInv
  <2> QED
    BY <1>3, <2>1, NoMismatch
<1>6. ASSUME restarts' = 0, ~panicked'
      PROVE  BalancesRight' /\ AliveInv'
  <2>1. BalancesRight
    BY <1>2, <1>3, <1>6 DEF ChainInv, counts, deaths
  <2>2. /\ \A h \in DOMAIN history' : h \in DOMAIN history /\ history'[h] = history[h]
        /\ \A h \in DOMAIN history' : Number[history[h].block] <= target
    BY <1>2 DEF Below
  <2>3. /\ \A address, token, n : BalanceAt(address, token, n)' = BalanceAt(address, token, n)
        /\ UNCHANGED <<canon, balances>>
    BY <1>2 DEF BalanceAt, chainVars
  <2>4. BalancesRight'
    BY <2>1, <2>2, <2>3 DEF BalancesRight
  <2>5. \A h \in DOMAIN history : Number[history[h].block] \in Nat
    BY TypeParts, BlockAssumption DEF IInv, TablesOK, Rows, HistoryRow
  <2>6. \A h \in DOMAIN history' : Number[history'[h].block] <= target + 1
    BY <2>2, <2>5
  <2> QED
    BY <1>1, <1>2, <2>4, <2>6 DEF AliveInv, HistoryUpTo
<1> QED
  BY <1>2, <1>3, <1>4, <1>5, <1>6 DEF ChainInv, counts

LEMMA ChainGrow ==
  ASSUME IInv, ChainInv, Environment
  PROVE  ChainInv'
<1> SUFFICES ASSUME reorgs' = 0
             PROVE  ChainInv'
  BY DEF ChainInv
<1>1. /\ ChainNext /\ UNCHANGED <<history, balances, blocks, stage, cursor, header, counts>>
      /\ mixed' = IF InBlock /\ Replaced THEN mixed \cup {cursor} ELSE mixed
  BY DEF Environment, ledger
<1>2. Grow /\ reorgs = 0
  BY <1>1 DEF ChainNext, Reorg, Grow, IInv, ChainOK
<1>3. /\ \A n \in DOMAIN canon : n \in DOMAIN canon' /\ canon'[n] = canon[n]
      /\ \A address, token : \A n \in DOMAIN canon :
           BalanceAt(address, token, n)' = BalanceAt(address, token, n)
  BY <1>2, GrowFacts DEF IInv, ChainOK
<1>4. mixed = {} /\ OnChain
  BY <1>2 DEF ChainInv
<1>5. mixed' = {}
  <2>1. InBlock => cursor \in DOMAIN canon /\ canon[cursor] = header
    BY <1>4 DEF IInv, PlaceOK
  <2> QED
    BY <1>1, <1>3, <1>4, <2>1 DEF Replaced
<1>6. OnChain' /\ (BalancesRight => BalancesRight')
  BY <1>1, <1>3, <1>4 DEF OnChain, BalancesRight
<1>7. /\ AliveInv => AliveInv'
      /\ \A n \in Nat : ScannedTo(n) => ScannedTo(n)'
  BY <1>1 DEF AliveInv, HistoryUpTo, ScannedTo
<1> QED
  BY <1>1, <1>2, <1>5, <1>6, <1>7 DEF ChainInv, counts, deaths

\* The other steps.
LEMMA ChainScan ==
  ASSUME IInv, ChainInv,
         \/ BeginBlock \/ FetchNatives \/ FetchNativesFails \/ FetchLogs \/ FetchLogsFails
         \/ Record \/ RecordTransaction \/ RecordEvent \/ StatementFails
         \/ Crash \/ Panics \/ UNCHANGED vars
         \/ \E e \in Tx : TakeNative(e) \/ TakeLog(e) \/ SkipLog(e)
  PROVE  ChainInv'
<1> SUFFICES ASSUME reorgs' = 0
             PROVE  ChainInv'
  BY DEF ChainInv
<1>1. UNCHANGED <<chainVars, history, balances, blocks, mixed>>
  BY DEF BeginBlock, FetchNatives, FetchNativesFails, FetchLogs, FetchLogsFails, Record,
     RecordTransaction, RecordEvent, StatementFails, Crash, Panics, Die, TakeNative, TakeLog, SkipLog,
     NextLog, vars, ledger, control
<1>2. reorgs = 0 /\ mixed' = {} /\ OnChain' /\ (BalancesRight => BalancesRight')
  BY <1>1, BalancesStay DEF ChainInv, chainVars
<1>3. /\ swallowed' = 0 => swallowed = 0
      /\ restarts' = 0 /\ ~panicked' => restarts = 0 /\ ~panicked /\ ~Crash /\ ~Panics
  BY TypeParts DEF BeginBlock, FetchNatives, FetchNativesFails, FetchLogs, FetchLogsFails, Record,
     RecordTransaction, RecordEvent, StatementFails, Crash, Panics, Die, TakeNative, TakeLog, SkipLog,
     NextLog, vars, counts, deaths, Swallowed, IInv, CountsOK
<1>4. CASE Crash \/ Panics
  <2>1. stage' = "down" /\ stage # "down"
    BY <1>4 DEF Crash, Panics, Die
  <2>2. \A n \in Nat : ScannedTo(n) => ScannedTo(n)'
    BY <1>1, <2>1 DEF ScannedTo, HistoryUpTo
  <2> QED
    BY <1>2, <1>3, <1>4, <2>2 DEF ChainInv
<1>5. CASE ~Crash /\ ~Panics
  <2>1. UNCHANGED cursor /\ (stage' = "down" <=> stage = "down")
    BY <1>5 DEF BeginBlock, FetchNatives, FetchNativesFails, FetchLogs, FetchLogsFails, Record,
       RecordTransaction, RecordEvent, StatementFails, TakeNative, TakeLog, SkipLog, NextLog,
       vars, control
  <2>2. /\ AliveInv => AliveInv'
        /\ \A n \in Nat : ScannedTo(n) => ScannedTo(n)'
    BY <1>1, <2>1 DEF AliveInv, HistoryUpTo, ScannedTo
  <2> QED
    BY <1>2, <1>3, <2>2 DEF ChainInv
<1> QED
  BY <1>4, <1>5

LEMMA ChainStep ==
  ASSUME IInv, ChainInv, [Next]_vars
  PROVE  ChainInv'
BY ChainStart, ChainSave, ChainBalance, ChainRollback, ChainGrow, ChainScan DEF Next, Scanning, Failing

LEMMA ChainInitially == Init => ChainInv
<1> SUFFICES ASSUME Init
             PROVE  ChainInv
  OBVIOUS
<1>1. DOMAIN Empty = {}
  BY DEF Empty
<1>2. mixed = {} /\ OnChain /\ BalancesRight /\ AliveInv
  BY <1>1 DEF Init, OnChain, BalancesRight, AliveInv
<1>3. StartBlock \in Nat
  BY LedgerAssumption
<1>4. ScannedTo(StartBlock)
  BY <1>1, <1>3 DEF Init, ScannedTo, HistoryUpTo
<1> QED
  BY <1>2, <1>3, <1>4 DEF ChainInv

LEMMA ChainInvariant == Spec => []ChainInv
BY ChainInitially, ChainStep, Invariant, PTL DEF Spec

\* The address balance of a height is what the chain has there, and no younger history
\* row exists, for every tree, every set of entries and every start block, until the
\* branch changes: whatever statement, query or save of a block fails, as long as the
\* process does not die, and wherever the process dies, as long as no error is swallowed
\* (UpdateAddressBalance, updateBalanceFromEvent, getStartBlock).
THEOREM BalancesFollowTheChain == Spec => []BalancesAreOnChain
<1>1. ChainInv => BalancesAreOnChain
  BY DEF ChainInv, BalancesRight, BalancesAreOnChain
<1> QED
  BY <1>1, ChainInvariant, PTL

------------------------------------------------------------------------------
(* Rows of one scan.  Every row of the deposits, the withdraws and the events comes *)
(* from a statement of an entry of its block, and from the first one with its key:  *)
(* entries of lower rank have had their statements executed before, and a key that  *)
(* is there stays.  What a scan has executed of the block in hand has its keys in   *)
(* the tables, so that a block is stored with all of its rows, whichever of the     *)
(* scans that were cut short has written them.                                      *)

Kinds == {"deposit", "withdraw", "event"}

Table(do) ==
  IF do = "deposit" THEN deposits ELSE IF do = "withdraw" THEN withdraws ELSE events

Entries(b) == Natives[b] \cup Logs[b]
Statements(e, b) == {Work(e, b, b)[i] : i \in DOMAIN Work(e, b, b)}
RankIn(b, e) == IF e \in Natives[b] THEN 0 ELSE Data[e].index + 1

\* The row says what the statement says.
Tells(row, s) == IF s.do = "event" THEN row.entry = s.entry ELSE row.to = s.to

\* The statement is the first one of its kind and key in the block.
FirstIn(b, e, s) ==
  \A f \in Entries(b) : \A r \in Statements(f, b) :
    r.do = s.do /\ r.key = s.key => RankIn(b, e) <= RankIn(b, f)

Origin(row, k, do) ==
  /\ Number[row.block] \in DOMAIN canon /\ canon[Number[row.block]] = row.block
  /\ \E e \in Entries(row.block) : \E s \in Statements(e, row.block) :
       s.do = do /\ s.key = k /\ Tells(row, s) /\ FirstIn(row.block, e, s)

Origins == \A do \in Kinds : \A k \in DOMAIN Table(do) : Origin(Table(do)[k], k, do)

Complete ==
  \A n \in DOMAIN blocks : \A e \in Entries(blocks[n]) : \A s \in Statements(e, blocks[n]) :
    s.do \in Kinds => s.key \in DOMAIN Table(s.do)

\* The entries of the block in hand that the scan has taken up.
Taken ==
  CASE stage = "natives" -> Natives[header] \ todo
    [] stage = "logs" -> Natives[header] \cup (Logs[header] \ todo)
    [] OTHER -> {}

Covered ==
  InBlock => \A e \in Taken : \A s \in Statements(e, header) :
               s.do \in Kinds => s.key \in DOMAIN Table(s.do) \/ s \in Ahead

\* The entry in hand comes before those left.
Holds(e) ==
  /\ e \notin todo /\ Ahead \subseteq Statements(e, header)
  /\ \/ stage = "natives" /\ e \in Natives[header]
     \/ /\ stage = "logs" /\ e \in Logs[header]
        /\ \A f \in todo : Data[e].index <= Data[f].index

EntryInHand == work # <<>> => \E e \in Tx : Holds(e)

\* Nothing is left to do that is not of the block in hand.
TodoInBlock ==
  /\ stage = "natives" => todo \subseteq Natives[header]
  /\ stage = "logs" => todo \subseteq Logs[header]

OnceInv ==
  reorgs = 0 /\ swallowed = 0 => Origins /\ Complete /\ Covered /\ EntryInHand /\ TodoInBlock

\* A statement names its entry and the entry's transaction, and is the only one of its
\* kind the entry makes.
LEMMA StatementsOfEntry ==
  ASSUME NEW e \in Tx, NEW b \in Block
  PROVE  \A s \in Statements(e, b) : s.do \in Kinds =>
           /\ s.entry = e /\ s.key[1] = Data[e].tx /\ s.block = b
           /\ \A r \in Statements(e, b) : r.do = s.do => r = s
<1> DEFINE deposit == Deposit(e, Payer(e), Data[e].to, b)
           withdraw == Withdraw(e, Data[e].from, Data[e].to, b)
           save == SaveEvent(e, b)
<1>1. /\ deposit.do = "deposit" /\ deposit.entry = e /\ deposit.key[1] = Data[e].tx
      /\ withdraw.do = "withdraw" /\ withdraw.entry = e /\ withdraw.key[1] = Data[e].tx
      /\ save.do = "event" /\ save.entry = e /\ save.key[1] = Data[e].tx
      /\ deposit.block = b /\ withdraw.block = b /\ save.block = b
  BY DEF Deposit, Withdraw, Movement, SaveEvent
<1>2. \A s \in Balances \cup Transactions \cup Panics_ : s.do \notin Kinds
  BY DEF Balances, Transactions, Panics_, Kinds
<1>3. Work(e, b, b) \in Seq(StatementsOf(e, b, b))
  BY WorkOfEntry
<1>4. \A s \in Statements(e, b) : s \in StatementsOf(e, b, b)
  BY <1>3, ElementOfSeq, LenProperties DEF Statements
<1> HIDE DEF deposit, withdraw, save
<1>5. \A s \in Statements(e, b) : s.do \in Kinds => s \in {deposit, withdraw, save}
  BY <1>2, <1>4 DEF StatementsOf, deposit, withdraw, save
<1> QED
  BY <1>1, <1>5

\* Two entries of one transaction are in one block, and told apart by their rank.
LEMMA EntryFacts ==
  ASSUME NEW c \in Chains
  PROVE  /\ \A n \in DOMAIN c : Entries(c[n]) \subseteq Tx /\ c[n] \in Block
         /\ \A m, n \in DOMAIN c : \A e \in Entries(c[m]) : \A f \in Entries(c[n]) :
              Data[e].tx = Data[f].tx => m = n
         /\ \A n \in DOMAIN c : \A e, f \in Entries(c[n]) :
              Data[e].tx = Data[f].tx /\ RankIn(c[n], e) = RankIn(c[n], f) => e = f
<1>1. \A n \in DOMAIN c : c[n] \in Block
  BY CanonFacts
<1>2. \A n \in DOMAIN c : Entries(c[n]) \subseteq Tx
  BY <1>1, EventAssumption DEF Entries
<1>3. \A m, n \in DOMAIN c : \A e \in Entries(c[m]) : \A f \in Entries(c[n]) :
        Data[e].tx = Data[f].tx => m = n
  BY EntryAssumption DEF Entries
<1>4. ASSUME NEW b \in Block, NEW e \in Entries(b), NEW f \in Entries(b),
             Data[e].tx = Data[f].tx, RankIn(b, e) = RankIn(b, f)
      PROVE  e = f
  <2>1. e \in Tx /\ f \in Tx /\ Data[e].index \in Nat /\ Data[f].index \in Nat
    BY EventAssumption, LedgerAssumption DEF Entries, Entry
  <2>2. CASE e \in Natives[b] /\ f \in Natives[b]
    BY <1>4, <2>2, EntryAssumption
  <2>3. CASE e \in Logs[b] /\ f \in Logs[b] /\ e \notin Natives[b] /\ f \notin Natives[b]
    <3>1. Data[e].index = Data[f].index
      BY <1>4, <2>1, <2>3 DEF RankIn
    <3> QED
      BY <2>3, <3>1, EntryAssumption
  <2>4. CASE (e \in Natives[b] /\ f \notin Natives[b]) \/ (e \notin Natives[b] /\ f \in Natives[b])
    BY <1>4, <2>1, <2>4 DEF RankIn
  <2> QED
    BY <2>2, <2>3, <2>4 DEF Entries
<1> QED
  BY <1>1, <1>2, <1>3, <1>4

\* The statements of the stored entries.
Wanted(do) == {s \in UNION {Statements(e, BlockOf(e)) : e \in Stored} : s.do = do}

LEMMA FirstFacts ==
  \A do : First(do) = {s \in Wanted(do) : \A r \in Wanted(do) :
                         r.key = s.key => Rank(s.entry) <= Rank(r.entry)}
  BY DEF First, Wanted, Statements

LEMMA StoredFacts ==
  ASSUME IInv, OnChain
  PROVE  /\ \A n \in DOMAIN blocks : \A e \in Entries(blocks[n]) :
              e \in Stored /\ BlockOf(e) = blocks[n] /\ Rank(e) = RankIn(blocks[n], e)
         /\ \A e \in Stored : \E n \in DOMAIN blocks : e \in Entries(blocks[n])
<1>1. canon \in Chains
  BY DEF IInv, ChainOK
<1>2. \A e \in Stored : \E n \in DOMAIN blocks : e \in Entries(blocks[n])
  BY DEF Stored, Entries
<1>3. ASSUME NEW n \in DOMAIN blocks, NEW e \in Entries(blocks[n])
      PROVE  e \in Stored /\ BlockOf(e) = blocks[n] /\ Rank(e) = RankIn(blocks[n], e)
  <2>1. e \in Stored
    BY <1>3 DEF Stored, Entries
  <2>2. \A m \in DOMAIN blocks : e \in Entries(blocks[m]) => m = n
    BY <1>1, <1>3, EntryFacts DEF OnChain
  <2>3. BlockOf(e) = blocks[n]
    <3>1. \A b \in {blocks[m] : m \in DOMAIN blocks} : e \in Natives[b] \cup Logs[b] => b = blocks[n]
      BY <2>2 DEF Entries
    <3>2. blocks[n] \in {blocks[m] : m \in DOMAIN blocks} /\ e \in Natives[blocks[n]] \cup Logs[blocks[n]]
      BY <1>3 DEF Entries
    <3> QED
      BY <3>1, <3>2 DEF BlockOf
  <2> QED
    BY <2>1, <2>3 DEF Rank, RankIn
<1> QED
  BY <1>2, <1>3

\* The rows at the stored heights are those of a single scan.
LEMMA OnceForAll ==
  ASSUME IInv, OnChain, Origins, Complete, NEW do \in Kinds
  PROVE  /\ \A k \in KeysStored(Table(do)) : \E s \in First(do) :
              s.key = k /\ Table(do)[k].block = s.block /\ Tells(Table(do)[k], s)
         /\ \A s \in First(do) :
              /\ s.key \in KeysStored(Table(do))
              /\ Table(do)[s.key].block = s.block /\ Tells(Table(do)[s.key], s)
<1>1. canon \in Chains
  BY DEF IInv, ChainOK
<1>2. \A s : s \in Wanted(do) <=>
        \E n \in DOMAIN blocks : \E e \in Entries(blocks[n]) : s \in Statements(e, blocks[n]) /\ s.do = do
  BY StoredFacts DEF Wanted
<1>3. \A n \in DOMAIN blocks : n \in DOMAIN canon /\ blocks[n] = canon[n] /\ Entries(blocks[n]) \subseteq Tx
        /\ blocks[n] \in Block
  BY <1>1, EntryFacts DEF OnChain
\* Two wanted statements with one key are of one block.
<1>4. ASSUME NEW m \in DOMAIN blocks, NEW n \in DOMAIN blocks,
             NEW e \in Entries(blocks[m]), NEW f \in Entries(blocks[n]),
             NEW s \in Statements(e, blocks[m]), NEW r \in Statements(f, blocks[n]),
             s.do = do, r.do = do, s.key = r.key
      PROVE  m = n /\ Data[e].tx = Data[f].tx /\ s.entry = e /\ r.entry = f
  <2>1. s.entry = e /\ s.key[1] = Data[e].tx /\ r.entry = f /\ r.key[1] = Data[f].tx
    BY <1>3, <1>4, StatementsOfEntry
  <2> QED
    BY <1>1, <1>3, <1>4, <2>1, EntryFacts
\* The row of a wanted key is of the first wanted statement.
<1>5. ASSUME NEW k \in DOMAIN Table(do), Number[Table(do)[k].block] \in DOMAIN blocks
      PROVE  \E s \in First(do) :
               s.key = k /\ Table(do)[k].block = s.block /\ Tells(Table(do)[k], s)
  <2> DEFINE b == Table(do)[k].block
             n == Number[b]
  <2>1. Origin(Table(do)[k], k, do)
    BY <1>5 DEF Origins
  <2>2. n \in DOMAIN blocks /\ blocks[n] = b
    BY <1>3, <1>5, <2>1 DEF Origin
  <2>e. PICK e \in Entries(b) : \E s \in Statements(e, b) :
          s.do = do /\ s.key = k /\ Tells(Table(do)[k], s) /\ FirstIn(b, e, s)
    BY <2>1 DEF Origin
  <2>3. PICK s \in Statements(e, b) :
          s.do = do /\ s.key = k /\ Tells(Table(do)[k], s) /\ FirstIn(b, e, s)
    BY <2>e
  <2> HIDE DEF b, n
  <2>4. s \in Wanted(do)
    BY <1>2, <2>2, <2>3
  <2>5. s.entry = e /\ s.block = b /\ BlockOf(e) = b /\ Rank(e) = RankIn(b, e)
    BY <1>3, <2>2, <2>3, StatementsOfEntry, StoredFacts
  <2>6. ASSUME NEW r \in Wanted(do), r.key = s.key
        PROVE  Rank(s.entry) <= Rank(r.entry)
    <3>m. PICK m \in DOMAIN blocks : \E f \in Entries(blocks[m]) : r \in Statements(f, blocks[m]) /\ r.do = do
      BY <1>2
    <3>1. PICK f \in Entries(blocks[m]) : r \in Statements(f, blocks[m]) /\ r.do = do
      BY <3>m
    <3>2. m = n /\ r.entry = f
      BY <1>4, <2>2, <2>3, <2>6, <3>1
    <3>3. Rank(f) = RankIn(b, f) /\ f \in Entries(b)
      BY <2>2, <3>1, <3>2, StoredFacts
    <3>4. RankIn(b, e) <= RankIn(b, f)
      BY <2>2, <2>3, <2>6, <3>1, <3>2, <3>3 DEF FirstIn
    <3> QED
      BY <2>5, <3>2, <3>3, <3>4
  <2>7. s \in First(do)
    BY <2>4, <2>6, FirstFacts
  <2> QED
    BY <2>3, <2>5, <2>7 DEF b
<1>6. ASSUME NEW s \in First(do)
      PROVE  /\ s.key \in KeysStored(Table(do))
             /\ Table(do)[s.key].block = s.block /\ Tells(Table(do)[s.key], s)
  <2>1. s \in Wanted(do) /\ \A r \in Wanted(do) : r.key = s.key => Rank(s.entry) <= Rank(r.entry)
    BY <1>6, FirstFacts
  <2>n. PICK n \in DOMAIN blocks : \E e \in Entries(blocks[n]) : s \in Statements(e, blocks[n]) /\ s.do = do
    BY <1>2, <2>1
  <2>2. PICK e \in Entries(blocks[n]) : s \in Statements(e, blocks[n]) /\ s.do = do
    BY <2>n
  <2>3. s.key \in DOMAIN Table(do)
    BY <2>2 DEF Complete
  <2> DEFINE row == Table(do)[s.key]
             b == row.block
  <2>4. Origin(row, s.key, do)
    BY <2>3 DEF Origins
  <2>f. PICK f \in Entries(b) : \E r \in Statements(f, b) :
          r.do = do /\ r.key = s.key /\ Tells(row, r) /\ FirstIn(b, f, r)
    BY <2>4 DEF Origin
  <2>5. PICK r \in Statements(f, b) :
          r.do = do /\ r.key = s.key /\ Tells(row, r) /\ FirstIn(b, f, r)
    BY <2>f
  <2>6. Number[b] \in DOMAIN canon /\ canon[Number[b]] = b
    BY <2>4 DEF Origin
  <2> HIDE DEF row, b
  <2>7. Number[b] = n
    <3>1. f \in Tx /\ e \in Tx /\ b \in Block
      BY <1>1, <1>3, <2>2, <2>5, <2>6, EntryFacts
    <3>2. Data[e].tx = Data[f].tx
      BY <1>3, <2>2, <2>5, <3>1, StatementsOfEntry
    <3> QED
      BY <1>1, <1>3, <2>2, <2>5, <2>6, <3>2, EntryFacts
  <2>8. blocks[n] = b
    BY <1>3, <2>6, <2>7
  <2>9. r \in Wanted(do) /\ Data[e].tx = Data[f].tx /\ s.entry = e /\ r.entry = f /\ s.block = b
    <3>1. f \in Entries(blocks[n]) /\ r \in Statements(f, blocks[n])
      BY <2>5, <2>8
    <3>2. Data[e].tx = Data[f].tx /\ s.entry = e /\ r.entry = f
      BY <1>4, <2>2, <2>5, <3>1
    <3>3. s.block = b
      BY <1>3, <2>2, <2>8, StatementsOfEntry
    <3> QED
      BY <1>2, <2>5, <3>1, <3>2, <3>3
  <2>10. Rank(e) <= Rank(f) /\ Rank(e) = RankIn(b, e) /\ Rank(f) = RankIn(b, f) /\ BlockOf(e) = b
    BY <2>1, <2>2, <2>5, <2>8, <2>9, StoredFacts
  <2>11. RankIn(b, f) <= RankIn(b, e)
    BY <2>2, <2>5, <2>8 DEF FirstIn
  <2>12. RankIn(b, e) \in Nat /\ RankIn(b, f) \in Nat
    <3>1. e \in Tx /\ f \in Tx
      BY <1>3, <2>2, <2>5, <2>8
    <3> QED
      BY <3>1, LedgerAssumption DEF RankIn, Entry
  <2>13. e = f
    BY <1>1, <1>3, <2>2, <2>5, <2>8, <2>9, <2>10, <2>11, <2>12, EntryFacts
  <2>14. r = s
    BY <1>3, <2>2, <2>5, <2>8, <2>13, StatementsOfEntry
  <2>15. s.key \in KeysStored(Table(do))
    BY <2>3, <2>7 DEF KeysStored, b, row
  <2> QED
    BY <2>5, <2>9, <2>10, <2>14, <2>15 DEF b, row
<1> QED
  BY <1>5, <1>6 DEF KeysStored

------------------------------------------------------------------------------
\* What a statement that writes one of the three tables does.
LEMMA RecordFacts ==
  ASSUME IInv, Record \/ RecordEvent
  PROVE  /\ work # <<>> /\ work' = Tail(work) /\ Head(work).do \in Kinds
         /\ UNCHANGED <<chainVars, control, counts>>
         /\ \E row :
              /\ row.block = Head(work).block /\ Tells(row, Head(work))
              /\ \A do \in Kinds :
                   Table(do)' = IF do = Head(work).do
                                THEN InsertIfAbsent(Table(do), Head(work).key, row) ELSE Table(do)
<1>1. CASE Record
  <2> DEFINE row == [block |-> Head(work).block, to |-> Head(work).to]
  <2>1. /\ UNCHANGED <<chainVars, control, counts, events>> /\ work # <<>> /\ work' = Tail(work)
        /\ \/ /\ Head(work).do = "deposit" /\ withdraws' = withdraws
              /\ deposits' = InsertIfAbsent(deposits, Head(work).key, row)
           \/ /\ Head(work).do = "withdraw" /\ deposits' = deposits
              /\ withdraws' = InsertIfAbsent(withdraws, Head(work).key, row)
    BY <1>1 DEF Record, Doing
  <2>2. row.block = Head(work).block /\ row.to = Head(work).to
    OBVIOUS
  <2> HIDE DEF row
  <2>3. Tells(row, Head(work))
    BY <2>1, <2>2 DEF Tells
  <2>4. \A do \in Kinds : Table(do)' = IF do = Head(work).do
                            THEN InsertIfAbsent(Table(do), Head(work).key, row) ELSE Table(do)
    BY <2>1 DEF Table, Kinds
  <2>5. Head(work).do \in Kinds
    BY <2>1 DEF Kinds
  <2> QED
    BY <2>1, <2>2, <2>3, <2>4, <2>5
<1>2. CASE RecordEvent
  <2> DEFINE row == [entry |-> Head(work).entry, block |-> Head(work).block, live |-> TRUE]
  <2>1. /\ UNCHANGED <<chainVars, control, counts, deposits, withdraws>>
        /\ work # <<>> /\ work' = Tail(work) /\ Head(work).do = "event"
        /\ events' = InsertIfAbsent(events, Head(work).key, row)
    BY <1>2 DEF RecordEvent, Doing
  <2>2. row.block = Head(work).block /\ row.entry = Head(work).entry
    OBVIOUS
  <2> HIDE DEF row
  <2>3. Tells(row, Head(work))
    BY <2>1, <2>2 DEF Tells
  <2>4. \A do \in Kinds : Table(do)' = IF do = Head(work).do
                            THEN InsertIfAbsent(Table(do), Head(work).key, row) ELSE Table(do)
    BY <2>1 DEF Table, Kinds
  <2>5. Head(work).do \in Kinds
    BY <2>1 DEF Kinds
  <2> QED
    BY <2>1, <2>2, <2>3, <2>4, <2>5
<1> QED
  BY <1>1, <1>2

\* A statement whose key is new is the first with it in the block in hand.
LEMMA NewRowIsFirst ==
  ASSUME IInv, mixed = {}, Covered, work # <<>>, NEW e \in Tx, Holds(e), Head(work) \in Ahead,
         Head(work).do \in Kinds, Head(work).key \notin DOMAIN Table(Head(work).do)
  PROVE  /\ e \in Entries(header) /\ Head(work) \in Statements(e, header)
         /\ FirstIn(header, e, Head(work))
<1> DEFINE b == header
           h == Head(work)
<1>1. /\ InBlock /\ Writing /\ cursor \in DOMAIN canon /\ canon[cursor] = header
      /\ header \in Block
  BY HeadOfWork, TypeParts DEF IInv, PlaceOK, ControlOK
<1>2. e \in Entries(b) /\ h \in Statements(e, b)
  BY DEF Holds, Entries
<1>3. \A f \in Entries(b) : f \in Tx /\ Data[f].index \in Nat /\ RankIn(b, f) \in Nat
  <2>1. Entries(b) \subseteq Tx
    BY <1>1, EntryFacts DEF IInv, ChainOK
  <2> QED
    BY <2>1, LedgerAssumption DEF Entry, RankIn
<1>4. ASSUME NEW f \in Entries(b), NEW r \in Statements(f, b), r.do = h.do, r.key = h.key
      PROVE  RankIn(b, e) <= RankIn(b, f)
  <2>1. CASE f \in Taken
    <3>1. r \in Ahead
      BY <1>1, <1>4, <2>1 DEF Covered
    <3>2. r \in Statements(e, b)
      BY <3>1 DEF Holds
    <3>3. r.entry = e /\ r.entry = f
      BY <1>1, <1>3, <1>4, <3>2, StatementsOfEntry
    <3> QED
      BY <1>3, <3>3
  <2>2. CASE stage = "natives"
    <3>1. e \in Natives[b]
      BY <2>2 DEF Holds
    <3>2. RankIn(b, e) = 0
      BY <3>1 DEF RankIn
    <3> QED
      BY <1>3, <3>2
  <2>3. CASE f \notin Taken /\ stage = "logs"
    <3>1. f \in todo /\ f \notin Natives[b]
      BY <2>3 DEF Taken, Entries
    <3>2. Data[e].index <= Data[f].index
      BY <2>3, <3>1 DEF Holds
    <3> QED
      BY <1>2, <1>3, <3>1, <3>2 DEF RankIn
  <2> QED
    BY <1>1, <2>1, <2>2, <2>3 DEF Writing
<1> QED
  BY <1>2, <1>4 DEF FirstIn

LEMMA OnceRecord ==
  ASSUME IInv, mixed = {}, Origins, Complete, Covered, EntryInHand, TodoInBlock, Record \/ RecordEvent
  PROVE  Origins' /\ Complete' /\ Covered' /\ EntryInHand' /\ TodoInBlock'
<1> DEFINE h == Head(work)
<1>1. /\ work # <<>> /\ work' = Tail(work) /\ h.do \in Kinds
      /\ UNCHANGED <<chainVars, control, counts>>
  BY RecordFacts
<1>2. PICK row :
        /\ row.block = h.block /\ Tells(row, h)
        /\ \A do \in Kinds : Table(do)' = IF do = h.do THEN InsertIfAbsent(Table(do), h.key, row) ELSE Table(do)
  BY RecordFacts
<1>3. Ahead = {h} \cup Ahead'
  BY <1>1, AheadFacts DEF IInv
<1>4. /\ InBlock /\ cursor \in DOMAIN canon /\ canon[cursor] = header /\ header \in Block
      /\ Number[header] = cursor
  BY <1>1, HeadOfWork, TypeParts DEF IInv, PlaceOK, ControlOK
<1>5. PICK e \in Tx : Holds(e)
  BY <1>1 DEF EntryInHand
<1>6. /\ canon' = canon /\ stage' = stage /\ cursor' = cursor /\ todo' = todo /\ blocks' = blocks
      /\ header' = header
      /\ InBlock' = InBlock /\ Taken' = Taken
  BY <1>1 DEF chainVars, control, InBlock, Taken
<1> HIDE DEF h
<1>7. \A do \in Kinds :
        /\ \A k \in DOMAIN Table(do) : k \in DOMAIN Table(do)' /\ Table(do)'[k] = Table(do)[k]
        /\ \A k \in DOMAIN Table(do)' :
             k \in DOMAIN Table(do) \/ (do = h.do /\ k = h.key /\ Table(do)'[k] = row)
        /\ do = h.do => h.key \in DOMAIN Table(do)'
  BY <1>2 DEF InsertIfAbsent
<1>8. Complete'
  BY <1>6, <1>7 DEF Complete
<1>9. Covered'
  BY <1>3, <1>6, <1>7 DEF Covered
<1>10. EntryInHand'
  <2>1. Holds(e)'
    BY <1>3, <1>5, <1>6 DEF Holds
  <2> QED
    BY <2>1 DEF EntryInHand
<1>11. TodoInBlock'
  BY <1>6 DEF TodoInBlock
<1>12. Origins'
  <2>1. \A r, k, do : Origin(r, k, do)' <=> Origin(r, k, do)
    BY <1>6 DEF Origin
  <2>2. h.key \notin DOMAIN Table(h.do) => Origin(row, h.key, h.do)
    <3> SUFFICES ASSUME h.key \notin DOMAIN Table(h.do)
                 PROVE  Origin(row, h.key, h.do)
      OBVIOUS
    <3>1. e \in Entries(header) /\ h \in Statements(e, header) /\ FirstIn(header, e, h)
      BY <1>1, <1>3, <1>5, NewRowIsFirst DEF h
    <3>2. row.block = header
      BY <1>1, <1>2, <1>4, <3>1, StatementsOfEntry DEF h
    <3> QED
      BY <1>2, <1>4, <3>1, <3>2 DEF Origin
  <2>3. ASSUME NEW do \in Kinds, NEW k \in DOMAIN Table(do)'
        PROVE  Origin(Table(do)'[k], k, do)
    BY <1>7, <2>2, <2>3 DEF Origins
  <2> QED
    BY <2>1, <2>3 DEF Origins
<1> QED
  BY <1>8, <1>9, <1>10, <1>11, <1>12

\* The steps between two entries.
LEMMA OnceScan ==
  ASSUME IInv, OnChain, mixed = {}, Origins, Complete, Covered, EntryInHand, TodoInBlock,
         \/ BeginBlock \/ FetchNatives \/ FetchLogs \/ SaveBlock
         \/ \E e \in Tx : TakeNative(e) \/ TakeLog(e)
  PROVE  Origins' /\ Complete' /\ Covered' /\ EntryInHand' /\ TodoInBlock'
<1>1. work = <<>> /\ UNCHANGED <<chainVars, ledger>>
  BY DEF IInv, PlaceOK, Writing, BeginBlock, FetchNatives, FetchLogs, SaveBlock, Advance,
     TakeNative, TakeLog, NextLog
<1>2. Ahead = {} /\ canon' = canon /\ \A do : Table(do)' = Table(do)
  BY <1>1, AheadFacts DEF Table, ledger, chainVars
<1>3. Origins'
  BY <1>2 DEF Origins, Origin
<1>4. InBlock => cursor \in DOMAIN canon /\ canon[cursor] = header /\ (stage = "logs" => source = header)
  BY DEF IInv, PlaceOK
<1>5. CASE BeginBlock
  <2>1. stage' = "header" /\ UNCHANGED <<blocks, work>>
    BY <1>5 DEF BeginBlock
  <2>2. Taken' = {}
    BY <2>1 DEF Taken
  <2>3. Complete' /\ Covered' /\ EntryInHand' /\ TodoInBlock'
    BY <1>1, <1>2, <2>1, <2>2 DEF Complete, Covered, EntryInHand, TodoInBlock
  <2> QED
    BY <1>3, <2>3
<1>6. CASE FetchNatives
  <2>1. /\ stage = "header" /\ stage' = "natives" /\ todo' = Natives[header]
        /\ UNCHANGED <<blocks, work, header>>
    BY <1>4, <1>6 DEF FetchNatives, NativesAt, InBlock
  <2>2. Taken' = {}
    BY <2>1 DEF Taken
  <2>3. Complete' /\ Covered' /\ EntryInHand' /\ TodoInBlock'
    BY <1>1, <1>2, <2>1, <2>2 DEF Complete, Covered, EntryInHand, TodoInBlock
  <2> QED
    BY <1>3, <2>3
<1>7. CASE FetchLogs
  <2>1. /\ stage = "natives" /\ todo = {} /\ stage' = "logs" /\ todo' = Logs[header]
        /\ UNCHANGED <<blocks, work, header>>
    BY <1>4, <1>7 DEF FetchLogs, LogsAt, InBlock
  <2>2. Taken' = Taken /\ InBlock
    BY <2>1 DEF Taken, InBlock
  <2>3. Complete' /\ Covered' /\ EntryInHand' /\ TodoInBlock'
    BY <1>1, <1>2, <2>1, <2>2 DEF Complete, Covered, EntryInHand, TodoInBlock
  <2> QED
    BY <1>3, <2>3
<1>8. CASE \E e \in Tx : TakeNative(e) \/ TakeLog(e)
  <2>1. PICK e \in Tx : TakeNative(e) \/ TakeLog(e)
    BY <1>8
  <2>2. /\ e \in todo /\ todo' = todo \ {e} /\ InBlock /\ stage \in {"natives", "logs"}
        /\ UNCHANGED <<blocks, stage, header>>
        /\ stage = "logs" => \A f \in todo : Data[e].index <= Data[f].index
    BY <2>1, NextLogFacts DEF TakeNative, InBlock
  <2>3. work' = Work(e, header, header)
    <3>1. CASE TakeNative(e)
      BY <3>1 DEF TakeNative
    <3>2. CASE TakeLog(e)
      <4>1. stage = "logs" /\ e \in Logs[header]
        BY <2>2, <3>2, NextLogFacts DEF TodoInBlock
      <4>2. Executed(e)
        BY <1>4, <2>2, <4>1 DEF Executed
      <4>3. work' = When(Executed(e) /\ cursor \in DOMAIN canon, Work(e, canon[cursor], source))
        BY <3>2 DEF TakeLog
      <4> QED
        BY <1>4, <2>2, <4>1, <4>2, <4>3 DEF When
    <3> QED
      BY <2>1, <3>1, <3>2
  <2>4. Ahead' = Statements(e, header)
    BY <2>3 DEF Ahead, Statements
  <2>5. Taken' \subseteq Taken \cup {e}
    BY <2>2 DEF Taken
  <2>6. InBlock' /\ Complete' /\ TodoInBlock'
    BY <1>2, <2>2 DEF InBlock, Complete, TodoInBlock
  <2>7. Covered'
    BY <1>2, <2>2, <2>4, <2>5 DEF Covered
  <2>8. Holds(e)'
    BY <1>2, <2>2, <2>4 DEF Holds, TodoInBlock
  <2> QED
    BY <1>3, <2>6, <2>7, <2>8 DEF EntryInHand
<1>9. CASE SaveBlock
  <2>1. /\ stage = "logs" /\ todo = {} /\ stage' = "idle" /\ UNCHANGED work
        /\ blocks' = InsertIfAbsent(blocks, cursor, header)
    BY <1>9 DEF SaveBlock, Advance, SaveBlockRow
  <2>2. InBlock /\ Taken = Entries(header)
    BY <2>1 DEF InBlock, Taken, Entries
  <2>3. \A n \in DOMAIN blocks' :
          (n \in DOMAIN blocks /\ blocks'[n] = blocks[n]) \/ blocks'[n] = header
    BY <2>1 DEF InsertIfAbsent
  <2>4. \A e \in Entries(header) : \A s \in Statements(e, header) :
          s.do \in Kinds => s.key \in DOMAIN Table(s.do)
    BY <1>2, <2>2 DEF Covered
  <2>5. Complete'
    BY <1>2, <2>3, <2>4 DEF Complete
  <2>6. Covered' /\ EntryInHand' /\ TodoInBlock'
    BY <1>1, <2>1 DEF InBlock, Covered, EntryInHand, TodoInBlock
  <2> QED
    BY <1>3, <2>5, <2>6
<1> QED
  BY <1>5, <1>6, <1>7, <1>8, <1>9

LEMMA OnceStep ==
  ASSUME IInv, ChainInv, OnceInv, [Next]_vars
  PROVE  OnceInv'
<1> SUFFICES ASSUME reorgs' = 0, swallowed' = 0
             PROVE  Origins' /\ Complete' /\ Covered' /\ EntryInHand' /\ TodoInBlock'
  BY DEF OnceInv
<1>1. /\ reorgs \in Nat /\ swallowed \in Nat
      /\ \A e : ~SkipLog(e)
      /\ ~StatementFails /\ ~FetchNativesFails /\ ~SaveBlockFails
  BY TypeParts DEF IInv, ChainOK, CountsOK, SkipLog, StatementFails, FetchNativesFails, SaveBlockFails,
     Swallowed
<1>2. CASE Environment
  <2>1. /\ ChainNext
        /\ UNCHANGED <<ledger, blocks, stage, cursor, todo, header, work, counts>>
    BY <1>2 DEF Environment
  <2>2. Grow /\ reorgs' = reorgs /\ swallowed' = swallowed
    BY <1>1, <2>1 DEF ChainNext, Reorg, Grow, counts
  <2>3. Origins /\ Complete /\ Covered /\ EntryInHand /\ TodoInBlock
    BY <2>2 DEF OnceInv
  <2>4. \A n \in DOMAIN canon : n \in DOMAIN canon' /\ canon'[n] = canon[n]
    BY <2>2, GrowFacts DEF IInv, ChainOK
  <2>5. \A do : Table(do)' = Table(do)
    BY <2>1 DEF Table, ledger
  <2>6. Origins'
    BY <2>3, <2>4, <2>5 DEF Origins, Origin
  <2>7. Complete'
    BY <2>1, <2>3, <2>5 DEF Complete
  <2>8. InBlock' = InBlock /\ Taken' = Taken /\ Ahead' = Ahead
    BY <2>1 DEF InBlock, Taken, Ahead
  <2>9. Covered'
    BY <2>1, <2>3, <2>5, <2>8 DEF Covered
  <2>10. EntryInHand' /\ TodoInBlock'
    BY <2>1, <2>3, <2>8 DEF EntryInHand, Holds, TodoInBlock
  <2> QED
    BY <2>6, <2>7, <2>9, <2>10
<1>3. CASE ~Environment
  <2>1. UNCHANGED chainVars
    BY <1>1, <1>3 DEF Next, Scanning, Failing, Resume, StartAfresh, BeginBlock, Rollback, RollBackTo,
       FetchNatives, FetchLogs, SaveBlock, Advance, Record, UpdateBalance, SetBalance, RecordTransaction,
       RecordEvent, Panics, TakeNative, TakeLog, NextLog, FetchLogsFails, Crash, Die, vars
  <2>2. swallowed = 0
    BY <1>1, <1>3 DEF Next, Scanning, Failing, Resume, StartAfresh, BeginBlock, Rollback, RollBackTo,
       FetchNatives, FetchLogs, SaveBlock, Advance, Record, UpdateBalance, SetBalance, RecordTransaction,
       RecordEvent, Panics, TakeNative, TakeLog, NextLog, FetchLogsFails, Crash, Die, vars, counts,
       Swallowed
  <2>3. /\ OnChain /\ mixed = {} /\ Origins /\ Complete /\ Covered /\ EntryInHand /\ TodoInBlock
        /\ \E n \in Nat : ScannedTo(n)
    BY <2>1, <2>2 DEF chainVars, ChainInv, OnceInv
  <2>4. CASE \/ BeginBlock \/ FetchNatives \/ FetchLogs \/ SaveBlock
             \/ \E e \in Tx : TakeNative(e) \/ TakeLog(e)
    BY <2>3, <2>4, OnceScan
  <2>5. CASE Record \/ RecordEvent
    BY <2>3, <2>5, OnceRecord
  <2>6. CASE Resume \/ StartAfresh \/ Panics \/ Crash \/ FetchLogsFails
    <3>1. /\ UNCHANGED <<ledger, blocks>> /\ stage' \in {"down", "idle"} /\ work' = <<>>
      BY <2>6 DEF Resume, StartAfresh, Panics, Crash, Die, FetchLogsFails, IInv, PlaceOK, Writing
    <3>2. canon' = canon /\ \A do : Table(do)' = Table(do)
      BY <2>1, <3>1 DEF Table, ledger, chainVars
    <3>3. Origins' /\ Complete'
      BY <2>3, <3>1, <3>2 DEF Origins, Origin, Complete
    <3> QED
      BY <3>1, <3>3 DEF Covered, EntryInHand, TodoInBlock, InBlock
  <2>7. CASE UpdateBalance \/ RecordTransaction
    <3>1. /\ work # <<>> /\ work' = Tail(work) /\ Head(work).do \notin Kinds
          /\ UNCHANGED <<deposits, withdraws, events, control>>
      BY <2>7 DEF UpdateBalance, SetBalance, RecordTransaction, Doing, Kinds
    <3>2. canon' = canon /\ \A do : Table(do)' = Table(do)
      BY <2>1, <3>1 DEF Table, chainVars
    <3>3. Ahead = {Head(work)} \cup Ahead'
      BY <3>1, AheadFacts DEF IInv
    <3>4. /\ stage' = stage /\ header' = header /\ todo' = todo /\ blocks' = blocks
          /\ InBlock' = InBlock /\ Taken' = Taken
      BY <3>1 DEF control, InBlock, Taken
    <3>5. Origins' /\ Complete' /\ TodoInBlock'
      BY <2>3, <3>2, <3>4 DEF Origins, Origin, Complete, TodoInBlock
    <3>6. Covered'
      BY <2>3, <3>1, <3>2, <3>3, <3>4 DEF Covered
    <3>7. EntryInHand'
      BY <2>3, <3>1, <3>3, <3>4 DEF EntryInHand, Holds
    <3> QED
      BY <3>5, <3>6, <3>7
  <2>8. CASE UNCHANGED vars
    <3>1. \A do : Table(do)' = Table(do)
      BY <2>8 DEF Table, vars, ledger
    <3>2. /\ canon' = canon /\ blocks' = blocks /\ stage' = stage /\ todo' = todo /\ work' = work
          /\ header' = header /\ Ahead' = Ahead /\ InBlock' = InBlock /\ Taken' = Taken
      BY <2>8 DEF vars, chainVars, control, Ahead, InBlock, Taken
    <3>3. Origins' /\ Complete'
      BY <2>3, <3>1, <3>2 DEF Origins, Origin, Complete
    <3>4. Covered'
      BY <2>3, <3>1, <3>2 DEF Covered
    <3>5. EntryInHand' /\ TodoInBlock'
      BY <2>3, <3>2 DEF EntryInHand, Holds, TodoInBlock
    <3> QED
      BY <3>3, <3>4, <3>5
  <2>9. ~Rollback
    BY <2>3, NoMismatch
  <2> QED
    BY <1>1, <1>3, <2>4, <2>5, <2>6, <2>7, <2>8, <2>9 DEF Next, Scanning, Failing
<1> QED
  BY <1>2, <1>3

\* Wherever the process dies or an error ends the block, the deposits, withdraws and events
\* of the stored blocks are those of one uninterrupted scan, for every tree, every set of
\* entries and any number of crashes, as long as the branch does not change and no error is
\* only logged (processBlock, processLog, SaveDeposit, SaveWithdraw, SaveEvent).
THEOREM ScansAmountToOne == Spec => []AsIfScannedOnce
<1>1. Init => OnceInv
  <2> SUFFICES ASSUME Init
               PROVE  OnceInv
    OBVIOUS
  <2>1. DOMAIN Empty = {}
    BY DEF Empty
  <2>2. blocks = Empty /\ (\A do : Table(do) = Empty) /\ stage = "down" /\ work = <<>>
    BY DEF Init, Table
  <2> QED
    BY <2>1, <2>2 DEF OnceInv, Origins, Complete, Covered, InBlock, EntryInHand, TodoInBlock
<1>2. IInv /\ ChainInv /\ OnceInv /\ [Next]_vars => OnceInv'
  BY OnceStep
<1>3. IInv /\ ChainInv /\ OnceInv => AsIfScannedOnce
  <2> SUFFICES ASSUME IInv, OnChain, Origins, Complete
               PROVE  /\ MovementsOnce(deposits, "deposit") /\ MovementsOnce(withdraws, "withdraw")
                      /\ {<<k, events[k].entry>> : k \in KeysStored(events)}
                           = {<<s.key, s.entry>> : s \in First("event")}
    BY DEF ChainInv, OnceInv, AsIfScannedOnce
  <2>1. /\ "deposit" \in Kinds /\ "withdraw" \in Kinds /\ "event" \in Kinds
        /\ Table("deposit") = deposits /\ Table("withdraw") = withdraws /\ Table("event") = events
    BY DEF Kinds, Table
  <2>2. \A do : \A s \in First(do) : s.do = do
    BY FirstFacts DEF Wanted
  <2>3. MovementsOnce(deposits, "deposit")
    BY <2>1, <2>2, OnceForAll DEF MovementsOnce, Tells
  <2>4. MovementsOnce(withdraws, "withdraw")
    BY <2>1, <2>2, OnceForAll DEF MovementsOnce, Tells
  <2>5. {<<k, events[k].entry>> : k \in KeysStored(events)} = {<<s.key, s.entry>> : s \in First("event")}
    BY <2>1, <2>2, OnceForAll DEF Tells
  <2> QED
    BY <2>3, <2>4, <2>5
<1> QED
  BY <1>1, <1>2, <1>3, Invariant, ChainInvariant, PTL DEF Spec

=================================================================================
