--------------------------- MODULE ChainScan_proofs ---------------------------
(***************************************************************************)
(* Proofs about ChainScan for every block tree, every setting and every    *)
(* bound on failures, reorganisations and restarts.                        *)
(***************************************************************************)
EXTENDS ChainScan, TLAPS

\* Rows of a table stay when a row is inserted; the new key has a row afterwards.
LEMMA InsertFacts ==
  ASSUME NEW table, NEW key, NEW row
  PROVE  LET after == InsertIfAbsent(table, key, row) IN
         /\ DOMAIN after = DOMAIN table \cup {key}
         /\ \A k \in DOMAIN table : after[k] = table[k]
         /\ key \notin DOMAIN table => after[key] = row
         /\ after = [k \in DOMAIN after |-> after[k]]
  BY DEF InsertIfAbsent

\* What a rollback leaves of the blocks table.
LEMMA RollbackFacts ==
  ASSUME NEW table, NEW target
  PROVE  LET after == RollbackBlockRows(table, target) IN
         /\ DOMAIN after = {n \in DOMAIN table : n <= target}
         /\ \A n \in DOMAIN after : after[n] = table[n]
         /\ after = [n \in DOMAIN after |-> after[n]]
  BY DEF RollbackBlockRows

Row == [block : Block, live : BOOLEAN, final : BOOLEAN]

\* The three statements on the events table give rows of the right type.
EventTableOK(table) == DOMAIN table \subseteq Tx /\ table \in [DOMAIN table -> Row]

LEMMA SaveEventFacts ==
  ASSUME NEW table, EventTableOK(table), NEW t \in Tx, NEW b \in Block
  PROVE  EventTableOK(SaveEventRow(table, t, b))
<1>1. EventRow(b) \in Row
  BY DEF EventRow, Row
<1> QED
  BY <1>1 DEF EventTableOK, SaveEventRow, InsertIfAbsent

LEMMA RollbackEventFacts ==
  ASSUME NEW table, EventTableOK(table), NEW n \in Nat
  PROVE  EventTableOK(RollbackEventRows(table, Number, n))
<1>1. ASSUME NEW k \in DOMAIN table
      PROVE  [table[k] EXCEPT !.live = @ /\ Number[table[k].block] <= n] \in Row
  BY <1>1 DEF Row, EventTableOK
<1> QED
  BY <1>1 DEF RollbackEventRows, EventTableOK

LEMMA FinalizeEventFacts ==
  ASSUME NEW table, EventTableOK(table), NEW n \in Nat, NEW c \in Nat
  PROVE  EventTableOK(FinalizeEventRows(table, Number, n, c))
<1>1. ASSUME NEW k \in DOMAIN table
      PROVE  [table[k] EXCEPT !.final = @ \/ Number[table[k].block] + c <= n] \in Row
  BY <1>1 DEF Row, EventTableOK
<1> QED
  BY <1>1 DEF FinalizeEventRows, EventTableOK

------------------------------------------------------------------------------
(* Type correctness. *)

\* The head of a canonical chain is its largest height.
LEMMA HeadFacts ==
  ASSUME NEW c \in Chains
  PROVE  /\ HeadHeight(c) \in 0..MaxHeight /\ HeadHeight(c) \in Nat
         /\ DOMAIN c = 0..HeadHeight(c)
         /\ \A n \in DOMAIN c : c[n] \in Block /\ Number[c[n]] = n
<1>1. PICK h \in 0..MaxHeight :
         /\ c \in [0..h -> Block]
         /\ \A n \in 0..h : Number[c[n]] = n
  BY ChainAssumption
<1>2. DOMAIN c = 0..h
  BY <1>1
<1>3. HeadHeight(c) \in 0..MaxHeight /\ DOMAIN c = 0..HeadHeight(c)
  BY <1>2 DEF HeadHeight
<1> QED
  BY <1>1, <1>2, <1>3, BlockAssumption

\* The rollback target is a height.
LEMMA TargetFacts ==
  ASSUME NEW n \in Nat
  PROVE  RollbackTarget(n) \in Nat /\ RollbackTarget(n) <= n
  BY ConfigAssumption DEF RollbackTarget, Depth

\* A failure is counted within its bound, and only its own counter moves.
CountsOK ==
  /\ faults \in 0..MaxFaults /\ swallowed \in 0..MaxSwallowed
  /\ restarts \in 0..MaxRestarts

LEMMA CountFacts ==
  ASSUME CountsOK, Fault \/ Swallowed \/ NoFault
  PROVE  CountsOK'
  BY ConfigAssumption DEF CountsOK, Fault, Swallowed, NoFault, counts

\* Every reachable state has the types of TypeOK.
THEOREM TypeCorrect == Spec => []TypeOK
<1>1. Init => TypeOK
  BY BlockAssumption, ConfigAssumption, ChainAssumption
  DEF Init, ChainInit, TypeOK, Phases, EventRow
<1>2. TypeOK /\ [Next]_vars => TypeOK'
  <2> SUFFICES ASSUME TypeOK, [Next]_vars
               PROVE  TypeOK'
    OBVIOUS
  <2> USE DEF TypeOK
  <2>0. CountsOK /\ EventTableOK(events)
    BY DEF CountsOK, EventTableOK, Row
  <2>1. CASE Environment
    BY <2>1, ConfigAssumption, SMTT(40)
    DEF Environment, ChainNext, Grow, Reorg, tables, locals, counts
  <2>2. CASE Resume
    BY <2>2 DEF Resume, Begin, NoFault, Phases, tables, chainVars, counts
  <2>3. CASE StartAfresh
    <3>1. CountsOK'
      BY <2>0, <2>3, CountFacts DEF StartAfresh
    <3>2. cursor' \in Nat
      BY <2>3, HeadFacts, ConfigAssumption, BlockAssumption DEF StartAfresh, Begin
    <3> QED
      BY <2>3, <3>1, <3>2 DEF StartAfresh, Begin, CountsOK, Phases, tables, chainVars
  <2>4. CASE StartFails
    <3>1. CountsOK'
      BY <2>0, <2>4, CountFacts DEF StartFails
    <3> QED
      BY <2>4, <3>1 DEF StartFails, CountsOK, Phases, tables, chainVars
  <2>5. CASE Tick
    BY <2>5, HeadFacts DEF Tick, NoFault, Phases, tables, chainVars, counts
  <2>6. CASE ReadHeader
    BY <2>6, HeadFacts DEF ReadHeader, NoFault, Phases, tables, chainVars, counts
  <2>7. CASE ReadHeaderFails \/ RollbackFails \/ FilterLogsFails
    <3>1. CountsOK'
      BY <2>0, <2>7, CountFacts DEF ReadHeaderFails, RollbackFails, FilterLogsFails
    <3> QED
      BY <2>7, <3>1 DEF ReadHeaderFails, RollbackFails, FilterLogsFails, Abandon,
         CountsOK, Phases, tables, chainVars
  <2>8. CASE SendRollbackNotices
    BY <2>8 DEF SendRollbackNotices, NoFault, Phases, tables, chainVars, counts
  <2>9. CASE Rollback
    <3> DEFINE target == RollbackTarget(cursor)
    <3>1. target \in Nat
      BY TargetFacts
    <3>2. DOMAIN blocks' \subseteq Nat /\ blocks' \in [DOMAIN blocks' -> Block]
      BY <2>9, <3>1, RollbackFacts DEF Rollback, RollbackBlockRows
    <3>3. EventTableOK(events')
      BY <2>0, <2>9, <3>1, RollbackEventFacts DEF Rollback
    <3> QED
      BY <2>9, <3>1, <3>2, <3>3
      DEF Rollback, NoFault, Phases, chainVars, counts, EventTableOK, Row
  <2>10. CASE ReadReceipts
    BY <2>10, EventAssumption, HeadFacts
    DEF ReadReceipts, Load, NativesAt, NoFault, Phases, tables, chainVars, counts
  <2>11. CASE ReadReceiptsFails
    <3>1. CountsOK'
      BY <2>0, <2>11, CountFacts DEF ReadReceiptsFails
    <3> QED
      BY <2>11, <3>1 DEF ReadReceiptsFails, CountsOK, Phases, tables, chainVars
  <2>12. CASE FilterLogs
    BY <2>12, EventAssumption, HeadFacts
    DEF FilterLogs, Load, LogsAt, NoFault, Phases, tables, chainVars, counts
  <2>13. ASSUME NEW t \in Tx, SaveNative(t) \/ SaveLog(t)
         PROVE  TypeOK'
    <3>1. events' \in {events, SaveEventRow(events, t, stamp)}
      BY <2>13 DEF SaveNative, SaveLog
    <3>2. EventTableOK(events')
      BY <2>0, <3>1, SaveEventFacts
    <3> QED
      BY <2>13, <3>2 DEF SaveNative, SaveLog, Done, Load, NoFault, Phases, chainVars,
         counts, EventTableOK, Row
  <2>14. ASSUME NEW t \in Tx, SkipRow(t)
         PROVE  TypeOK'
    <3>1. CountsOK'
      BY <2>0, <2>14, CountFacts DEF SkipRow
    <3> QED
      BY <2>14, <3>1 DEF SkipRow, Done, Load, CountsOK, Phases, chainVars
  <2>15. CASE SaveBlock
    <3>1. DOMAIN blocks' \subseteq Nat /\ blocks' \in [DOMAIN blocks' -> Block]
      BY <2>15 DEF SaveBlock, SaveBlockRow, InsertIfAbsent
    <3> QED
      BY <2>15, <3>1 DEF SaveBlock, Advance, NoFault, Phases, chainVars, counts
  <2>16. CASE SaveBlockFails
    <3>1. CountsOK'
      BY <2>0, <2>16, CountFacts DEF SaveBlockFails
    <3> QED
      BY <2>16, <3>1 DEF SaveBlockFails, Advance, CountsOK, Phases, chainVars
  <2>17. CASE ReadHeadHeight
    BY <2>17, HeadFacts DEF ReadHeadHeight, NoFault, Phases, tables, locals, chainVars, counts
  <2>18. CASE UpdateConfirmations
    <3>1. seenHead \in Nat /\ Confirmations \in Nat
      BY <2>18, ConfigAssumption DEF UpdateConfirmations
    <3>2. EventTableOK(events')
      BY <2>0, <2>18, <3>1, FinalizeEventFacts DEF UpdateConfirmations
    <3> QED
      BY <2>18, <3>2
      DEF UpdateConfirmations, NoFault, locals, chainVars, counts, EventTableOK, Row
  <2>19. CASE Stop
    BY <2>19, BlockAssumption, ConfigAssumption DEF Stop, Phases, tables, chainVars
  <2>20. CASE UNCHANGED vars
    BY <2>20 DEF vars, chainVars, tables, locals, counts
  <2> QED
    BY <2>1, <2>2, <2>3, <2>4, <2>5, <2>6, <2>7, <2>8, <2>9, <2>10, <2>11, <2>12,
       <2>13, <2>14, <2>15, <2>16, <2>17, <2>18, <2>19, <2>20
    DEF Next, Progress, Failure, Updater
<1> QED
  BY <1>1, <1>2, PTL DEF Spec

------------------------------------------------------------------------------
(* The blocks table is one branch without holes.                           *)
(*                                                                         *)
(* BlocksLinked is not inductive: SaveBlock relies on the comparison that  *)
(* detectReorg made several steps earlier.  HeaderFits carries its outcome *)
(* from there to SaveBlock; it survives because nobody else writes the     *)
(* table.  HasLast says that the comparison was made with some row.        *)

HasLast(table) == DOMAIN table # {} => \E n \in DOMAIN table : IsLastRow(table, n)

FitsOn(table, b) ==
  \A n \in DOMAIN table : IsLastRow(table, n) => table[n] = Parent[b]

LinkedTable(table) ==
  /\ DOMAIN table \subseteq Nat
  /\ \A n \in DOMAIN table :
       /\ table[n] \in Block /\ Number[table[n]] = n
       /\ n > 0 /\ n - 1 \in DOMAIN table => table[n-1] = Parent[table[n]]
  /\ \A m, n \in DOMAIN table : \A k \in m..n : m > 0 => k \in DOMAIN table
  /\ HasLast(table)

Scanning == phase \in {"receipts", "natives", "filter", "logs", "save"}

HeaderFits ==
  Scanning => Number[header] = cursor /\ (cursor > 0 => FitsOn(blocks, header))

IInv == TypeOK /\ LinkedTable(blocks) /\ HeaderFits

\* The parent check makes the new row the successor of the last one.
LEMMA FitsAbove ==
  ASSUME NEW table, LinkedTable(table), NEW b \in Block, Number[b] > 0,
         FitsOn(table, b), DOMAIN table # {}
  PROVE  /\ IsLastRow(table, Number[b] - 1)
         /\ table[Number[b] - 1] = Parent[b]
         /\ Number[b] \notin DOMAIN table
<1>1. PICK n \in DOMAIN table : IsLastRow(table, n)
  BY DEF LinkedTable, HasLast
<1>2. table[n] = Parent[b] /\ Number[Parent[b]] = n /\ n \in Nat
  BY <1>1 DEF FitsOn, LinkedTable
<1>3. b # Genesis /\ Number[b] = n + 1
  BY <1>2, BlockAssumption
<1>4. n = Number[b] - 1
  BY <1>2, <1>3
<1>5. Number[b] \notin DOMAIN table
  BY <1>1, <1>2, <1>3 DEF IsLastRow, LinkedTable
<1> QED
  BY <1>1, <1>2, <1>4, <1>5

\* A row for a block that fits keeps the table linked.
LEMMA ExtendLinked ==
  ASSUME NEW table, LinkedTable(table),
         NEW b \in Block, NEW k \in Nat, Number[b] = k, k > 0 => FitsOn(table, b),
         NEW after,
         DOMAIN after = DOMAIN table \cup {k},
         \A n \in DOMAIN table : after[n] = table[n],
         k \notin DOMAIN table => after[k] = b
  PROVE  LinkedTable(after)
<1>2. CASE k \in DOMAIN table
  <2>1. DOMAIN after = DOMAIN table /\ \A n \in DOMAIN table : after[n] = table[n]
    BY <1>2
  <2> QED
    BY <2>1 DEF LinkedTable, HasLast, IsLastRow
<1>3. CASE k \notin DOMAIN table /\ DOMAIN table = {}
  <2>1. DOMAIN after = {k} /\ after[k] = b
    BY <1>3
  <2> QED
    BY <2>1 DEF LinkedTable, HasLast, IsLastRow
<1>4. CASE k \notin DOMAIN table /\ DOMAIN table # {} /\ k > 0
  <2>1. IsLastRow(table, k - 1) /\ table[k-1] = Parent[b]
    BY <1>4, FitsAbove
  <2>2. after[k] = b /\ \A n \in DOMAIN table : n <= k - 1
    BY <1>4, <2>1 DEF IsLastRow
  <2>3. \A n \in DOMAIN after :
          /\ after[n] \in Block /\ Number[after[n]] = n
          /\ n > 0 /\ n - 1 \in DOMAIN after => after[n-1] = Parent[after[n]]
    <3> SUFFICES ASSUME NEW n \in DOMAIN after
                 PROVE  /\ after[n] \in Block /\ Number[after[n]] = n
                        /\ n > 0 /\ n - 1 \in DOMAIN after => after[n-1] = Parent[after[n]]
      OBVIOUS
    <3>1. CASE n = k
      <4>1. k - 1 \in DOMAIN table /\ after[k-1] = Parent[b]
        BY <2>1 DEF IsLastRow
      <4> QED
        BY <3>1, <4>1, <2>2
    <3>2. CASE n \in DOMAIN table
      <4>1. n \in Nat /\ n <= k - 1
        BY <3>2, <2>2 DEF LinkedTable
      <4>2. n - 1 \in DOMAIN after => n - 1 \in DOMAIN table
        BY <4>1
      <4> QED
        BY <3>2, <4>2 DEF LinkedTable
    <3> QED
      BY <3>1, <3>2
  <2>4. \A m, n \in DOMAIN after : \A i \in m..n : m > 0 => i \in DOMAIN after
    <3> SUFFICES ASSUME NEW m \in DOMAIN after, NEW n \in DOMAIN after, NEW i \in m..n, m > 0
                 PROVE  i \in DOMAIN after
      OBVIOUS
    <3>1. m \in Nat /\ n \in Nat /\ i \in Nat
      BY DEF LinkedTable
    <3>2. CASE i = k
      BY <3>2
    <3>3. CASE i # k
      <4>1. n <= k /\ i <= k - 1 /\ m # k
        BY <2>2, <3>1, <3>3
      <4>2. m \in DOMAIN table /\ k - 1 \in DOMAIN table /\ i \in m..(k-1)
        BY <2>1, <3>1, <4>1 DEF IsLastRow
      <4> QED
        BY <4>2 DEF LinkedTable
    <3> QED
      BY <3>2, <3>3
  <2>5. HasLast(after)
    <3>1. \A n \in DOMAIN after : n <= k
      BY <2>2 DEF LinkedTable
    <3> QED
      BY <3>1 DEF HasLast, IsLastRow
  <2>6. DOMAIN after \subseteq Nat
    BY DEF LinkedTable
  <2> QED
    BY <2>3, <2>4, <2>5, <2>6 DEF LinkedTable
<1>5. CASE k \notin DOMAIN table /\ DOMAIN table # {} /\ k = 0
  <2>1. after[k] = b /\ b = Genesis
    BY <1>5, BlockAssumption
  <2>2. \A n \in DOMAIN after :
          /\ after[n] \in Block /\ Number[after[n]] = n
          /\ n > 0 /\ n - 1 \in DOMAIN after => after[n-1] = Parent[after[n]]
    <3> SUFFICES ASSUME NEW n \in DOMAIN after
                 PROVE  /\ after[n] \in Block /\ Number[after[n]] = n
                        /\ n > 0 /\ n - 1 \in DOMAIN after => after[n-1] = Parent[after[n]]
      OBVIOUS
    <3>1. CASE n = k
      BY <1>5, <2>1, <3>1
    <3>2. CASE n \in DOMAIN table /\ n - 1 \in DOMAIN table
      BY <3>2 DEF LinkedTable
    <3>3. CASE n \in DOMAIN table /\ n - 1 \notin DOMAIN table
      <4>1. after[n] \in Block /\ Number[after[n]] = n /\ n \in Nat
        BY <3>3 DEF LinkedTable
      <4>2. ASSUME n > 0, n - 1 \in DOMAIN after
            PROVE  after[n-1] = Parent[after[n]]
        <5>1. n - 1 = 0 /\ after[n-1] = Genesis
          BY <1>5, <2>1, <3>3, <4>2
        <5>2. Number[Parent[after[n]]] = 0 /\ Parent[after[n]] \in Block
          BY <4>1, <4>2, <5>1, BlockAssumption
        <5> QED
          BY <5>1, <5>2, BlockAssumption
      <4> QED
        BY <4>1, <4>2
    <3> QED
      BY <3>1, <3>2, <3>3
  <2>3. \A m, n \in DOMAIN after : \A i \in m..n : m > 0 => i \in DOMAIN after
    <3> SUFFICES ASSUME NEW m \in DOMAIN after, NEW n \in DOMAIN after, NEW i \in m..n, m > 0
                 PROVE  i \in DOMAIN after
      OBVIOUS
    <3>1. m \in DOMAIN table /\ m \in Nat
      BY <1>5 DEF LinkedTable
    <3>2. n \in DOMAIN table
      BY <1>5, <3>1
    <3> QED
      BY <3>1, <3>2 DEF LinkedTable
  <2>4. HasLast(after)
    <3>1. PICK n \in DOMAIN table : IsLastRow(table, n)
      BY <1>5 DEF LinkedTable, HasLast
    <3>2. IsLastRow(after, n)
      BY <1>5, <3>1 DEF IsLastRow, LinkedTable
    <3> QED
      BY <3>2 DEF HasLast, IsLastRow
  <2>5. DOMAIN after \subseteq Nat
    BY DEF LinkedTable
  <2> QED
    BY <2>2, <2>3, <2>4, <2>5 DEF LinkedTable
<1>6. k = 0 \/ k > 0
  OBVIOUS
<1> QED
  BY <1>2, <1>3, <1>4, <1>5, <1>6

\* SaveBlock keeps the table linked when the header fits.
LEMMA SaveKeepsLinked ==
  ASSUME NEW table, LinkedTable(table), NEW b \in Block,
         Number[b] > 0 => FitsOn(table, b)
  PROVE  LinkedTable(SaveBlockRow(table, Number[b], b))
<1>1. Number[b] \in Nat
  BY BlockAssumption
<1> DEFINE after == InsertIfAbsent(table, Number[b], b)
<1>2. /\ DOMAIN after = DOMAIN table \cup {Number[b]}
      /\ \A n \in DOMAIN table : after[n] = table[n]
      /\ Number[b] \notin DOMAIN table => after[Number[b]] = b
  BY DEF InsertIfAbsent
<1> HIDE DEF after
<1>3. LinkedTable(after)
  BY <1>1, <1>2, ExtendLinked
<1> QED
  BY <1>3 DEF after, SaveBlockRow

\* A rollback cuts the table; without holes, the target itself is then the last row.
LEMMA RollbackKeepsLinked ==
  ASSUME NEW table, LinkedTable(table), NEW target \in Nat
  PROVE  LinkedTable(RollbackBlockRows(table, target))
<1> DEFINE after == RollbackBlockRows(table, target)
<1>1. /\ DOMAIN after = {n \in DOMAIN table : n <= target}
      /\ \A n \in DOMAIN after : after[n] = table[n]
  BY DEF RollbackBlockRows
<1> HIDE DEF after
<1>2. DOMAIN after \subseteq Nat
  BY <1>1 DEF LinkedTable
<1>3. \A n \in DOMAIN after :
        /\ after[n] \in Block /\ Number[after[n]] = n
        /\ n > 0 /\ n - 1 \in DOMAIN after => after[n-1] = Parent[after[n]]
  BY <1>1 DEF LinkedTable
<1>4. \A m, n \in DOMAIN after : \A k \in m..n : m > 0 => k \in DOMAIN after
  <2> SUFFICES ASSUME NEW m \in DOMAIN after, NEW n \in DOMAIN after, NEW k \in m..n, m > 0
               PROVE  k \in DOMAIN after
    OBVIOUS
  <2>1. k \in DOMAIN table /\ n \in Nat /\ n <= target
    BY <1>1 DEF LinkedTable
  <2> QED
    BY <1>1, <2>1 DEF LinkedTable
<1>5. HasLast(after)
  <2> SUFFICES ASSUME DOMAIN after # {}
               PROVE  \E n \in DOMAIN after : IsLastRow(after, n)
    BY DEF HasLast
  <2>1. PICK n \in DOMAIN table : IsLastRow(table, n)
    BY <1>1 DEF LinkedTable, HasLast
  <2>2. CASE n <= target
    BY <1>1, <2>1, <2>2 DEF IsLastRow
  <2>3. CASE n > target /\ \E m \in DOMAIN after : m > 0
    <3>1. PICK m \in DOMAIN after : m > 0
      BY <2>3
    <3>2. n \in Nat /\ m \in Nat /\ m <= target /\ m \in DOMAIN table
      BY <1>1, <3>1, <2>1 DEF LinkedTable
    <3>3. target \in DOMAIN table
      BY <2>1, <2>3, <3>1, <3>2 DEF LinkedTable
    <3> QED
      BY <1>1, <3>3 DEF IsLastRow
  <2>4. CASE \A m \in DOMAIN after : ~(m > 0)
    <3>1. \A m \in DOMAIN after : m = 0
      BY <1>2, <2>4
    <3> QED
      BY <3>1 DEF IsLastRow
  <2>5. n \in Nat
    BY DEF LinkedTable
  <2> QED
    BY <2>2, <2>3, <2>4, <2>5
<1>6. LinkedTable(after)
  BY <1>2, <1>3, <1>4, <1>5 DEF LinkedTable
<1> QED
  BY <1>6 DEF after

\* Where the header was read, its number is the cursor; where the parent check
\* passed, it fits on the table.
LEMMA InvariantStep == IInv /\ TypeOK' /\ [Next]_vars => IInv'
<1> SUFFICES ASSUME IInv, TypeOK', [Next]_vars
             PROVE  LinkedTable(blocks)' /\ HeaderFits'
  BY DEF IInv
<1> USE DEF IInv
<1>1. ASSUME UNCHANGED blocks, Scanning' => Scanning, UNCHANGED <<header, cursor>>
      PROVE  LinkedTable(blocks)' /\ HeaderFits'
  BY <1>1 DEF LinkedTable, HasLast, IsLastRow, HeaderFits, FitsOn
<1>2. ASSUME UNCHANGED blocks, ~Scanning'
      PROVE  LinkedTable(blocks)' /\ HeaderFits'
  BY <1>2 DEF LinkedTable, HasLast, IsLastRow, HeaderFits
<1>3. CASE Environment \/ Updater \/ UNCHANGED vars
  BY <1>1, <1>3
  DEF Environment, Updater, ReadHeadHeight, UpdateConfirmations, Scanning, tables, locals, vars
<1>4. CASE Resume \/ StartAfresh \/ StartFails \/ Tick \/ Stop
  BY <1>2, <1>4 DEF Resume, StartAfresh, StartFails, Begin, Tick, Stop, Scanning, tables
<1>5. CASE ReadHeaderFails \/ RollbackFails \/ FilterLogsFails
  BY <1>2, <1>5 DEF ReadHeaderFails, RollbackFails, FilterLogsFails, Abandon, Scanning, tables
<1>6. CASE SendRollbackNotices
  BY <1>2, <1>6 DEF SendRollbackNotices, Scanning, tables
<1>7. CASE ReadHeader
  <2>1. UNCHANGED <<blocks, cursor>> /\ header' = canon[cursor] /\ Number[header'] = cursor
    BY <1>7, HeadFacts DEF ReadHeader, tables, TypeOK
  <2>2. Scanning' => (cursor > 0 => FitsOn(blocks, header'))
    BY <1>7 DEF ReadHeader, Scanning, ParentMismatch, FitsOn
  <2> QED
    BY <2>1, <2>2 DEF LinkedTable, HasLast, IsLastRow, HeaderFits, FitsOn
<1>8. CASE Rollback
  <2>1. LinkedTable(blocks')
    BY <1>8, RollbackKeepsLinked, TargetFacts DEF Rollback, TypeOK
  <2>2. ~Scanning'
    BY <1>8 DEF Rollback, Scanning
  <2> QED
    BY <2>1, <2>2 DEF HeaderFits, LinkedTable, HasLast, IsLastRow
<1>9. CASE ReadReceipts \/ ReadReceiptsFails \/ FilterLogs
  BY <1>1, <1>9 DEF ReadReceipts, ReadReceiptsFails, FilterLogs, Load, Scanning, tables
<1>10. ASSUME NEW t \in Tx, SaveNative(t) \/ SaveLog(t) \/ SkipRow(t)
       PROVE  LinkedTable(blocks)' /\ HeaderFits'
  BY <1>1, <1>10 DEF SaveNative, SaveLog, SkipRow, Done, Load, Scanning
<1>11. CASE SaveBlock
  <2>1. Number[header] = cursor /\ header \in Block /\ (cursor > 0 => FitsOn(blocks, header))
    BY <1>11 DEF SaveBlock, HeaderFits, Scanning, TypeOK
  <2>2. LinkedTable(blocks')
    BY <1>11, <2>1, SaveKeepsLinked DEF SaveBlock
  <2>3. ~Scanning'
    BY <1>11 DEF SaveBlock, Advance, Scanning
  <2> QED
    BY <2>2, <2>3 DEF HeaderFits, LinkedTable, HasLast, IsLastRow
<1>12. CASE SaveBlockFails
  BY <1>2, <1>12 DEF SaveBlockFails, Advance, Scanning
<1> QED
  BY <1>3, <1>4, <1>5, <1>6, <1>7, <1>8, <1>9, <1>10, <1>11, <1>12
  DEF Next, Progress, Failure, Updater

LEMMA InvariantInit == Init => LinkedTable(blocks) /\ HeaderFits
  BY DEF Init, LinkedTable, HasLast, HeaderFits, Scanning

LEMMA Invariant == Spec => []IInv
<1>1. TypeOK /\ Init => IInv
  BY InvariantInit DEF IInv
<1> QED
  BY <1>1, TypeCorrect, InvariantStep, PTL DEF Spec

\* For every block tree and every schedule of reorganisations, failures and
\* restarts, the stored blocks are one branch without holes.
THEOREM BlocksAlwaysLinked == Spec => []BlocksLinked
<1>1. IInv => BlocksLinked
  BY DEF IInv, LinkedTable, BlocksLinked, Linked, Contiguous
<1> QED
  BY <1>1, Invariant, PTL

------------------------------------------------------------------------------
(* Refinement: the blocks table is the abstract record of module Checkpoint. *)

LEMMA CheckpointStep == IInv /\ [Next]_vars => [CheckpointLog!Next]_blocks
<1> SUFFICES ASSUME IInv, [Next]_vars, blocks' # blocks
             PROVE  CheckpointLog!Next
  OBVIOUS
<1>1. SaveBlock \/ Rollback
  BY DEF Next, Environment, Resume, StartAfresh, Begin, Progress, Failure, Updater, Stop,
     StartFails, Tick, ReadHeader, ReadHeaderFails, SendRollbackNotices, RollbackFails,
     Abandon, ReadReceipts, ReadReceiptsFails, FilterLogs, FilterLogsFails, SaveNative,
     SaveLog, SkipRow, Done, SaveBlockFails, ReadHeadHeight, UpdateConfirmations,
     vars, tables
<1>2. CASE SaveBlock
  <2>1. /\ Number[header] = cursor /\ header \in Block /\ cursor \in Nat
        /\ cursor > 0 => FitsOn(blocks, header)
    BY <1>2 DEF SaveBlock, IInv, HeaderFits, Scanning, TypeOK
  <2>2. blocks' = InsertIfAbsent(blocks, cursor, header)
    BY <1>2 DEF SaveBlock, SaveBlockRow
  <2>3. cursor \notin DOMAIN blocks
    <3> SUFFICES ASSUME cursor \in DOMAIN blocks
                 PROVE  blocks' = blocks
      OBVIOUS
    <3>1. blocks = [n \in DOMAIN blocks |-> blocks[n]]
      BY DEF IInv, TypeOK
    <3> QED
      BY <2>2, <3>1 DEF InsertIfAbsent
  <2>4. CASE cursor > 0
    BY <2>1, <2>2, <2>3, <2>4 DEF CheckpointLog!Next, CheckpointLog!Append, FitsOn,
       CheckpointLog!IsLastRow, CheckpointLog!InsertIfAbsent, IsLastRow, InsertIfAbsent
  <2>5. CASE cursor = 0
    BY <2>1, <2>2, <2>3, <2>5 DEF CheckpointLog!Next, CheckpointLog!StoreRoot,
       CheckpointLog!InsertIfAbsent, InsertIfAbsent
  <2> QED
    BY <2>1, <2>4, <2>5
<1>3. CASE Rollback
  <2> DEFINE target == RollbackTarget(cursor)
             kept == {n \in DOMAIN blocks : n <= target}
  <2>1. target \in Nat /\ DOMAIN blocks \subseteq Nat
    BY TargetFacts DEF IInv, TypeOK
  <2>2. kept \in SUBSET DOMAIN blocks /\ blocks' = [n \in kept |-> blocks[n]]
    BY <1>3 DEF Rollback, RollbackBlockRows
  <2>3. \A n \in kept, m \in DOMAIN blocks : m <= n => m \in kept
    BY <2>1
  <2> QED
    BY <2>2, <2>3 DEF CheckpointLog!Next, CheckpointLog!Truncate
<1> QED
  BY <1>1, <1>2, <1>3

\* The listener implements the checkpoint record.
THEOREM ChainScanImplementsCheckpoint == Spec => ImplementsCheckpoint
<1>1. Init => CheckpointLog!Init
  BY DEF Init, CheckpointLog!Init
<1> QED
  BY <1>1, Invariant, CheckpointStep, PTL
  DEF Spec, ImplementsCheckpoint, CheckpointLog!Spec

------------------------------------------------------------------------------
(* A rollback is all or nothing. *)

AtomicStep ==
  \A t \in DOMAIN events :
    events[t].live /\ ~events'[t].live =>
      /\ \A n \in DOMAIN blocks' : n < Number[events[t].block]
      /\ \A u \in DOMAIN events' :
           events'[u].live => Number[events'[u].block] < cursor'
      /\ cursor' <= Number[events[t].block]

\* A rollback keeps each row's block, and the rows that stay visible are the
\* visible ones up to the target.
LEMMA RollbackVisibility ==
  ASSUME NEW table, EventTableOK(table), NEW n \in Nat,
         NEW after, after = RollbackEventRows(table, Number, n)
  PROVE  /\ DOMAIN after = DOMAIN table
         /\ \A t \in DOMAIN table :
              /\ after[t].block = table[t].block
              /\ after[t].live = (table[t].live /\ Number[table[t].block] <= n)
<1>1. DOMAIN after = DOMAIN table
  BY DEF RollbackEventRows
<1>2. ASSUME NEW t \in DOMAIN table
      PROVE  /\ after[t].block = table[t].block
             /\ after[t].live = (table[t].live /\ Number[table[t].block] <= n)
  <2>1. table[t] \in [block : Block, live : BOOLEAN, final : BOOLEAN]
    BY <1>2 DEF EventTableOK, Row
  <2>2. after[t] = [table[t] EXCEPT !.live = @ /\ Number[table[t].block] <= n]
    BY <1>2 DEF RollbackEventRows
  <2> QED
    BY <2>1, <2>2
<1> QED
  BY <1>1, <1>2

\* Inserting and finalising leave the visibility of every row alone.
LEMMA OtherVisibility ==
  ASSUME NEW table, EventTableOK(table)
  PROVE  /\ \A t, b : \A u \in DOMAIN table : SaveEventRow(table, t, b)[u] = table[u]
         /\ \A h, c : \A u \in DOMAIN table :
              FinalizeEventRows(table, Number, h, c)[u].live = table[u].live
<1>1. ASSUME NEW t, NEW b, NEW u \in DOMAIN table
      PROVE  SaveEventRow(table, t, b)[u] = table[u]
  BY <1>1 DEF SaveEventRow, InsertIfAbsent
<1>2. ASSUME NEW h, NEW c, NEW u \in DOMAIN table
      PROVE  FinalizeEventRows(table, Number, h, c)[u].live = table[u].live
  <2>1. table[u] \in [block : Block, live : BOOLEAN, final : BOOLEAN]
    BY <1>2 DEF EventTableOK, Row
  <2>2. FinalizeEventRows(table, Number, h, c)[u]
          = [table[u] EXCEPT !.final = @ \/ Number[table[u].block] + c <= h]
    BY <1>2 DEF FinalizeEventRows
  <2> QED
    BY <2>1, <2>2
<1> QED
  BY <1>1, <1>2

LEMMA RollbackStep == TypeOK /\ [Next]_vars => AtomicStep
<1> SUFFICES ASSUME TypeOK, [Next]_vars
             PROVE  AtomicStep
  OBVIOUS
<1>0. EventTableOK(events)
  BY DEF TypeOK, EventTableOK, Row
<1>1. CASE Rollback
  <2> DEFINE target == RollbackTarget(cursor)
  <2>1. target \in Nat
    BY TargetFacts DEF TypeOK
  <2>2. events' = RollbackEventRows(events, Number, target)
    BY <1>1 DEF Rollback
  <2>3. /\ DOMAIN events' = DOMAIN events
        /\ \A t \in DOMAIN events :
             /\ events'[t].block = events[t].block
             /\ events'[t].live = (events[t].live /\ Number[events[t].block] <= target)
    BY <1>0, <2>1, <2>2, RollbackVisibility
  <2>4. cursor' = target + 1
    BY <1>1 DEF Rollback
  <2>5. \A t \in DOMAIN events : Number[events[t].block] \in Nat
    BY BlockAssumption DEF TypeOK
  <2>6. \A n \in DOMAIN blocks' : n \in Nat /\ n <= target
    BY <1>1 DEF Rollback, RollbackBlockRows, TypeOK
  <2> HIDE DEF target
  <2>7. ASSUME NEW t \in DOMAIN events, events[t].live, ~events'[t].live
        PROVE  Number[events[t].block] > target
    <3>1. ~(Number[events[t].block] <= target)
      BY <2>3, <2>7
    <3> QED
      BY <2>1, <2>5, <3>1
  <2>8. ASSUME NEW u \in DOMAIN events', events'[u].live
        PROVE  Number[events'[u].block] <= target
    BY <2>3, <2>8
  <2> QED
    BY <2>1, <2>3, <2>4, <2>5, <2>6, <2>7, <2>8 DEF AtomicStep
<1>2. CASE UpdateConfirmations
  BY <1>0, <1>2, OtherVisibility DEF UpdateConfirmations, AtomicStep
<1>3. ASSUME NEW t \in Tx, SaveNative(t) \/ SaveLog(t)
      PROVE  AtomicStep
  BY <1>0, <1>3, OtherVisibility DEF SaveNative, SaveLog, AtomicStep
<1>4. CASE UNCHANGED events
  BY <1>4 DEF AtomicStep
<1> QED
  BY <1>1, <1>2, <1>3, <1>4
  DEF Next, Environment, Resume, StartAfresh, Begin, Progress, Failure, Updater, Stop,
     StartFails, Tick, ReadHeader, ReadHeaderFails, SendRollbackNotices, RollbackFails,
     Abandon, ReadReceipts, ReadReceiptsFails, FilterLogs, FilterLogsFails,
     SkipRow, Done, SaveBlock, SaveBlockFails, Advance, ReadHeadHeight, vars, tables

\* A row disappears only in a rollback that takes away every block row of its
\* height and above and puts the cursor back to it.
THEOREM RollbacksAreAtomic == Spec => RollbackIsAtomic
<1>1. TypeOK /\ [Next]_vars => [AtomicStep]_vars
  BY RollbackStep
<1> QED
  BY <1>1, TypeCorrect, PTL DEF Spec, RollbackIsAtomic, AtomicStep

------------------------------------------------------------------------------
(* While the node stays on its branch and no error is only logged, the tables *)
(* follow the canonical chain block by block.  Both properties about such     *)
(* runs, CheckpointAfterRows and ReorgIsReal, need the same invariant: the    *)
(* rows of the block in hand are followed from place to place (BlockInHand),  *)
(* and the parent check succeeds because the last row is right below the      *)
(* cursor (CursorFollows) and canonical (CanonicalBlocks).                    *)

TxsOf(b) == Natives[b] \cup Logs[b]
OnCanon(b) == Number[b] \in DOMAIN canon /\ canon[Number[b]] = b
Recorded(t, b) == t \in DOMAIN events /\ events[t].live /\ events[t].block = b

Running == phase \notin {"down", "dead"}
Quiet == reorgs = 0 /\ swallowed = 0

\* What is stored is canonical and complete.
CanonicalBlocks ==
  \A n \in DOMAIN blocks :
    OnCanon(blocks[n]) /\ \A t \in TxsOf(blocks[n]) : Recorded(t, blocks[n])

CanonicalRows ==
  \A t \in DOMAIN events :
    events[t].live /\ OnCanon(events[t].block) /\ t \in TxsOf(events[t].block)

\* The cursor is right behind the last row, so that no parent check fails.
CursorFollows ==
  /\ Running /\ cursor > 0 /\ DOMAIN blocks # {} => IsLastRow(blocks, cursor - 1)
  /\ Running /\ cursor = 0 => StartBlock = 0 /\ DOMAIN blocks \subseteq {0}
  /\ StartBlock # 0 => 0 \notin DOMAIN blocks
  /\ 1 \in DOMAIN canon
  /\ phase \notin {"reorg", "rollback"}

\* The rows of the block in hand, place by place.
BlockInHand ==
  /\ Scanning => OnCanon(header)
  /\ phase \in {"natives", "logs"} => stamp = header
  /\ phase = "natives" => /\ todo \subseteq Natives[header]
                          /\ \A t \in Natives[header] \ todo : Recorded(t, header)
  /\ phase \in {"filter", "logs", "save"} => \A t \in Natives[header] : Recorded(t, header)
  /\ phase = "logs" => /\ todo \subseteq Logs[header]
                       /\ \A t \in Logs[header] \ todo : Recorded(t, header)
  /\ phase = "save" => \A t \in Logs[header] : Recorded(t, header)

QuietInv ==
  Quiet => CanonicalBlocks /\ CanonicalRows /\ CursorFollows /\ BlockInHand

\* Saving a row of a canonical block records it and keeps what was recorded; a
\* row it finds is of the same block, for a chain executes a transaction once.
LEMMA SaveRecords ==
  ASSUME TypeOK, CanonicalBlocks, CanonicalRows,
         NEW t \in Tx, NEW b \in Block, OnCanon(b), t \in TxsOf(b),
         events' = SaveEventRow(events, t, b), UNCHANGED <<canon, blocks>>
  PROVE  /\ CanonicalBlocks' /\ CanonicalRows' /\ Recorded(t, b)'
         /\ \A u : Recorded(u, b) => Recorded(u, b)'
<1>1. /\ DOMAIN events' = DOMAIN events \cup {t}
      /\ \A u \in DOMAIN events : events'[u] = events[u]
      /\ t \notin DOMAIN events => events'[t] = EventRow(b)
  BY DEF SaveEventRow, InsertIfAbsent
<1>2. ASSUME t \in DOMAIN events
      PROVE  Recorded(t, b)
  <2>1. /\ events[t].live /\ OnCanon(events[t].block)
        /\ t \in TxsOf(events[t].block)
    BY <1>2 DEF CanonicalRows
  <2>2. Number[events[t].block] = Number[b]
    BY <2>1, MinedOnceAssumption DEF OnCanon, TxsOf, TypeOK
  <2> QED
    BY <1>2, <2>1, <2>2 DEF OnCanon, Recorded
<1>3. t \notin DOMAIN events => events'[t].live /\ events'[t].block = b
  BY <1>1 DEF EventRow
<1>4. Recorded(t, b)'
  BY <1>1, <1>2, <1>3 DEF Recorded
<1>5. \A u, c : Recorded(u, c) => Recorded(u, c)'
  BY <1>1 DEF Recorded
<1>6. CanonicalRows'
  <2> SUFFICES ASSUME NEW u \in DOMAIN events'
               PROVE  (events[u].live /\ OnCanon(events[u].block) /\ u \in TxsOf(events[u].block))'
    BY DEF CanonicalRows
  <2>1. CASE u \in DOMAIN events
    BY <1>1, <2>1 DEF CanonicalRows, OnCanon, TxsOf
  <2>2. CASE u = t /\ t \notin DOMAIN events
    BY <1>3, <2>2 DEF OnCanon, TxsOf
  <2> QED
    BY <1>1, <2>1, <2>2
<1>7. CanonicalBlocks'
  BY <1>5 DEF CanonicalBlocks, OnCanon, TxsOf
<1> QED
  BY <1>4, <1>5, <1>6, <1>7

\* The block in hand is the canonical one of the cursor's height.
LEMMA InHandFacts ==
  ASSUME IInv, Scanning, OnCanon(header)
  PROVE  /\ cursor \in DOMAIN canon /\ canon[cursor] = header /\ header \in Block
         /\ NativesAt(cursor) = Natives[header] /\ LogsAt(cursor) = Logs[header]
         /\ \A t \in Logs[header] : Mined(t)
  BY DEF IInv, HeaderFits, TypeOK, OnCanon, NativesAt, LogsAt, Mined

LEMMA QuietKept ==
  TypeOK /\ [Next]_vars /\ Quiet' => Quiet /\ ~Swallowed /\ (Environment => Grow)
<1> SUFFICES ASSUME TypeOK, [Next]_vars, Quiet'
             PROVE  Quiet /\ ~Swallowed /\ (Environment => Grow)
  OBVIOUS
<1>1. swallowed \in Nat /\ reorgs \in Nat
  BY ConfigAssumption DEF TypeOK
<1>2. ~Swallowed /\ ~Reorg
  BY <1>1 DEF Swallowed, Reorg, Quiet
<1>3. reorgs' = reorgs \/ Reorg
  BY DEF Next, Environment, ChainNext, Grow, Resume, StartAfresh, Begin, Progress, Failure,
     Updater, Stop, StartFails, Tick, ReadHeader, ReadHeaderFails, SendRollbackNotices,
     Rollback, RollbackFails, Abandon, ReadReceipts, ReadReceiptsFails, FilterLogs,
     FilterLogsFails, SaveNative, SaveLog, SkipRow, Done, SaveBlock, SaveBlockFails,
     Advance, ReadHeadHeight, UpdateConfirmations, vars, chainVars
<1>4. swallowed' = swallowed \/ Swallowed
  BY DEF Next, Environment, Resume, StartAfresh, Begin, Progress, Failure, Updater, Stop,
     StartFails, Tick, ReadHeader, ReadHeaderFails, SendRollbackNotices, Rollback,
     RollbackFails, ReadReceipts, ReadReceiptsFails, FilterLogs, FilterLogsFails,
     SaveNative, SaveLog, SkipRow, SaveBlock, SaveBlockFails, ReadHeadHeight,
     UpdateConfirmations, Fault, NoFault, vars, counts
<1> QED
  BY <1>2, <1>3, <1>4 DEF Quiet, Environment, ChainNext

\* The updater's statement only sets the final flag of rows.
LEMMA ConfirmationsKeepRows ==
  ASSUME TypeOK, UpdateConfirmations
  PROVE  /\ DOMAIN events' = DOMAIN events
         /\ \A t \in DOMAIN events :
              events'[t].live = events[t].live /\ events'[t].block = events[t].block
<1>1. DOMAIN events' = DOMAIN events
  BY DEF UpdateConfirmations, FinalizeEventRows
<1>2. ASSUME NEW t \in DOMAIN events
      PROVE  events'[t].live = events[t].live /\ events'[t].block = events[t].block
  <2>1. events[t] \in [block : Block, live : BOOLEAN, final : BOOLEAN]
    BY <1>2 DEF TypeOK
  <2>2. events'[t]
          = [events[t] EXCEPT !.final = @ \/ Number[events[t].block] + Confirmations <= seenHead]
    BY <1>2 DEF UpdateConfirmations, FinalizeEventRows
  <2> QED
    BY <2>1, <2>2
<1> QED
  BY <1>1, <1>2

\* A step that leaves the tables and the chain alone keeps what is stored.
LEMMA QuietIdleStep ==
  ASSUME CanonicalBlocks, CanonicalRows, UNCHANGED <<canon, tables>>
  PROVE  /\ CanonicalBlocks' /\ CanonicalRows'
         /\ \A b : OnCanon(b) => OnCanon(b)'
         /\ \A t, b : Recorded(t, b) => Recorded(t, b)'
  BY DEF CanonicalBlocks, CanonicalRows, OnCanon, Recorded, tables

LEMMA QuietStep == IInv /\ QuietInv /\ [Next]_vars => QuietInv'
<1> SUFFICES ASSUME IInv, QuietInv, [Next]_vars, Quiet'
             PROVE  (CanonicalBlocks /\ CanonicalRows /\ CursorFollows /\ BlockInHand)'
  BY DEF QuietInv
<1>0. TypeOK /\ LinkedTable(blocks) /\ HeaderFits
  BY DEF IInv
<1>1. Quiet /\ ~Swallowed /\ (Environment => Grow)
  BY <1>0, QuietKept
<1>2. CanonicalBlocks /\ CanonicalRows /\ CursorFollows /\ BlockInHand
  BY <1>1 DEF QuietInv
<1>3. CASE Environment
  <2>1. HeadHeight(canon) \in Nat /\ DOMAIN canon = 0..HeadHeight(canon)
    BY <1>0, HeadFacts DEF TypeOK
  <2>2. /\ UNCHANGED <<tables, locals>>
        /\ DOMAIN canon \subseteq DOMAIN canon'
        /\ \A n \in DOMAIN canon : canon'[n] = canon[n]
    BY <1>1, <1>3, <2>1 DEF Environment, Grow
  <2>3. /\ \A b : OnCanon(b) => OnCanon(b)'
        /\ \A t, b : Recorded(t, b) => Recorded(t, b)'
    BY <2>2 DEF OnCanon, Recorded, tables
  <2>4. CanonicalBlocks' /\ CanonicalRows'
    BY <1>2, <2>2, <2>3 DEF CanonicalBlocks, CanonicalRows, TxsOf, tables
  <2>5. CursorFollows'
    BY <1>2, <2>2 DEF CursorFollows, Running, tables, locals
  <2>6. BlockInHand'
    BY <1>2, <2>2, <2>3 DEF BlockInHand, Scanning, locals
  <2> QED
    BY <2>4, <2>5, <2>6
<1>4. CASE UNCHANGED <<canon, tables>> /\ ~Scanning' /\ CursorFollows'
  <2>1. BlockInHand'
    BY <1>4 DEF BlockInHand, Scanning
  <2> QED
    BY <1>2, <1>4, <2>1, QuietIdleStep
<1>5. CASE Resume
  <2>1. PICK n \in DOMAIN blocks : n > 0 /\ IsLastRow(blocks, n) /\ Begin(n + 1)
    BY <1>5 DEF Resume
  <2>2. n \in Nat /\ cursor' = n + 1 /\ phase' = "idle" /\ UNCHANGED <<canon, tables>>
    BY <1>0, <2>1 DEF Begin, LinkedTable, chainVars
  <2>3. CursorFollows'
    BY <1>2, <2>1, <2>2 DEF CursorFollows, Running, IsLastRow, tables
  <2> QED
    BY <1>4, <2>2, <2>3 DEF Scanning
<1>6. CASE StartAfresh
  <2>1. ~HasCheckpoint /\ phase' = "idle" /\ UNCHANGED <<canon, tables>>
    BY <1>1, <1>6 DEF StartAfresh, Begin, chainVars
  <2>2. DOMAIN blocks \subseteq {0}
    BY <1>0, <2>1 DEF HasCheckpoint, LinkedTable
  <2>3. cursor' = (IF StartBlock = Latest THEN HeadHeight(canon) ELSE StartBlock)
    BY <1>6 DEF StartAfresh, Begin
  <2>4. HeadHeight(canon) >= 1
    BY <1>0, <1>2, HeadFacts DEF CursorFollows, TypeOK
  <2>5. /\ cursor' = 0 => StartBlock = 0
        /\ StartBlock = 0 => cursor' = 0
    BY <2>3, <2>4, ConfigAssumption
  <2>6. CursorFollows'
    BY <1>2, <2>1, <2>2, <2>5 DEF CursorFollows, Running, tables
  <2> QED
    BY <1>4, <2>1, <2>6 DEF Scanning
<1>7. CASE Tick \/ StartFails \/ ReadHeaderFails \/ RollbackFails \/ FilterLogsFails \/ Stop
  <2>1. UNCHANGED <<canon, tables>> /\ ~Scanning'
    BY <1>7 DEF Tick, StartFails, ReadHeaderFails, RollbackFails, FilterLogsFails, Stop,
       Abandon, Scanning, chainVars
  <2>2. CursorFollows'
    BY <1>2, <1>7 DEF Tick, StartFails, ReadHeaderFails, RollbackFails, FilterLogsFails,
       Stop, Abandon, CursorFollows, Running, chainVars, tables
  <2> QED
    BY <1>4, <2>1, <2>2
<1>8. CASE ReadHeader
  <2>1. cursor \in DOMAIN canon /\ header' = canon[cursor] /\ UNCHANGED <<canon, tables, cursor>>
    BY <1>8 DEF ReadHeader, chainVars
  <2>2. canon[cursor] \in Block /\ Number[canon[cursor]] = cursor /\ cursor \in Nat
    BY <1>0, <2>1, HeadFacts DEF TypeOK
  <2>3. ASSUME cursor > 0, NEW n \in DOMAIN blocks, IsLastRow(blocks, n)
        PROVE  blocks[n] = Parent[canon[cursor]]
    <3>1. n = cursor - 1
      BY <1>0, <1>2, <1>8, <2>2, <2>3
      DEF CursorFollows, Running, IsLastRow, ReadHeader, LinkedTable
    <3>2. Number[blocks[n]] = n /\ OnCanon(blocks[n])
      BY <1>0, <1>2, <2>3 DEF LinkedTable, CanonicalBlocks
    <3>3. PICK h \in 0..MaxHeight : /\ canon \in [0..h -> Block]
                                    /\ \A k \in 1..h : Parent[canon[k]] = canon[k-1]
      BY <1>0, ChainAssumption DEF TypeOK
    <3>4. cursor \in 1..h
      BY <2>1, <2>2, <2>3, <3>3
    <3> QED
      BY <3>1, <3>2, <3>3, <3>4 DEF OnCanon
  <2>4. phase' = "receipts"
    BY <1>8, <2>3 DEF ReadHeader, ParentMismatch
  <2>5. OnCanon(header)'
    BY <2>1, <2>2 DEF OnCanon
  <2>6. CursorFollows' /\ BlockInHand'
    BY <1>2, <1>8, <2>1, <2>4, <2>5 DEF CursorFollows, BlockInHand, Running, Scanning,
       ReadHeader, tables
  <2> QED
    BY <1>2, <2>1, <2>6, QuietIdleStep
<1>9. CASE SendRollbackNotices \/ Rollback
  BY <1>2, <1>9 DEF SendRollbackNotices, Rollback, CursorFollows

<1>10. CASE ReadReceipts
  <2>1. Scanning /\ OnCanon(header)
    BY <1>2, <1>10 DEF ReadReceipts, BlockInHand, Scanning
  <2>2. /\ UNCHANGED <<canon, tables, cursor, header>> /\ stamp' = header
        /\ todo' = Natives[header]
        /\ phase' = IF todo' = {} THEN "filter" ELSE "natives"
    BY <1>0, <1>10, <2>1, InHandFacts DEF ReadReceipts, Load, chainVars, IInv
  <2>3. OnCanon(header)'
    BY <2>1, <2>2 DEF OnCanon
  <2>4. CursorFollows' /\ BlockInHand'
    BY <1>2, <1>10, <2>2, <2>3 DEF CursorFollows, BlockInHand, Running, Scanning,
       ReadReceipts, tables
  <2> QED
    BY <1>2, <2>2, <2>4, QuietIdleStep
<1>11. CASE FilterLogs
  <2>1. Scanning /\ OnCanon(header)
    BY <1>2, <1>11 DEF FilterLogs, BlockInHand, Scanning
  <2>2. /\ UNCHANGED <<canon, tables, cursor, header>> /\ stamp' = header
        /\ todo' = Logs[header]
        /\ phase' = IF todo' = {} THEN "save" ELSE "logs"
    BY <1>0, <1>11, <2>1, InHandFacts DEF FilterLogs, Load, chainVars, IInv
  <2>3. OnCanon(header)' /\ \A t \in Natives[header] : Recorded(t, header)'
    BY <1>2, <1>11, <2>1, <2>2 DEF OnCanon, Recorded, BlockInHand, FilterLogs, tables
  <2>4. CursorFollows'
    BY <1>2, <1>11, <2>2 DEF CursorFollows, Running, FilterLogs, tables
  <2>5. BlockInHand'
    BY <2>2, <2>3 DEF BlockInHand, Scanning
  <2> QED
    BY <1>2, <2>2, <2>4, <2>5, QuietIdleStep
<1>12. ASSUME NEW t \in Tx, SaveNative(t) \/ SaveLog(t)
       PROVE  (CanonicalBlocks /\ CanonicalRows /\ CursorFollows /\ BlockInHand)'
  <2>1. /\ Scanning /\ OnCanon(header) /\ stamp = header /\ t \in todo
        /\ (phase = "natives" /\ SaveNative(t)) \/ (phase = "logs" /\ SaveLog(t))
    <3>1. CASE SaveNative(t)
      BY <1>2, <3>1 DEF SaveNative, BlockInHand, Scanning
    <3>2. CASE SaveLog(t)
      BY <1>2, <3>2 DEF SaveLog, BlockInHand, Scanning
    <3> QED
      BY <1>12, <3>1, <3>2
  <2>2. header \in Block /\ \A u \in Logs[header] : Mined(u)
    BY <1>0, <2>1, InHandFacts DEF IInv
  <2>3. t \in TxsOf(header)
    BY <1>2, <2>1 DEF BlockInHand, TxsOf
  <2>4. /\ events' = SaveEventRow(events, t, header)
        /\ UNCHANGED <<canon, blocks, cursor, header, stamp>> /\ todo' = todo \ {t}
    BY <1>2, <2>1, <2>2 DEF SaveNative, SaveLog, Done, Load, BlockInHand, chainVars
  <2>5. phase' = IF todo' = {} THEN IF phase = "natives" THEN "filter" ELSE "save" ELSE phase
    BY <2>1 DEF SaveNative, SaveLog, Done, Load
  <2>6. /\ CanonicalBlocks' /\ CanonicalRows' /\ Recorded(t, header)'
        /\ \A u : Recorded(u, header) => Recorded(u, header)'
    BY <1>0, <1>2, <2>1, <2>2, <2>3, <2>4, SaveRecords
  <2>7. OnCanon(header)'
    BY <2>1, <2>4 DEF OnCanon
  <2>8. CursorFollows'
    BY <1>2, <2>1, <2>4, <2>5 DEF CursorFollows, Running
  <2>9. CASE phase = "natives"
    <3>1. todo' \subseteq Natives[header] /\ \A u \in Natives[header] \ todo' : Recorded(u, header)'
      BY <1>2, <2>4, <2>6, <2>9 DEF BlockInHand
    <3> QED
      BY <2>1, <2>4, <2>5, <2>6, <2>7, <2>8, <2>9, <3>1 DEF BlockInHand, Scanning
  <2>10. CASE phase = "logs"
    <3>1. /\ todo' \subseteq Logs[header]
          /\ \A u \in Logs[header] \ todo' : Recorded(u, header)'
          /\ \A u \in Natives[header] : Recorded(u, header)'
      BY <1>2, <2>4, <2>6, <2>10 DEF BlockInHand
    <3> QED
      BY <2>1, <2>4, <2>5, <2>6, <2>7, <2>8, <2>10, <3>1 DEF BlockInHand, Scanning
  <2> QED
    BY <2>1, <2>9, <2>10
<1>13. CASE SaveBlock
  <2>1. Scanning /\ OnCanon(header) /\ \A t \in TxsOf(header) : Recorded(t, header)
    BY <1>2, <1>13 DEF SaveBlock, BlockInHand, Scanning, TxsOf
  <2>2. /\ DOMAIN blocks' = DOMAIN blocks \cup {cursor}
        /\ \A n \in DOMAIN blocks : blocks'[n] = blocks[n]
        /\ cursor \notin DOMAIN blocks => blocks'[cursor] = header
        /\ UNCHANGED <<canon, events>> /\ cursor' = cursor + 1
        /\ phase' \in {"header", "idle"}
    BY <1>13 DEF SaveBlock, SaveBlockRow, InsertIfAbsent, Advance, chainVars
  <2>3. cursor \in Nat
    BY <1>0 DEF TypeOK
  <2>4. /\ \A b : OnCanon(b) => OnCanon(b)'
        /\ \A t, b : Recorded(t, b) => Recorded(t, b)'
    BY <2>2 DEF OnCanon, Recorded
  <2>5. CanonicalBlocks' /\ CanonicalRows'
    BY <1>2, <2>1, <2>2, <2>4 DEF CanonicalBlocks, CanonicalRows
  <2>6. \A n \in DOMAIN blocks : n <= cursor
    BY <1>0, <1>2, <2>1, <2>3 DEF CursorFollows, Running, Scanning, IsLastRow, LinkedTable
  <2>7. IsLastRow(blocks', cursor)
    BY <2>2, <2>3, <2>6 DEF IsLastRow
  <2>8. CursorFollows'
    BY <1>2, <2>1, <2>2, <2>3, <2>7 DEF CursorFollows, Running, Scanning, IsLastRow
  <2>9. BlockInHand'
    BY <2>2 DEF BlockInHand, Scanning
  <2> QED
    BY <2>5, <2>8, <2>9
<1>14. CASE ReadHeadHeight \/ UNCHANGED vars
  <2>1. UNCHANGED <<canon, tables, locals>>
    BY <1>14 DEF ReadHeadHeight, vars, chainVars
  <2>2. /\ CanonicalBlocks' /\ CanonicalRows'
        /\ \A b : OnCanon(b) => OnCanon(b)'
        /\ \A t, b : Recorded(t, b) => Recorded(t, b)'
    BY <1>2, <2>1, QuietIdleStep
  <2>3. CursorFollows' /\ BlockInHand'
    BY <1>2, <2>1, <2>2 DEF CursorFollows, BlockInHand, Running, Scanning, locals, tables
  <2> QED
    BY <2>2, <2>3
<1>15. CASE UpdateConfirmations
  <2>1. UNCHANGED <<canon, blocks, locals>>
    BY <1>15 DEF UpdateConfirmations, chainVars
  <2>2. /\ DOMAIN events' = DOMAIN events
        /\ \A t \in DOMAIN events :
             events'[t].live = events[t].live /\ events'[t].block = events[t].block
    BY <1>0, <1>15, ConfirmationsKeepRows
  <2>3. /\ \A b : OnCanon(b) => OnCanon(b)'
        /\ \A t, b : Recorded(t, b) => Recorded(t, b)'
    BY <2>1, <2>2 DEF OnCanon, Recorded
  <2>4. CanonicalBlocks' /\ CanonicalRows'
    BY <1>2, <2>1, <2>2, <2>3 DEF CanonicalBlocks, CanonicalRows
  <2>5. CursorFollows' /\ BlockInHand'
    BY <1>2, <2>1, <2>3 DEF CursorFollows, BlockInHand, Running, Scanning, locals
  <2> QED
    BY <2>4, <2>5
<1>16. ~(ReadReceiptsFails \/ SaveBlockFails \/ \E t \in Tx : SkipRow(t))
  BY <1>1 DEF ReadReceiptsFails, SaveBlockFails, SkipRow
<1> QED
  BY <1>3, <1>5, <1>6, <1>7, <1>8, <1>9, <1>10, <1>11, <1>12, <1>13, <1>14, <1>15, <1>16
  DEF Next, Progress, Failure, Updater

LEMMA QuietInvariant == Spec => []QuietInv
<1>1. Init => QuietInv
  BY HeadFacts DEF Init, ChainInit, QuietInv, CanonicalBlocks, CanonicalRows, CursorFollows,
     BlockInHand, Running, Scanning
<1> QED
  BY <1>1, Invariant, QuietStep, PTL DEF Spec

\* For every block tree and every schedule of errors that are returned, of stops and
\* of restarts, a stored block has all its rows, until the node leaves the branch or
\* an error is only logged.
THEOREM CheckpointsAreComplete == Spec => []CheckpointAfterRows
<1>1. QuietInv => CheckpointAfterRows
  BY DEF QuietInv, Quiet, CanonicalBlocks, CheckpointAfterRows, TxsOf, Recorded
<1> QED
  BY <1>1, QuietInvariant, PTL

\* For every block tree and every schedule, the listener handles no reorganisation
\* that did not happen, unless an error was only logged.
THEOREM ReorgsAreReal == Spec => []ReorgIsReal
<1>1. TypeOK /\ QuietInv => ReorgIsReal
  BY ConfigAssumption DEF QuietInv, Quiet, CursorFollows, ReorgIsReal, TypeOK
<1> QED
  BY <1>1, QuietInvariant, TypeCorrect, PTL

------------------------------------------------------------------------------
(* With start_block 0 nothing behind the cursor is missing in the table, so *)
(* whatever a rollback made invisible is stored anew or ahead.              *)

CoveredInv ==
  swallowed = 0 =>
    /\ Running => \A n \in Nat : n < cursor => n \in DOMAIN blocks
    /\ \A n \in DOMAIN blocks : \A k \in 0..n : k \in DOMAIN blocks
    /\ phase \in {"reorg", "rollback"} => cursor > 0

LEMMA CoveredStep ==
  ASSUME StartBlock = 0
  PROVE  TypeOK /\ CoveredInv /\ [Next]_vars => CoveredInv'
<1> SUFFICES ASSUME TypeOK, CoveredInv, [Next]_vars, swallowed' = 0
             PROVE  (/\ Running => \A n \in Nat : n < cursor => n \in DOMAIN blocks
                     /\ \A n \in DOMAIN blocks : \A k \in 0..n : k \in DOMAIN blocks
                     /\ phase \in {"reorg", "rollback"} => cursor > 0)'
  BY DEF CoveredInv
<1>0. swallowed \in Nat /\ cursor \in Nat /\ DOMAIN blocks \subseteq Nat
  BY ConfigAssumption DEF TypeOK
<1>1. ~Swallowed
  BY <1>0 DEF Swallowed
<1>2. swallowed = 0
  BY <1>1 DEF Next, Environment, Resume, StartAfresh, Begin, Progress, Failure, Updater, Stop,
     StartFails, Tick, ReadHeader, ReadHeaderFails, SendRollbackNotices, Rollback,
     RollbackFails, ReadReceipts, ReadReceiptsFails, FilterLogs, FilterLogsFails,
     SaveNative, SaveLog, SkipRow, SaveBlock, SaveBlockFails, ReadHeadHeight,
     UpdateConfirmations, Fault, NoFault, vars, counts
<1>3. /\ Running => \A n \in Nat : n < cursor => n \in DOMAIN blocks
      /\ \A n \in DOMAIN blocks : \A k \in 0..n : k \in DOMAIN blocks
      /\ phase \in {"reorg", "rollback"} => cursor > 0
  BY <1>2 DEF CoveredInv
<1>4. CASE UNCHANGED <<blocks, cursor>> /\ (Running' => Running)
           /\ (phase' \in {"reorg", "rollback"} => cursor > 0)
  BY <1>3, <1>4
<1>5. CASE Resume
  <2>1. PICK n \in DOMAIN blocks : IsLastRow(blocks, n) /\ Begin(n + 1)
    BY <1>5 DEF Resume
  <2>2. \A k \in Nat : k < cursor' => k \in 0..n
    BY <1>0, <2>1 DEF Begin
  <2> QED
    BY <1>3, <2>1, <2>2 DEF Begin, tables
<1>6. CASE StartAfresh
  BY <1>0, <1>3, <1>6, ConfigAssumption DEF StartAfresh, Begin, tables
<1>7. CASE SaveBlock
  <2>1. /\ DOMAIN blocks' = DOMAIN blocks \cup {cursor} /\ cursor' = cursor + 1
        /\ phase' \in {"header", "idle"} /\ Running
    BY <1>7 DEF SaveBlock, SaveBlockRow, InsertIfAbsent, Advance, Running
  <2> QED
    BY <1>0, <1>3, <2>1
<1>8. CASE Rollback
  <2> DEFINE target == RollbackTarget(cursor)
  <2>1. cursor > 0 /\ Running
    BY <1>3, <1>8 DEF Rollback, Running
  <2>2. target \in Nat /\ target < cursor
    BY <1>0, <2>1, ConfigAssumption DEF RollbackTarget, Depth
  <2>3. /\ DOMAIN blocks' = {n \in DOMAIN blocks : n <= target}
        /\ cursor' = target + 1 /\ phase' = "idle"
    BY <1>8 DEF Rollback, RollbackBlockRows
  <2> HIDE DEF target
  <2> QED
    BY <1>0, <1>3, <2>1, <2>2, <2>3
<1>9. CASE Environment \/ ReadHeadHeight \/ UpdateConfirmations \/ UNCHANGED vars
  BY <1>3, <1>4, <1>9 DEF Environment, ReadHeadHeight, UpdateConfirmations, vars, tables,
     locals, Running
<1>10. CASE Tick \/ StartFails \/ ReadHeader \/ ReadHeaderFails \/ SendRollbackNotices
            \/ RollbackFails \/ FilterLogs \/ FilterLogsFails \/ ReadReceipts
  BY <1>3, <1>4, <1>10 DEF Tick, StartFails, ReadHeader, ReadHeaderFails, Abandon,
     SendRollbackNotices, RollbackFails, FilterLogs, FilterLogsFails, ReadReceipts, Load,
     tables, Running
<1>11. ASSUME NEW t \in Tx, SaveNative(t) \/ SaveLog(t)
       PROVE  UNCHANGED <<blocks, cursor>> /\ Running /\ phase' \notin {"reorg", "rollback"}
  BY <1>11 DEF SaveNative, SaveLog, Done, Load, Running
<1>12. CASE Stop
  BY <1>3, <1>12 DEF Stop, Running, tables
<1>13. ~(ReadReceiptsFails \/ SaveBlockFails \/ \E t \in Tx : SkipRow(t))
  BY <1>1 DEF ReadReceiptsFails, SaveBlockFails, SkipRow
<1> QED
  BY <1>4, <1>5, <1>6, <1>7, <1>8, <1>9, <1>10, <1>11, <1>12, <1>13
  DEF Next, Progress, Failure, Updater

\* For every block tree and every schedule of reorganisations, returned errors, stops
\* and restarts: a height whose rows a rollback made invisible is scanned again, when
\* the scan begins at block 0 and no error is only logged.
THEOREM RolledBackHeightsAreRescanned ==
  ASSUME StartBlock = 0
  PROVE  Spec => []RolledBackIsRescanned
<1>1. Init => CoveredInv
  BY DEF Init, CoveredInv, Running
<1>2. Spec => []CoveredInv
  BY <1>1, TypeCorrect, CoveredStep, PTL DEF Spec
<1>3. TypeOK /\ CoveredInv => RolledBackIsRescanned
  <2> SUFFICES ASSUME TypeOK, CoveredInv, phase = "idle", swallowed = 0,
                      NEW t \in DOMAIN events
               PROVE  LET n == Number[events[t].block] IN cursor <= n \/ n \in DOMAIN blocks
    BY DEF RolledBackIsRescanned
  <2>1. Number[events[t].block] \in Nat /\ cursor \in Nat
    BY BlockAssumption DEF TypeOK
  <2> QED
    BY <2>1 DEF CoveredInv, Running
<1> QED
  BY <1>2, <1>3, TypeCorrect, PTL

------------------------------------------------------------------------------
(* Orphans.  While nothing but a swallowed error goes wrong and the node leaves *)
(* its branch at most once, every visible row is of the block stored at its     *)
(* height, or else of the branch the node is on since then.  The argument       *)
(* follows the stamp from the call to the node to the row, and the row from the *)
(* block in hand to the block stored.                                           *)

OfItsBlock(b, c) == b = c \/ (reorgs = 1 /\ OnCanon(b))

RowFits(t) ==
  LET n == Number[events[t].block] IN
  /\ phase # "down" /\ n <= cursor
  /\ n = cursor => Scanning /\ OfItsBlock(events[t].block, header)
  /\ n \in DOMAIN blocks => OfItsBlock(events[t].block, blocks[n])

NoLeftovers == \A t \in DOMAIN events : events[t].live => RowFits(t)

StampFits ==
  /\ reorgs = 0 /\ Scanning => OnCanon(header)
  /\ phase \in {"natives", "logs"} => Number[stamp] = cursor /\ OfItsBlock(stamp, header)

OneSwitch == faults = 0 /\ restarts = 0 /\ reorgs <= 1

OneSwitchInv ==
  OneSwitch => NoLeftovers /\ StampFits /\ (phase = "down" => DOMAIN events = {})

LEMMA OneSwitchKept ==
  TypeOK /\ [Next]_vars /\ OneSwitch' =>
    /\ OneSwitch /\ ~Fault /\ ~Stop
    /\ Environment => Grow \/ (Reorg /\ reorgs = 0)
<1> SUFFICES ASSUME TypeOK, [Next]_vars, OneSwitch'
             PROVE  /\ OneSwitch /\ ~Fault /\ ~Stop
                    /\ Environment => Grow \/ (Reorg /\ reorgs = 0)
  OBVIOUS
<1>1. faults \in Nat /\ restarts \in Nat /\ reorgs \in Nat
  BY ConfigAssumption DEF TypeOK
<1>2. ~Fault /\ ~Stop /\ (Reorg => reorgs = 0)
  BY <1>1 DEF Fault, Stop, Reorg, OneSwitch
<1>3. reorgs' = reorgs \/ Reorg
  BY DEF Next, Environment, ChainNext, Grow, Resume, StartAfresh, Begin, Progress, Failure,
     Updater, Stop, StartFails, Tick, ReadHeader, ReadHeaderFails, SendRollbackNotices,
     Rollback, RollbackFails, Abandon, ReadReceipts, ReadReceiptsFails, FilterLogs,
     FilterLogsFails, SaveNative, SaveLog, SkipRow, Done, SaveBlock, SaveBlockFails,
     Advance, ReadHeadHeight, UpdateConfirmations, vars, chainVars
<1>4. (faults' = faults /\ restarts' = restarts) \/ Fault \/ Stop
  BY DEF Next, Environment, Resume, StartAfresh, Begin, Progress, Failure, Updater,
     StartFails, Tick, ReadHeader, ReadHeaderFails, SendRollbackNotices, Rollback,
     RollbackFails, ReadReceipts, ReadReceiptsFails, FilterLogs, FilterLogsFails,
     SaveNative, SaveLog, SkipRow, SaveBlock, SaveBlockFails, ReadHeadHeight,
     UpdateConfirmations, Swallowed, NoFault, vars, counts
<1> QED
  BY <1>1, <1>2, <1>3, <1>4 DEF OneSwitch, Environment, ChainNext

\* A visible row keeps fitting when the step leaves the tables alone and the block in
\* hand, if it was scanned before, is still being scanned.
LEMMA RowsKeepFitting ==
  ASSUME TypeOK, NoLeftovers, UNCHANGED <<tables, cursor>>, phase' # "down",
         \A b, c : OfItsBlock(b, c) => OfItsBlock(b, c)',
         Scanning => Scanning' /\ UNCHANGED header
  PROVE  NoLeftovers'
  BY DEF NoLeftovers, RowFits, tables

\* A block scanned at a stored height is the stored one: only block 0 can be.
LEMMA StoredIsHeader ==
  ASSUME IInv, Scanning, cursor \in DOMAIN blocks
  PROVE  blocks[cursor] = header
<1>1. Number[header] = cursor /\ header \in Block /\ LinkedTable(blocks)
  BY DEF IInv, HeaderFits, TypeOK
<1>2. ~(cursor > 0)
  BY <1>1, FitsAbove DEF IInv, HeaderFits
<1>3. cursor = 0
  BY <1>2 DEF IInv, TypeOK
<1> QED
  BY <1>1, <1>3, BlockAssumption DEF LinkedTable

LEMMA OneSwitchStep == IInv /\ OneSwitchInv /\ [Next]_vars => OneSwitchInv'
<1> SUFFICES ASSUME IInv, OneSwitchInv, [Next]_vars, OneSwitch'
             PROVE  (NoLeftovers /\ StampFits /\ (phase = "down" => DOMAIN events = {}))'
  BY DEF OneSwitchInv
<1>0. TypeOK /\ LinkedTable(blocks) /\ HeaderFits
  BY DEF IInv
<1>1. OneSwitch /\ ~Fault /\ ~Stop /\ (Environment => Grow \/ (Reorg /\ reorgs = 0))
  BY <1>0, OneSwitchKept
<1>2. NoLeftovers /\ StampFits /\ (phase = "down" => DOMAIN events = {})
  BY <1>1 DEF OneSwitchInv
<1>3. reorgs \in 0..1 /\ cursor \in Nat
  BY <1>0, <1>1 DEF OneSwitch, TypeOK
<1>4. \A t \in DOMAIN events : Number[events[t].block] \in Nat
  BY <1>0, BlockAssumption DEF TypeOK
<1>5. CASE Environment
  <2>1. HeadHeight(canon) \in Nat /\ DOMAIN canon = 0..HeadHeight(canon)
    BY <1>0, HeadFacts DEF TypeOK
  <2>2. UNCHANGED <<tables, locals>>
    BY <1>5 DEF Environment
  <2>3. (reorgs = 0 /\ reorgs' = 1) \/
          (/\ reorgs' = reorgs /\ DOMAIN canon \subseteq DOMAIN canon'
           /\ \A n \in DOMAIN canon : canon'[n] = canon[n])
    BY <1>1, <1>5, <2>1 DEF Environment, Grow, Reorg
  <2>4. \A b, c : OfItsBlock(b, c) => OfItsBlock(b, c)'
    BY <2>3 DEF OfItsBlock, OnCanon
  <2>5. NoLeftovers'
    BY <1>2, <2>2, <2>4 DEF NoLeftovers, RowFits, Scanning, tables, locals
  <2>6. StampFits'
    BY <1>2, <2>2, <2>3, <2>4 DEF StampFits, Scanning, OnCanon, locals
  <2> QED
    BY <1>2, <2>2, <2>5, <2>6 DEF tables, locals
<1>6. CASE Resume \/ StartAfresh
  <2>1. DOMAIN events' = {} /\ phase' = "idle"
    BY <1>2, <1>6 DEF Resume, StartAfresh, Begin, tables
  <2> QED
    BY <2>1 DEF NoLeftovers, StampFits, Scanning
<1>7. CASE Tick \/ ReadHeaderFails \/ SendRollbackNotices \/ ReadHeader
  <2>1. /\ ~Scanning /\ phase' # "down"
        /\ UNCHANGED <<chainVars, tables, cursor>>
        /\ phase' \notin {"natives", "logs"}
    BY <1>1, <1>7 DEF Tick, ReadHeaderFails, SendRollbackNotices, ReadHeader, Abandon,
       Scanning
  <2>2. Scanning' => ReadHeader
    BY <1>7 DEF Tick, ReadHeaderFails, SendRollbackNotices, Abandon, Scanning
  <2>3. ReadHeader => OnCanon(header)'
    BY <1>0, HeadFacts DEF ReadHeader, OnCanon, TypeOK, chainVars
  <2>4. NoLeftovers'
    BY <1>0, <1>2, <2>1, RowsKeepFitting DEF OfItsBlock, OnCanon, chainVars
  <2> QED
    BY <2>1, <2>2, <2>3, <2>4 DEF StampFits
<1>8. CASE Rollback
  <2> DEFINE target == RollbackTarget(cursor)
  <2>1. target \in Nat /\ EventTableOK(events)
    BY <1>0, TargetFacts DEF TypeOK, EventTableOK, Row
  <2>2. /\ cursor' = target + 1 /\ phase' = "idle" /\ UNCHANGED chainVars
        /\ events' = RollbackEventRows(events, Number, target)
        /\ \A n \in DOMAIN blocks' : n \in DOMAIN blocks /\ blocks'[n] = blocks[n]
    BY <1>8 DEF Rollback, RollbackBlockRows
  <2>3. /\ DOMAIN events' = DOMAIN events
        /\ \A t \in DOMAIN events :
             /\ events'[t].block = events[t].block
             /\ events'[t].live = (events[t].live /\ Number[events[t].block] <= target)
    BY <2>1, <2>2, RollbackVisibility
  <2> HIDE DEF target
  <2>4. ASSUME NEW t \in DOMAIN events', events'[t].live
        PROVE  RowFits(t)'
    <3>1. RowFits(t) /\ Number[events[t].block] <= target /\ events'[t].block = events[t].block
      BY <1>2, <2>3, <2>4 DEF NoLeftovers
    <3>2. Number[events[t].block] < cursor' /\ Number[events[t].block] # cursor'
      BY <1>4, <2>1, <2>2, <2>3, <2>4, <3>1
    <3> QED
      BY <1>4, <2>1, <2>2, <2>3, <2>4, <3>1, <3>2 DEF RowFits, OfItsBlock, OnCanon, chainVars
  <2> QED
    BY <2>2, <2>4 DEF NoLeftovers, StampFits, Scanning
<1>9. CASE ReadReceipts \/ ReadReceiptsFails \/ FilterLogs
  <2>1. /\ Scanning /\ Scanning' /\ phase' # "down"
        /\ UNCHANGED <<chainVars, tables, cursor, header>>
    BY <1>9 DEF ReadReceipts, ReadReceiptsFails, FilterLogs, Load, Scanning
  <2>2. NoLeftovers'
    BY <1>0, <1>2, <2>1, RowsKeepFitting DEF OfItsBlock, OnCanon, chainVars
  <2>3. phase' \in {"natives", "logs"} =>
          Number[stamp'] = cursor /\ OfItsBlock(stamp', header)
    <3>1. Number[header] = cursor
      BY <1>0, <2>1 DEF HeaderFits
    <3>2. CASE stamp' = header
      BY <3>1, <3>2 DEF OfItsBlock
    <3>3. CASE FilterLogs /\ cursor \in DOMAIN canon
      <4>1. stamp' = canon[cursor] /\ Number[stamp'] = cursor /\ OnCanon(stamp')
        BY <1>0, <3>3, HeadFacts DEF FilterLogs, OnCanon, TypeOK
      <4>2. reorgs = 0 => stamp' = header
        BY <1>2, <2>1, <3>1, <4>1 DEF StampFits, OnCanon
      <4> QED
        BY <1>3, <4>1, <4>2 DEF OfItsBlock
    <3> QED
      BY <1>9, <3>2, <3>3 DEF ReadReceipts, ReadReceiptsFails, FilterLogs
  <2>4. StampFits'
    BY <1>2, <2>1, <2>3 DEF StampFits, OfItsBlock, OnCanon, chainVars
  <2> QED
    BY <2>1, <2>2, <2>4
<1>10. ASSUME NEW t \in Tx, SaveNative(t) \/ SaveLog(t) \/ SkipRow(t)
       PROVE  (NoLeftovers /\ StampFits /\ (phase = "down" => DOMAIN events = {}))'
  <2>1. /\ phase \in {"natives", "logs"} /\ Scanning' /\ phase' # "down"
        /\ UNCHANGED <<chainVars, blocks, cursor, header, stamp>>
    BY <1>10 DEF SaveNative, SaveLog, SkipRow, Done, Load, Scanning
  <2>2. events' \in {events, SaveEventRow(events, t, stamp)}
    BY <1>10 DEF SaveNative, SaveLog, SkipRow
  <2>3. /\ DOMAIN events' \subseteq DOMAIN events \cup {t}
        /\ \A u \in DOMAIN events : events'[u] = events[u]
        /\ t \in DOMAIN events' /\ t \notin DOMAIN events => events'[t].block = stamp
    BY <2>2 DEF SaveEventRow, InsertIfAbsent, EventRow
  <2>4. \A b, c : OfItsBlock(b, c)' <=> OfItsBlock(b, c)
    BY <2>1 DEF OfItsBlock, OnCanon, chainVars
  <2>5. ASSUME NEW u \in DOMAIN events', events'[u].live
        PROVE  RowFits(u)'
    <3>1. CASE u \in DOMAIN events
      <4>1. events'[u] = events[u] /\ RowFits(u)
        BY <1>2, <2>3, <2>5, <3>1 DEF NoLeftovers
      <4> QED
        BY <2>1, <2>4, <4>1 DEF RowFits
    <3>2. CASE u = t /\ t \notin DOMAIN events
      <4>1. events'[u].block = stamp /\ Number[stamp] = cursor /\ OfItsBlock(stamp, header)
        BY <1>2, <2>1, <2>3, <2>5, <3>2 DEF StampFits
      <4>2. cursor \in DOMAIN blocks => blocks[cursor] = header
        BY <2>1, StoredIsHeader DEF Scanning
      <4> QED
        BY <1>3, <2>1, <2>4, <4>1, <4>2 DEF RowFits
    <3> QED
      BY <2>3, <2>5, <3>1, <3>2
  <2>6. StampFits'
    BY <1>2, <2>1, <2>4 DEF StampFits, Scanning, OnCanon, chainVars
  <2> QED
    BY <2>1, <2>5, <2>6 DEF NoLeftovers
<1>11. CASE SaveBlock \/ SaveBlockFails
  <2>1. /\ Scanning /\ ~Scanning' /\ phase' # "down"
        /\ UNCHANGED <<chainVars, events>> /\ cursor' = cursor + 1
    BY <1>11 DEF SaveBlock, SaveBlockFails, Advance, Scanning
  <2>2. \A n \in DOMAIN blocks' :
          \/ n \in DOMAIN blocks /\ blocks'[n] = blocks[n]
          \/ n = cursor /\ blocks'[n] = header
    BY <1>11 DEF SaveBlock, SaveBlockFails, SaveBlockRow, InsertIfAbsent
  <2>3. \A b, c : OfItsBlock(b, c)' <=> OfItsBlock(b, c)
    BY <2>1 DEF OfItsBlock, OnCanon, chainVars
  <2>4. ASSUME NEW t \in DOMAIN events, events[t].live
        PROVE  RowFits(t)'
    <3>1. RowFits(t) /\ Number[events[t].block] \in Nat
      BY <1>2, <1>4, <2>4 DEF NoLeftovers
    <3>2. Number[events[t].block] < cursor'
      BY <1>3, <2>1, <3>1 DEF RowFits
    <3> QED
      BY <1>3, <2>1, <2>2, <2>3, <3>1, <3>2 DEF RowFits
  <2> QED
    BY <2>1, <2>4 DEF NoLeftovers, StampFits, Scanning
<1>12. CASE ReadHeadHeight \/ UNCHANGED vars
  BY <1>2, <1>12 DEF ReadHeadHeight, vars, chainVars, tables, locals, NoLeftovers, RowFits,
     StampFits, OfItsBlock, OnCanon, Scanning
<1>13. CASE UpdateConfirmations
  <2>1. UNCHANGED <<chainVars, blocks, locals>>
    BY <1>13 DEF UpdateConfirmations
  <2>2. /\ DOMAIN events' = DOMAIN events
        /\ \A t \in DOMAIN events :
             events'[t].live = events[t].live /\ events'[t].block = events[t].block
    BY <1>0, <1>13, ConfirmationsKeepRows
  <2> QED
    BY <1>2, <2>1, <2>2 DEF chainVars, locals, NoLeftovers, RowFits, StampFits, OfItsBlock,
       OnCanon, Scanning
<1>14. ~(StartFails \/ RollbackFails \/ FilterLogsFails)
  BY <1>1 DEF StartFails, RollbackFails, FilterLogsFails
<1> QED
  BY <1>1, <1>5, <1>6, <1>7, <1>8, <1>9, <1>10, <1>11, <1>12, <1>13, <1>14
  DEF Next, Progress, Failure, Updater

\* For every block tree, every rollback depth and every schedule: when the stored
\* blocks are canonical, so are the visible rows at their heights, as long as the node
\* left its branch at most once and every block was written in one go.
THEOREM OrphansStayInvisible == Spec => []OrphansAreInvisible
<1>1. Init => OneSwitchInv
  BY DEF Init, ChainInit, OneSwitchInv, NoLeftovers, StampFits, Scanning
<1>2. Spec => []OneSwitchInv
  BY <1>1, Invariant, OneSwitchStep, PTL DEF Spec
<1>3. OneSwitchInv => OrphansAreInvisible
  BY DEF OneSwitchInv, OneSwitch, NoLeftovers, RowFits, OfItsBlock, OnCanon, OrphansAreInvisible
<1> QED
  BY <1>2, <1>3, PTL
=================================================================================
