----------------------------- MODULE Confirmations -----------------------------
(***************************************************************************)
(* The confirmation updater of the manager (internal/confirmation) over    *)
(* the rows of a chain in WebSocket mode.  There is one updater for all    *)
(* chains: initializeConfirmationUpdater gives it the node and the         *)
(* confirmations of the first enabled chain of the configuration, and its  *)
(* UPDATE names no chain.  first says which chain that is: this one        *)
(* ("own"), or another one ("other"), of which only the height matters     *)
(* here.  The rows of a polled chain are updated in module ChainScan.      *)
(***************************************************************************)
EXTENDS WebSocketScan

CONSTANTS
  Required,       \* config confirmations of the first enabled chain
  NoHead,         \* the updater holds no head
  MaxOther,       \* bound: height of the other chain
  MaxDrops        \* bound: how often its node reports a lower height than before

ASSUME UpdaterAssumption ==
  Required \in Nat /\ NoHead \notin Nat /\ MaxOther \in Nat /\ MaxDrops \in Nat

VARIABLES
  first,      \* whose node and confirmations the updater was given
  other,      \* the height of the other chain
  drops,      \* how often that height has gone down
  seenHead    \* currentBlock between the call to the node and the UPDATE

updater == <<first, other, drops, seenHead>>
vars == <<chainVars, listener, updater>>

Init ==
  /\ ChainInit /\ ListenerInit
  /\ first \in {"own", "other"} /\ other = 0 /\ drops = 0
  /\ seenHead = NoHead

\* The other chain grows, or its node falls back behind what it said before.  Nobody asks
\* for its height unless it is the first.
OtherMoves ==
  /\ first = "other"
  /\ \/ other < MaxOther /\ other' = other + 1 /\ UNCHANGED drops
     \/ other > 0 /\ drops < MaxDrops /\ other' = other - 1 /\ drops' = drops + 1
  /\ UNCHANGED <<chainVars, listener, first, seenHead>>

\* GetCurrentBlockNumber; an error ends this round of the updater.
ReadHeadHeight ==
  /\ place # "down" /\ seenHead = NoHead
  /\ seenHead' = IF first = "own" THEN HeadHeight(canon) ELSE other
  /\ UNCHANGED <<chainVars, listener, first, other, drops>>

\* Mutant: rows that are final are counted on.
CountedAlways(row) == Number[row.block] <= seenHead

\* Mutant: rows above the head are counted too.
CountedAboveHead(row) == ~row.final

\* The WHERE clause: no chain, and deleted_at does not matter.
Counted(row) == ~row.final /\ Number[row.block] <= seenHead

\* Mutant: one block more than is required.
CountLate(row) ==
  LET depth == seenHead - Number[row.block]
  IN [row EXCEPT !.confirmations = depth, !.final = depth > Required]

\* The SET clause.
Count(row) ==
  LET depth == seenHead - Number[row.block]
  IN [row EXCEPT !.confirmations = depth, !.final = depth >= Required]

\* updateEventConfirmations: one UPDATE of the whole table.
UpdateConfirmations ==
  /\ seenHead # NoHead
  /\ rows' = [t \in DOMAIN rows |-> IF Counted(rows[t]) THEN Count(rows[t]) ELSE rows[t]]
  /\ seenHead' = NoHead
  /\ UNCHANGED <<chainVars, place, feed, todo, inHand, block, unheard, skips, restarts,
                 first, other, drops>>

\* The process ends, the updater with it.
StopAll == Stop /\ seenHead' = NoHead /\ UNCHANGED <<first, other, drops>>

Update == ReadHeadHeight \/ UpdateConfirmations

Next ==
  \/ (NodeMoves \/ Start \/ Subscribe \/ Listen \/ LoseSubscription \/ SkipLog) /\ UNCHANGED updater
  \/ OtherMoves \/ Update \/ StopAll

Spec == Init /\ [][Next]_vars

\* The process is started again, the updater has its ticker, and the chains grow up
\* to their bounds.
FairSpec ==
  /\ Spec
  /\ WF_vars(Start /\ UNCHANGED updater)
  /\ WF_vars(Update)
  /\ WF_vars(\/ NodeMoves /\ UNCHANGED <<reorgs, updater>>
             \/ OtherMoves /\ other' > other)

------------------------------------------------------------------------------
(* Properties. *)

\* Every variable has its type; the confirmations of a row are never negative.
TypeOK ==
  /\ canon \in Chains /\ reorgs \in 0..MaxReorgs
  /\ DOMAIN rows \subseteq Tx
  /\ rows \in [DOMAIN rows -> [block : Block, live : BOOLEAN, final : BOOLEAN, confirmations : Nat]]
  /\ place \in Places /\ feed \in Seq([block : Block, removed : BOOLEAN])
  /\ todo \subseteq Tx /\ inHand \in Tx \cup {NoLog} /\ block \in Block
  /\ unheard \subseteq Block /\ skips \in 0..MaxSkips /\ restarts \in 0..MaxRestarts
  /\ first \in {"own", "other"} /\ other \in 0..MaxOther /\ drops \in 0..MaxDrops
  /\ seenHead \in Nat \cup {NoHead}

\* What the goroutine has in front of it.
ToCome(b, t) ==
  \/ \E i \in DOMAIN feed : feed[i].block = b /\ ~feed[i].removed
  \/ block = b /\ (t \in todo \/ inHand = t)

\* Without a checkpoint, a log is lost that the node sent while nobody was subscribed
\* or that a lost subscription took with it; nothing else is, whatever
\* reorganisations, repetitions and restarts happen.  (A lookup or an INSERT that
\* fails is only logged; until one does, it holds.)
MissedOnlyUnheard ==
  skips = 0 =>
    \A n \in DOMAIN canon : \A t \in Logs[canon[n]] :
      t \in DOMAIN rows \/ canon[n] \in unheard \/ ToCome(canon[n], t)

\* Once a row is final it stays final, with the confirmations it became final with:
\* the head may drop, the subscription break, the process restart.
FinalIsForGood ==
  [][\A t \in DOMAIN rows :
       rows[t].final => t \in DOMAIN rows' /\ rows'[t] = rows[t]]_vars

\* Again and again no row is left waiting: all are final whose height the first chain
\* leaves Required blocks behind.  On a chain that is not the first it is the other
\* one's height that counts.
FirstChainEnds == IF first = "own" THEN MaxHeight ELSE MaxOther

RowsSettle ==
  []<>(\A t \in DOMAIN rows :
         Number[rows[t].block] + Required <= FirstChainEnds => rows[t].final)
==============================================================================
