-------------------------- MODULE Confirmations_proofs --------------------------
(***************************************************************************)
(* For every tree of blocks, every head the updater is told and every      *)
(* order of notices, losses and restarts: a row that is final stays as it  *)
(* is, and a log that nobody takes up was sent to nobody.                  *)
(***************************************************************************)
EXTENDS Confirmations, SequenceTheorems, WellFoundedInduction, TLAPS

\* What a step leaves of the rows that are final.
FinalRowsStay == \A t \in DOMAIN rows : rows[t].final => t \in DOMAIN rows' /\ rows'[t] = rows[t]

\* SaveEvent leaves every row that is there alone.
LEMMA SavingSparesRows ==
  ASSUME SaveLog
  PROVE  \A t \in DOMAIN rows : t \in DOMAIN rows' /\ rows'[t] = rows[t]
BY DEF SaveLog, InsertIfAbsent

\* The WHERE clause of the UPDATE leaves out what is final.
LEMMA CountingSparesFinal ==
  ASSUME UpdateConfirmations
  PROVE  FinalRowsStay
<1> SUFFICES ASSUME NEW t \in DOMAIN rows, rows[t].final
             PROVE  t \in DOMAIN rows' /\ rows'[t] = rows[t]
  BY DEF FinalRowsStay
<1>1. ~Counted(rows[t])
  BY DEF Counted
<1> QED
  BY <1>1 DEF UpdateConfirmations

LEMMA FinalStep == [Next]_vars => FinalRowsStay
<1> SUFFICES ASSUME [Next]_vars
             PROVE  FinalRowsStay
  OBVIOUS
<1>1. CASE NodeMoves \/ Start \/ Subscribe \/ LoseSubscription \/ SkipLog
  BY <1>1 DEF NodeMoves, Start, Subscribe, LoseSubscription, SkipLog, FinalRowsStay
<1>2. CASE TakeNotice \/ LookUp \/ \E t \in Tx : TakeLog(t)
  BY <1>2 DEF TakeNotice, LookUp, TakeLog, FinalRowsStay
<1>3. CASE SaveLog
  BY <1>3, SavingSparesRows DEF FinalRowsStay
<1>4. CASE OtherMoves \/ ReadHeadHeight \/ StopAll
  BY <1>4 DEF OtherMoves, ReadHeadHeight, StopAll, Stop, listener, FinalRowsStay
<1>5. CASE UpdateConfirmations
  BY <1>5, CountingSparesFinal
<1>6. CASE UNCHANGED vars
  BY <1>6 DEF vars, listener, FinalRowsStay
<1> QED
  BY <1>1, <1>2, <1>3, <1>4, <1>5, <1>6 DEF Next, Listen, Update

\* Once final, a row keeps its block and its confirmations, whatever the head does.
THEOREM FinalStaysForGood == Spec => FinalIsForGood
<1>1. [Next]_vars => [FinalRowsStay]_vars
  BY FinalStep
<1> QED
  BY <1>1, PTL DEF Spec, FinalIsForGood, FinalRowsStay

------------------------------------------------------------------------------
(* Where two chains part. *)

\* Every set of numbers with an element has a least one.
Less == OpToRel(<, Nat)

LEMMA LeastElement ==
  ASSUME NEW S, S \subseteq Nat, S # {}
  PROVE  \E x \in S : \A y \in S : x <= y
<1>1. IsWellFoundedOn(Less, Nat)
  BY NatLessThanWellFounded DEF Less
<1>2. \A x, y \in Nat : x < y => <<x, y>> \in Less
  <2> SUFFICES ASSUME NEW x \in Nat, NEW y \in Nat, x < y
               PROVE  <<x, y>> \in Less
    OBVIOUS
  <2>1. <<x, y>> \in Nat \X Nat /\ <<x, y>>[1] = x /\ <<x, y>>[2] = y
    OBVIOUS
  <2> QED
    BY <2>1 DEF Less, OpToRel
<1>3. PICK x \in S : \A y \in S : ~(<<y, x>> \in Less)
  BY <1>1, WFMin
<1>4. ASSUME NEW y \in S
      PROVE  x <= y
  <2>1. x \in Nat /\ y \in Nat
    OBVIOUS
  <2>2. ~(y < x)
    BY <1>2, <1>3, <2>1
  <2> QED
    BY <2>1, <2>2
<1> QED
  BY <1>4

\* A canonical chain has one block per height.
LEMMA CanonFacts ==
  ASSUME NEW c \in Chains
  PROVE  \E h \in Nat :
           /\ HeadHeight(c) = h /\ DOMAIN c = 0..h /\ c \in [0..h -> Block]
           /\ \A n \in 0..h : Number[c[n]] = n
           /\ \A n \in 1..h : Parent[c[n]] = c[n-1]
           /\ c[0] = Genesis
<1>1. PICK h \in 0..MaxHeight :
         /\ c \in [0..h -> Block]
         /\ \A n \in 0..h : Number[c[n]] = n
         /\ \A n \in 1..h : Parent[c[n]] = c[n-1]
  BY ChainAssumption
<1>2. DOMAIN c = 0..h
  BY <1>1
<1>3. HeadHeight(c) \in 0..MaxHeight /\ DOMAIN c = 0..HeadHeight(c)
  BY <1>2 DEF HeadHeight
<1>4. HeadHeight(c) = h
  BY <1>2, <1>3, BlockAssumption
<1>5. c[0] = Genesis
  BY <1>1, BlockAssumption
<1> QED
  BY <1>1, <1>2, <1>4, <1>5, BlockAssumption

\* Two chains agree up to the height where they part.
LEMMA ForkFacts ==
  ASSUME NEW c \in Chains, NEW d \in Chains
  PROVE  /\ Fork(c, d) \in DOMAIN c \cap DOMAIN d
         /\ \A m \in 0..Fork(c, d) : c[m] = d[m]
<1> DEFINE Parts(n) == n + 1 \in DOMAIN c \cap DOMAIN d => c[n + 1] # d[n + 1]
           S == {n \in Nat : Parts(n)}
<1>1. PICK h \in Nat :
         /\ DOMAIN c = 0..h /\ c[0] = Genesis
         /\ \A n \in 1..h : Parent[c[n]] = c[n-1]
  BY CanonFacts
<1>2. PICK g \in Nat :
         /\ DOMAIN d = 0..g /\ d[0] = Genesis
         /\ \A n \in 1..g : Parent[d[n]] = d[n-1]
  BY CanonFacts
<1>3. h \in S
  BY <1>1, <1>2
<1>4. PICK k \in S : \A y \in S : k <= y
  BY <1>3, LeastElement
<1>5. k \in DOMAIN c \cap DOMAIN d /\ c[k] = d[k]
  <2>1. k \in Nat
    BY <1>4
  <2>2. CASE k = 0
    BY <1>1, <1>2, <2>2
  <2>3. CASE k # 0
    <3>1. k - 1 \in Nat /\ k - 1 \notin S
      BY <1>4, <2>1, <2>3
    <3>2. k - 1 + 1 = k
      BY <2>1
    <3> QED
      BY <3>1, <3>2
  <2> QED
    BY <2>2, <2>3
<1>6. /\ Fork(c, d) \in DOMAIN c \cap DOMAIN d
      /\ c[Fork(c, d)] = d[Fork(c, d)]
  BY <1>4, <1>5 DEF Fork
<1>7. ASSUME NEW m \in 0..Fork(c, d), c[m] # d[m]
      PROVE  FALSE
  <2> DEFINE f == Fork(c, d)
             T == {i \in Nat : i <= f /\ c[f - i] # d[f - i]}
  <2>1. f \in Nat /\ f <= h /\ f <= g /\ m \in Nat /\ m <= f /\ c[f] = d[f]
    BY <1>1, <1>2, <1>6
  <2> HIDE DEF f
  <2>2. f - m \in T
    <3>1. f - m \in Nat /\ f - m <= f /\ f - (f - m) = m
      BY <2>1
    <3> QED
      BY <1>7, <3>1
  <2>3. PICK i \in T : \A y \in T : i <= y
    BY <2>2, LeastElement
  <2>4. i \in Nat /\ i <= f /\ c[f - i] # d[f - i]
    BY <2>3
  <2>5. i # 0
    BY <2>1, <2>4
  <2>6. i - 1 \in Nat /\ i - 1 <= f /\ i - 1 \notin T
    BY <2>1, <2>3, <2>4, <2>5
  <2>7. c[f - (i - 1)] = d[f - (i - 1)]
    BY <2>6
  <2> DEFINE j == f - (i - 1)
  <2>8. j \in 1..h /\ j \in 1..g /\ j - 1 = f - i
    BY <2>1, <2>4, <2>5
  <2>9. c[j - 1] = d[j - 1]
    BY <1>1, <1>2, <2>7, <2>8
  <2> QED
    BY <2>4, <2>8, <2>9
<1> QED
  BY <1>6, <1>7

------------------------------------------------------------------------------
(* What the node announces. *)

Notice == [block : Block, removed : BOOLEAN]

LEMMA ConcatNotices ==
  ASSUME NEW s \in Seq(Notice), NEW t \in Seq(Notice)
  PROVE  /\ s \o t \in Seq(Notice)
         /\ \A i \in DOMAIN s : i \in DOMAIN (s \o t) /\ (s \o t)[i] = s[i]
         /\ \A i \in DOMAIN t : Len(s) + i \in DOMAIN (s \o t) /\ (s \o t)[Len(s) + i] = t[i]
         /\ \A i \in DOMAIN (s \o t) :
              \/ i \in DOMAIN s /\ (s \o t)[i] = s[i]
              \/ i - Len(s) \in DOMAIN t /\ (s \o t)[i] = t[i - Len(s)]
<1>1. /\ s \o t \in Seq(Notice) /\ Len(s \o t) = Len(s) + Len(t)
      /\ \A i \in 1..Len(s) + Len(t) : (s \o t)[i] = IF i <= Len(s) THEN s[i] ELSE t[i - Len(s)]
  BY ConcatProperties
<1>2. /\ DOMAIN s = 1..Len(s) /\ DOMAIN t = 1..Len(t) /\ DOMAIN (s \o t) = 1..Len(s) + Len(t)
      /\ Len(s) \in Nat /\ Len(t) \in Nat
  BY <1>1, LenProperties
<1>3. \A i \in 1..Len(s) : i \in 1..Len(s) + Len(t) /\ i <= Len(s)
  BY <1>2
<1>4. \A i \in 1..Len(t) :
        /\ Len(s) + i \in 1..Len(s) + Len(t) /\ ~(Len(s) + i <= Len(s))
        /\ Len(s) + i - Len(s) = i
  BY <1>2
<1>5. ASSUME NEW i \in 1..Len(s) + Len(t)
      PROVE  \/ i \in 1..Len(s) /\ i <= Len(s)
             \/ i - Len(s) \in 1..Len(t) /\ ~(i <= Len(s))
  <2>1. i \in Nat /\ 1 <= i /\ i <= Len(s) + Len(t)
    BY <1>2
  <2> QED
    BY <1>2, <2>1
<1> QED
  BY <1>1, <1>2, <1>3, <1>4, <1>5

LEMMA AboveFacts ==
  ASSUME NEW c \in Chains, NEW n \in DOMAIN c, NEW removed \in BOOLEAN
  PROVE  /\ Above(c, n, removed) \in Seq(Notice)
         /\ \A i \in DOMAIN Above(c, n, removed) :
              \E m \in DOMAIN c : m > n /\ Above(c, n, removed)[i].block = c[m]
         /\ \A m \in DOMAIN c : m > n =>
              \E i \in DOMAIN Above(c, n, removed) : Above(c, n, removed)[i].block = c[m]
<1>1. PICK h \in Nat : HeadHeight(c) = h /\ DOMAIN c = 0..h /\ c \in [0..h -> Block]
  BY CanonFacts
<1>2. n \in Nat /\ n <= h /\ h - n \in Nat
  BY <1>1
<1> DEFINE notices == [i \in 1..(h - n) |-> [block |-> c[n + i], removed |-> removed]]
<1>3. Above(c, n, removed) = notices
  BY <1>1 DEF Above
<1>4. \A i \in 1..(h - n) : n + i \in DOMAIN c /\ n + i > n /\ c[n + i] \in Block
  BY <1>1, <1>2
<1>5. notices \in Seq(Notice)
  <2>1. notices \in [1..(h - n) -> Notice]
    BY <1>4 DEF Notice
  <2> QED
    BY <1>2, <2>1, SeqDef, SMTT(40)
<1>6. \A m \in DOMAIN c : m > n => m - n \in 1..(h - n) /\ n + (m - n) = m
  BY <1>1, <1>2
<1>7. ASSUME NEW m \in DOMAIN c, m > n
      PROVE  \E i \in DOMAIN notices : notices[i].block = c[m]
  <2>1. m - n \in DOMAIN notices /\ notices[m - n].block = c[m]
    BY <1>6, <1>7
  <2> QED
    BY <2>1
<1>8. ASSUME NEW i \in DOMAIN notices
      PROVE  \E m \in DOMAIN c : m > n /\ notices[i].block = c[m]
  BY <1>4, <1>8
<1> QED
  BY <1>3, <1>5, <1>7, <1>8

IsAbove(b, c, n) == \E m \in DOMAIN c : m > n /\ b = c[m]

\* The notices tell of the blocks above the fork, gone and new, and of no other.
LEMMA AnnouncedFacts ==
  ASSUME NEW from \in Chains, NEW to \in Chains
  PROVE  /\ Announced(from, to) \in Seq(Notice)
         /\ \A b : b \in New(Announced(from, to)) <=> IsAbove(b, to, Fork(from, to))
         /\ \A b : b \in Gone(Announced(from, to)) <=> IsAbove(b, from, Fork(from, to))
<1> DEFINE n == Fork(from, to)
           s == Above(from, n, TRUE)
           t == Above(to, n, FALSE)
<1>1. n \in DOMAIN from /\ n \in DOMAIN to
  BY ForkFacts
<1>2. Announced(from, to) = s \o t
  BY DEF Announced
<1> HIDE DEF n
<1>3. /\ s \in Seq(Notice)
      /\ \A i \in DOMAIN s :
           s[i].removed = TRUE /\ \E m \in DOMAIN from : m > n /\ s[i].block = from[m]
      /\ \A m \in DOMAIN from : m > n => \E i \in DOMAIN s : s[i].block = from[m]
  <2>1. \A i \in DOMAIN s : s[i].removed = TRUE
    BY DEF Above
  <2>2. s \in Seq(Notice)
    BY <1>1, AboveFacts
  <2>3. \A i \in DOMAIN s : \E m \in DOMAIN from : m > n /\ s[i].block = from[m]
    BY <1>1, AboveFacts
  <2>4. \A m \in DOMAIN from : m > n => \E i \in DOMAIN s : s[i].block = from[m]
    BY <1>1, AboveFacts
  <2> HIDE DEF s
  <2> QED
    BY <2>1, <2>2, <2>3, <2>4
<1>4. /\ t \in Seq(Notice)
      /\ \A i \in DOMAIN t :
           t[i].removed = FALSE /\ \E m \in DOMAIN to : m > n /\ t[i].block = to[m]
      /\ \A m \in DOMAIN to : m > n => \E i \in DOMAIN t : t[i].block = to[m]
  <2>1. \A i \in DOMAIN t : t[i].removed = FALSE
    BY DEF Above
  <2> QED
    BY <1>1, <2>1, AboveFacts
<1> HIDE DEF s, t
<1> DEFINE u == s \o t
<1>5. /\ u \in Seq(Notice)
      /\ \A i \in DOMAIN s : i \in DOMAIN u /\ u[i] = s[i]
      /\ \A i \in DOMAIN t : Len(s) + i \in DOMAIN u /\ u[Len(s) + i] = t[i]
      /\ \A i \in DOMAIN u :
           \/ i \in DOMAIN s /\ u[i] = s[i]
           \/ i - Len(s) \in DOMAIN t /\ u[i] = t[i - Len(s)]
  BY <1>3, <1>4, ConcatNotices
<1> HIDE DEF u
<1>6. ASSUME NEW b
      PROVE  b \in New(u) <=> \E m \in DOMAIN to : m > n /\ b = to[m]
  <2>1. b \in New(u) <=> \E i \in DOMAIN u : ~u[i].removed /\ b = u[i].block
    BY DEF New
  <2>2. ASSUME NEW i \in DOMAIN u, ~u[i].removed
        PROVE  \E m \in DOMAIN to : m > n /\ u[i].block = to[m]
    <3>1. CASE i \in DOMAIN s /\ u[i] = s[i]
      BY <1>3, <2>2, <3>1, Zenon
    <3>2. CASE i - Len(s) \in DOMAIN t /\ u[i] = t[i - Len(s)]
      BY <1>4, <3>2, Zenon
    <3> QED
      BY <1>5, <3>1, <3>2
  <2>3. ASSUME NEW m \in DOMAIN to, m > n
        PROVE  \E i \in DOMAIN u : ~u[i].removed /\ to[m] = u[i].block
    <3>1. PICK i \in DOMAIN t : t[i].block = to[m]
      BY <1>4, <2>3
    <3>2. u[Len(s) + i] = t[i] /\ Len(s) + i \in DOMAIN u
      BY <1>5
    <3> QED
      BY <1>4, <3>1, <3>2
  <2> QED
    BY <2>1, <2>2, <2>3
<1>7. ASSUME NEW b
      PROVE  b \in Gone(u) <=> \E m \in DOMAIN from : m > n /\ b = from[m]
  <2>1. b \in Gone(u) <=> \E i \in DOMAIN u : u[i].removed /\ b = u[i].block
    BY DEF Gone
  <2>2. ASSUME NEW i \in DOMAIN u, u[i].removed
        PROVE  \E m \in DOMAIN from : m > n /\ u[i].block = from[m]
    <3>1. CASE i \in DOMAIN s /\ u[i] = s[i]
      BY <1>3, <3>1, ZenonT(40)
    <3>2. CASE i - Len(s) \in DOMAIN t /\ u[i] = t[i - Len(s)]
      BY <1>4, <2>2, <3>2, Zenon
    <3> QED
      BY <1>5, <3>1, <3>2
  <2>3. ASSUME NEW m \in DOMAIN from, m > n
        PROVE  \E i \in DOMAIN u : u[i].removed /\ from[m] = u[i].block
    <3>1. PICK i \in DOMAIN s : s[i].block = from[m]
      BY <1>3, <2>3
    <3> QED
      BY <1>3, <1>5, <3>1
  <2> QED
    BY <2>1, <2>2, <2>3
<1> QED
  BY <1>2, <1>5, <1>6, <1>7 DEF u, n, IsAbove

------------------------------------------------------------------------------
(* Type correctness.  A log is in hand exactly while it is looked up or saved. *)

Row == [block : Block, live : BOOLEAN, final : BOOLEAN, confirmations : Nat]

RowsOK == DOMAIN rows \subseteq Tx /\ rows \in [DOMAIN rows -> Row]
NodeOK == canon \in Chains /\ reorgs \in 0..MaxReorgs
ListenOK ==
  /\ place \in Places /\ feed \in Seq(Notice) /\ todo \subseteq Tx
  /\ inHand \in Tx \cup {NoLog} /\ block \in Block /\ unheard \subseteq Block
CountsOK == skips \in 0..MaxSkips /\ restarts \in 0..MaxRestarts
UpdaterOK ==
  /\ first \in {"own", "other"} /\ other \in 0..MaxOther /\ drops \in 0..MaxDrops
  /\ seenHead \in Nat \cup {NoHead}

HandOK == inHand # NoLog <=> place \in {"look", "save"}

IInv == RowsOK /\ NodeOK /\ ListenOK /\ CountsOK /\ UpdaterOK /\ HandOK

LEMMA TypeParts == IInv => TypeOK
  BY DEF IInv, TypeOK, RowsOK, NodeOK, ListenOK, CountsOK, UpdaterOK, Row, Notice

LEMMA InitInvariant == Init => IInv
<1> SUFFICES ASSUME Init
             PROVE  IInv
  OBVIOUS
<1>1. canon \in Chains /\ reorgs = 0 /\ Genesis \in Block
  BY BlockAssumption DEF Init, ChainInit
<1>2. \A n \in DOMAIN canon : canon[n] \in Block
  BY <1>1, CanonFacts
<1>3. RowsOK
  BY DEF Init, ListenerInit, RowsOK
<1>4. NodeOK /\ CountsOK
  BY <1>1, WebSocketAssumption DEF Init, ListenerInit, NodeOK, CountsOK
<1>5. ListenOK /\ HandOK
  BY <1>1, <1>2, EmptySeq DEF Init, ListenerInit, ListenOK, HandOK, Places
<1>6. UpdaterOK
  BY UpdaterAssumption DEF Init, UpdaterOK
<1> QED
  BY <1>3, <1>4, <1>5, <1>6 DEF IInv

\* A notice is of a block, and what is new or gone are blocks.
LEMMA NoticeBlocks ==
  ASSUME NEW s \in Seq(Notice)
  PROVE  New(s) \subseteq Block /\ Gone(s) \subseteq Block
<1>1. \A i \in DOMAIN s : s[i] \in Notice
  BY ElementOfSeq, LenProperties
<1> QED
  BY <1>1 DEF New, Gone, Notice

LEMMA NodeInvariant ==
  ASSUME IInv, NodeMoves, UNCHANGED updater
  PROVE  IInv'
<1> DEFINE notices == Announced(canon, canon')
<1>1. canon' \in Chains /\ reorgs' \in 0..MaxReorgs
  BY WebSocketAssumption DEF NodeMoves, ChainNext, Grow, Reorg, IInv, NodeOK
<1>2. notices \in Seq(Notice)
  BY <1>1, AnnouncedFacts DEF IInv, NodeOK
<1>3. New(notices) \subseteq Block /\ Gone(notices) \subseteq Block
  BY <1>2, NoticeBlocks
<1>4. /\ feed' = feed \o notices \/ feed' = feed
      /\ \/ unheard' = unheard \ (Gone(notices) \cup New(notices))
         \/ unheard' = (unheard \ Gone(notices)) \cup New(notices)
      /\ UNCHANGED <<rows, place, todo, inHand, block, skips, restarts>>
  BY DEF NodeMoves
<1> HIDE DEF notices
<1>5. feed' \in Seq(Notice)
  BY <1>2, <1>4, ConcatNotices DEF IInv, ListenOK
<1>6. ListenOK' /\ HandOK'
  BY <1>3, <1>4, <1>5 DEF IInv, ListenOK, HandOK
<1>7. RowsOK' /\ NodeOK' /\ CountsOK' /\ UpdaterOK'
  BY <1>1, <1>4 DEF IInv, RowsOK, NodeOK, CountsOK, UpdaterOK, updater
<1> QED
  BY <1>6, <1>7 DEF IInv

\* What is forgotten was sent to nobody.
LEMMA ForgetFacts ==
  ASSUME IInv, Forget
  PROVE  /\ feed' = <<>> /\ todo' = {} /\ inHand' = NoLog /\ block' \in Block
         /\ feed' \in Seq(Notice) /\ unheard' \subseteq Block
<1>1. New(feed) \subseteq Block
  BY NoticeBlocks DEF IInv, ListenOK
<1>2. Unsaved \subseteq Block
  BY <1>1 DEF Unsaved, IInv, ListenOK
<1> QED
  BY <1>2, EmptySeq, BlockAssumption DEF Forget, IInv, ListenOK

LEMMA ListenInvariant ==
  ASSUME IInv, UNCHANGED updater,
         Start \/ Subscribe \/ Listen \/ LoseSubscription \/ SkipLog
  PROVE  IInv'
<1>1. NodeOK' /\ UpdaterOK'
  BY DEF Start, Subscribe, Listen, TakeNotice, LookUp, SaveLog, TakeLog, LoseSubscription, SkipLog,
     IInv, NodeOK, UpdaterOK, updater, chainVars
<1>2. CASE Start \/ Subscribe
  <2>1. ListenOK' /\ HandOK'
    BY <1>2 DEF Start, Subscribe, IInv, ListenOK, HandOK, Places
  <2> QED
    BY <1>1, <1>2, <2>1 DEF Start, Subscribe, IInv, RowsOK, CountsOK
<1>3. CASE TakeNotice
  <2>1. /\ feed # <<>> /\ feed \in Seq(Notice) /\ Head(feed) \in Notice /\ Tail(feed) \in Seq(Notice)
    BY <1>3, HeadTailProperties DEF TakeNotice, IInv, ListenOK
  <2>2. block' \in Block /\ todo' \subseteq Tx /\ feed' \in Seq(Notice)
    BY <1>3, <2>1, EventAssumption DEF TakeNotice, Notice
  <2>3. ListenOK' /\ HandOK'
    BY <1>3, <2>2 DEF TakeNotice, IInv, ListenOK, HandOK
  <2> QED
    BY <1>1, <1>3, <2>3 DEF TakeNotice, IInv, RowsOK, CountsOK
<1>4. ASSUME NEW t \in Tx, TakeLog(t)
      PROVE  IInv'
  <2>1. ListenOK' /\ HandOK'
    BY <1>4, WebSocketAssumption DEF TakeLog, IInv, ListenOK, HandOK, Places
  <2> QED
    BY <1>1, <1>4, <2>1 DEF TakeLog, IInv, RowsOK, CountsOK
<1>5. CASE LookUp
  <2>1. ListenOK' /\ HandOK'
    BY <1>5 DEF LookUp, BackToWait, IInv, ListenOK, HandOK, Places
  <2> QED
    BY <1>1, <1>5, <2>1 DEF LookUp, IInv, RowsOK, CountsOK
<1>6. CASE SaveLog
  <2>1. inHand \in Tx /\ block \in Block
    BY <1>6 DEF SaveLog, IInv, HandOK, ListenOK
  <2>2. NewRow(block) \in Row
    BY <2>1 DEF NewRow, Row
  <2>3. rows' = InsertIfAbsent(rows, inHand, NewRow(block))
    BY <1>6 DEF SaveLog
  <2>4. RowsOK'
    BY <2>1, <2>2, <2>3 DEF InsertIfAbsent, IInv, RowsOK
  <2>5. ListenOK' /\ HandOK'
    BY <1>6 DEF SaveLog, BackToWait, IInv, ListenOK, HandOK, Places
  <2> QED
    BY <1>1, <1>6, <2>4, <2>5 DEF SaveLog, IInv, CountsOK
<1>7. CASE SkipLog
  <2>1. ListenOK' /\ HandOK'
    BY <1>7 DEF SkipLog, BackToWait, IInv, ListenOK, HandOK, Places
  <2>2. CountsOK'
    BY <1>7, WebSocketAssumption DEF SkipLog, IInv, CountsOK
  <2> QED
    BY <1>1, <1>7, <2>1, <2>2 DEF SkipLog, IInv, RowsOK
<1>8. CASE LoseSubscription
  <2>1. /\ place' = "ended" /\ Forget /\ UNCHANGED <<rows, skips, restarts>>
    BY <1>8 DEF LoseSubscription
  <2>2. ListenOK' /\ HandOK'
    BY <2>1, ForgetFacts DEF ListenOK, HandOK, Places
  <2> QED
    BY <1>1, <2>1, <2>2 DEF IInv, RowsOK, CountsOK
<1> QED
  BY <1>2, <1>3, <1>4, <1>5, <1>6, <1>7, <1>8 DEF Listen

LEMMA UpdaterInvariant ==
  ASSUME IInv, OtherMoves \/ Update \/ StopAll \/ UNCHANGED vars
  PROVE  IInv'
<1>1. CASE OtherMoves
  <2>1. UpdaterOK'
    BY <1>1, UpdaterAssumption DEF OtherMoves, IInv, UpdaterOK
  <2> QED
    BY <1>1, <2>1
    DEF OtherMoves, IInv, RowsOK, NodeOK, ListenOK, CountsOK, HandOK, chainVars, listener
<1>2. CASE ReadHeadHeight
  <2>1. HeadHeight(canon) \in Nat
    BY CanonFacts DEF IInv, NodeOK
  <2>2. UpdaterOK'
    BY <1>2, <2>1, UpdaterAssumption DEF ReadHeadHeight, IInv, UpdaterOK
  <2> QED
    BY <1>2, <2>2
    DEF ReadHeadHeight, IInv, RowsOK, NodeOK, ListenOK, CountsOK, HandOK, chainVars, listener
<1>3. CASE UpdateConfirmations
  <2>1. seenHead \in Nat
    BY <1>3 DEF UpdateConfirmations, IInv, UpdaterOK
  <2>2. ASSUME NEW t \in DOMAIN rows, Counted(rows[t])
        PROVE  Count(rows[t]) \in Row
    <3>1. rows[t] \in Row
      BY DEF IInv, RowsOK
    <3>2. Number[rows[t].block] \in Nat
      BY <3>1, BlockAssumption DEF Row
    <3>3. seenHead - Number[rows[t].block] \in Nat
      BY <2>1, <2>2, <3>2 DEF Counted
    <3>4. (seenHead - Number[rows[t].block] >= Required) \in BOOLEAN
      OBVIOUS
    <3> QED
      BY <3>1, <3>3, <3>4 DEF Count, Row
  <2>3. RowsOK'
    BY <1>3, <2>2 DEF UpdateConfirmations, IInv, RowsOK
  <2>4. UpdaterOK'
    BY <1>3 DEF UpdateConfirmations, IInv, UpdaterOK
  <2> QED
    BY <1>3, <2>3, <2>4
    DEF UpdateConfirmations, IInv, NodeOK, ListenOK, CountsOK, HandOK, chainVars
<1>4. CASE StopAll
  <2>1. /\ place' = "down" /\ Forget /\ restarts < MaxRestarts /\ restarts' = restarts + 1
        /\ seenHead' = NoHead /\ UNCHANGED <<chainVars, rows, skips, first, other, drops>>
    BY <1>4 DEF StopAll, Stop
  <2>2. ListenOK' /\ HandOK'
    BY <2>1, ForgetFacts DEF ListenOK, HandOK, Places
  <2>3. CountsOK'
    BY <2>1, WebSocketAssumption DEF IInv, CountsOK
  <2> QED
    BY <2>1, <2>2, <2>3 DEF IInv, RowsOK, NodeOK, UpdaterOK, chainVars
<1>5. CASE UNCHANGED vars
  BY <1>5 DEF vars, IInv, RowsOK, NodeOK, ListenOK, CountsOK, UpdaterOK, HandOK, chainVars, listener,
     updater
<1> QED
  BY <1>1, <1>2, <1>3, <1>4, <1>5 DEF Update

LEMMA Invariant == Spec => []IInv
<1>1. IInv /\ [Next]_vars => IInv'
  BY NodeInvariant, ListenInvariant, UpdaterInvariant DEF Next
<1> QED
  BY <1>1, InitInvariant, PTL DEF Spec

\* Every variable has its type, and no row ever counts fewer than no confirmations,
\* whatever head the updater is told (the WHERE clause of updateEventConfirmations).
THEOREM TypeCorrect == Spec => []TypeOK
  BY Invariant, TypeParts, PTL

------------------------------------------------------------------------------
(* Logs that are missed.  The property is inductive on top of IInv: what the node *)
(* says of the blocks above the fork reaches the feed or nobody, and below the    *)
(* fork nothing changes.                                                          *)

Accounted(b, t) == t \in DOMAIN rows \/ b \in unheard \/ ToCome(b, t)

\* A notice that is sent is to come, and what was to come still is.
LEMMA FeedFacts ==
  ASSUME NEW s \in Seq(Notice), feed \in Seq(Notice), feed' = feed \o s,
         UNCHANGED <<todo, inHand, block>>
  PROVE  \A b, t : b \in New(s) \/ ToCome(b, t) => ToCome(b, t)'
<1>1. /\ \A i \in DOMAIN feed : i \in DOMAIN feed' /\ feed'[i] = feed[i]
      /\ \A i \in DOMAIN s : Len(feed) + i \in DOMAIN feed' /\ feed'[Len(feed) + i] = s[i]
  BY ConcatNotices
<1>2. ASSUME NEW b, NEW t, b \in New(s)
      PROVE  ToCome(b, t)'
  <2>1. PICK i \in DOMAIN s : s[i].block = b /\ ~s[i].removed
    BY <1>2 DEF New
  <2> QED
    BY <1>1, <2>1 DEF ToCome
<1>3. ASSUME NEW b, NEW t, ToCome(b, t)
      PROVE  ToCome(b, t)'
  BY <1>1, <1>3 DEF ToCome
<1> QED
  BY <1>2, <1>3

LEMMA NodeAccounts ==
  ASSUME IInv, MissedOnlyUnheard, NodeMoves
  PROVE  MissedOnlyUnheard'
<1> SUFFICES ASSUME skips' = 0, NEW n \in DOMAIN canon', NEW b, b = canon'[n], NEW t \in Logs[b]
             PROVE  Accounted(b, t)'
  BY DEF MissedOnlyUnheard, Accounted, ToCome
<1> DEFINE notices == Announced(canon, canon')
           fork == Fork(canon, canon')
<1>1. canon \in Chains /\ canon' \in Chains /\ feed \in Seq(Notice)
  BY DEF NodeMoves, ChainNext, Grow, Reorg, IInv, NodeOK, ListenOK
<1>2. /\ notices \in Seq(Notice)
      /\ \A c : c \in New(notices) <=> IsAbove(c, canon', fork)
      /\ \A c : c \in Gone(notices) <=> IsAbove(c, canon, fork)
  BY <1>1, AnnouncedFacts
<1>3. /\ \/ /\ feed' = feed \o notices
            /\ unheard' = unheard \ (Gone(notices) \cup New(notices))
         \/ /\ feed' = feed
            /\ unheard' = (unheard \ Gone(notices)) \cup New(notices)
      /\ UNCHANGED <<rows, place, todo, inHand, block, skips, restarts>>
  BY DEF NodeMoves
<1>4. fork \in DOMAIN canon /\ fork \in DOMAIN canon' /\ \A m \in 0..fork : canon[m] = canon'[m]
  BY <1>1, ForkFacts
<1>5. PICK h \in Nat : DOMAIN canon = 0..h /\ \A m \in 0..h : Number[canon[m]] = m
  BY <1>1, CanonFacts
<1>6. PICK g \in Nat : DOMAIN canon' = 0..g /\ \A m \in 0..g : Number[canon'[m]] = m
  BY <1>1, CanonFacts
<1> HIDE DEF notices, fork
<1>7. \A c, u : feed' = feed => (ToCome(c, u) => ToCome(c, u)')
  BY <1>3 DEF ToCome
<1>8. \A c, u : feed' = feed \o notices => (c \in New(notices) \/ ToCome(c, u) => ToCome(c, u)')
  BY <1>1, <1>2, <1>3, FeedFacts
<1>9. CASE n > fork
  <2>1. b \in New(notices)
    BY <1>2, <1>9 DEF IsAbove
  <2> QED
    BY <1>3, <1>8, <2>1 DEF Accounted
<1>10. CASE ~(n > fork)
  <2>1. n \in 0..fork /\ n \in DOMAIN canon /\ canon[n] = b
    BY <1>4, <1>5, <1>6, <1>10
  <2>2. b \notin New(notices) /\ b \notin Gone(notices)
    <3>1. \A m \in DOMAIN canon' : m > fork => canon'[m] # b
      BY <1>4, <1>6, <1>10
    <3>2. \A m \in DOMAIN canon : m > fork => canon[m] # b
      BY <1>5, <1>10, <2>1
    <3> QED
      BY <1>2, <3>1, <3>2 DEF IsAbove
  <2>3. Accounted(b, t)
    BY <1>3, <2>1 DEF MissedOnlyUnheard, Accounted
  <2> QED
    BY <1>3, <1>7, <1>8, <2>2, <2>3 DEF Accounted
<1> QED
  BY <1>9, <1>10

\* Whoever forgets says so.
LEMMA ForgetAccounts ==
  ASSUME IInv, MissedOnlyUnheard, Forget, UNCHANGED <<chainVars, rows, skips>>
  PROVE  MissedOnlyUnheard'
<1> SUFFICES ASSUME skips' = 0, NEW n \in DOMAIN canon', NEW t \in Logs[canon'[n]]
             PROVE  t \in DOMAIN rows' \/ canon'[n] \in unheard'
  BY DEF MissedOnlyUnheard
<1>1. canon' = canon /\ rows' = rows /\ skips = 0 /\ unheard' = unheard \cup Unsaved
  BY DEF chainVars, Forget
<1>2. t \in DOMAIN rows \/ canon[n] \in unheard \/ ToCome(canon[n], t)
  BY <1>1 DEF MissedOnlyUnheard
<1>3. t \in Tx /\ t # NoLog
  <2>1. canon[n] \in Block
    BY <1>1, CanonFacts DEF IInv, NodeOK
  <2> QED
    BY <1>1, <2>1, EventAssumption, WebSocketAssumption
<1>4. ToCome(canon[n], t) => canon[n] \in Unsaved
  BY <1>3 DEF ToCome, Unsaved, New
<1> QED
  BY <1>1, <1>2, <1>4

LEMMA ListenAccounts ==
  ASSUME IInv, MissedOnlyUnheard, Listen \/ Start \/ Subscribe \/ SkipLog
  PROVE  MissedOnlyUnheard'
<1> SUFFICES ASSUME skips' = 0, NEW n \in DOMAIN canon', NEW b, b = canon'[n], NEW t \in Logs[b]
             PROVE  Accounted(b, t)'
  BY DEF MissedOnlyUnheard, Accounted, ToCome
<1>1. canon' = canon /\ unheard' = unheard
  BY DEF Listen, TakeNotice, LookUp, SaveLog, TakeLog, BackToWait, Start, Subscribe, SkipLog, chainVars
<1>2. ~SkipLog /\ skips' = skips
  BY DEF Listen, TakeNotice, LookUp, SaveLog, TakeLog, Start, Subscribe, SkipLog, IInv, CountsOK
<1>3. Accounted(b, t)
  BY <1>1, <1>2 DEF MissedOnlyUnheard, Accounted
<1>4. t \in Tx /\ t # NoLog
  <2>1. b \in Block
    BY <1>1, CanonFacts DEF IInv, NodeOK
  <2> QED
    BY <1>1, <2>1, EventAssumption, WebSocketAssumption
<1>5. CASE Start \/ Subscribe
  BY <1>1, <1>3, <1>5 DEF Start, Subscribe, Accounted, ToCome
<1>6. CASE TakeNotice
  <2>1. /\ place = "wait" /\ todo = {} /\ inHand = NoLog /\ rows' = rows
        /\ todo' = Logs[Head(feed).block] /\ block' = Head(feed).block /\ feed' = Tail(feed)
    BY <1>6 DEF TakeNotice, IInv, HandOK
  <2>2. ToCome(b, t) => \E i \in DOMAIN feed : feed[i].block = b /\ ~feed[i].removed
    BY <1>4, <2>1 DEF ToCome
  <2>3. /\ Head(feed) = feed[1] /\ Len(Tail(feed)) = Len(feed) - 1 /\ Len(feed) \in Nat
        /\ DOMAIN feed = 1..Len(feed) /\ DOMAIN Tail(feed) = 1..Len(Tail(feed))
        /\ \A i \in 1..Len(Tail(feed)) : Tail(feed)[i] = feed[i+1]
    <3>1. feed # <<>> /\ feed \in Seq(Notice)
      BY <1>6 DEF TakeNotice, IInv, ListenOK
    <3> QED
      BY <3>1, HeadTailProperties, LenProperties
  <2>4. ASSUME NEW i \in DOMAIN feed, feed[i].block = b, ~feed[i].removed
        PROVE  ToCome(b, t)'
    <3>1. CASE i = 1
      BY <1>1, <2>1, <2>3, <2>4, <3>1 DEF ToCome
    <3>2. CASE i # 1
      <4>1. i - 1 \in DOMAIN feed' /\ feed'[i - 1] = feed[i]
        BY <2>1, <2>3, <3>2
      <4> QED
        BY <1>1, <2>4, <4>1 DEF ToCome
    <3> QED
      BY <3>1, <3>2
  <2> QED
    BY <1>1, <1>3, <2>1, <2>2, <2>4 DEF Accounted
<1>7. ASSUME NEW u \in Tx, TakeLog(u)
      PROVE  Accounted(b, t)'
  <2>1. /\ inHand = NoLog /\ todo' = todo \ {u} /\ inHand' = u /\ UNCHANGED <<rows, feed, block>>
    BY <1>7 DEF TakeLog, IInv, HandOK
  <2> QED
    BY <1>1, <1>3, <1>4, <2>1 DEF Accounted, ToCome
<1>8. CASE LookUp
  <2>1. UNCHANGED <<rows, feed, todo, block>>
    BY <1>8 DEF LookUp, BackToWait
  <2>2. inHand = t => UNCHANGED inHand
    <3>1. Mined(t)
      BY <1>1 DEF Mined
    <3> QED
      BY <1>8, <3>1 DEF LookUp
  <2> QED
    BY <1>1, <1>3, <2>1, <2>2 DEF Accounted, ToCome
<1>9. CASE SaveLog
  <2>1. UNCHANGED <<feed, todo, block>>
    BY <1>9 DEF SaveLog, BackToWait
  <2>2. DOMAIN rows' = DOMAIN rows \cup {inHand}
    BY <1>9 DEF SaveLog, InsertIfAbsent
  <2> QED
    BY <1>1, <1>3, <2>1, <2>2 DEF Accounted, ToCome
<1> QED
  BY <1>2, <1>5, <1>6, <1>7, <1>8, <1>9 DEF Listen

LEMMA UpdaterAccounts ==
  ASSUME IInv, MissedOnlyUnheard, OtherMoves \/ Update \/ UNCHANGED vars
  PROVE  MissedOnlyUnheard'
<1>1. /\ UNCHANGED <<canon, unheard, feed, todo, inHand, block, skips>>
      /\ DOMAIN rows' = DOMAIN rows
  BY DEF OtherMoves, Update, ReadHeadHeight, UpdateConfirmations, vars, chainVars, listener
<1> QED
  BY <1>1 DEF MissedOnlyUnheard, ToCome

\* A log of the chain that is neither saved nor to come was sent to nobody or to a
\* subscription that broke, whatever reorganisations, repetitions and restarts happen
\* (listenWithWebSocket, processLog).
THEOREM OnlyUnheardIsMissed == Spec => []MissedOnlyUnheard
<1>1. Init => MissedOnlyUnheard
  BY DEF Init, ListenerInit, MissedOnlyUnheard
<1>2. IInv /\ MissedOnlyUnheard /\ [Next]_vars => MissedOnlyUnheard'
  <2> SUFFICES ASSUME IInv, MissedOnlyUnheard, [Next]_vars
               PROVE  MissedOnlyUnheard'
    OBVIOUS
  <2>1. CASE NodeMoves
    BY <2>1, NodeAccounts
  <2>2. CASE LoseSubscription \/ StopAll
    BY <2>2, ForgetAccounts DEF LoseSubscription, StopAll, Stop
  <2>3. CASE Start \/ Subscribe \/ Listen \/ SkipLog
    BY <2>3, ListenAccounts
  <2>4. CASE OtherMoves \/ Update \/ UNCHANGED vars
    BY <2>4, UpdaterAccounts
  <2> QED
    BY <2>1, <2>2, <2>3, <2>4 DEF Next
<1> QED
  BY <1>1, <1>2, Invariant, PTL DEF Spec
=================================================================================
