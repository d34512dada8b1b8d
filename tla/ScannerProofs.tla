--------------------------- MODULE ScannerProofs ---------------------------
(***************************************************************************)
(* Proofs about Scanner, for every set of symbols, exchanges and quotes,   *)
(* batch size, lifetime of a dedup key, fault and restart.  The inductive  *)
(* invariant SInv adds to the type what the loop holds in each of its      *)
(* awaits (TaskShape), how the claims of the batch in hand relate to the   *)
(* histories (InHand), and that the age of a publication and the rest of   *)
(* its key's life together never fall below Ttl - MaxLag (Spaced).         *)
(***************************************************************************)
EXTENDS Scanner, WellFoundedInduction, TLAPS

Handling == {"depth", "claim", "publish", "store", "ack"}

(* What the loop's locals hold at each await.                              *)
TaskShape ==
    /\ pc \notin Handling => /\ lo = 0 /\ todo = {} /\ cand = {}
                             /\ found = <<>> /\ out = 0
    /\ pc \in Handling => lo > 0 /\ \A i \in acked : i < lo
    /\ pc \in {"depth", "claim"} => out = 0
    /\ pc \in {"publish", "store", "ack"} => todo = {} /\ cand = {}
    /\ pc = "depth" => cand = {}
    /\ pc = "publish" => out < Len(found)
    /\ pc \in {"store", "ack"} => out = Len(found)
    /\ proc = "up" <=> pc \notin {"off", "group"}

(* A batch claims no key twice: each of its symbols is looked at once.     *)
Distinct ==
    /\ \A i, j \in DOMAIN found : found[i] = found[j] => i = j
    /\ \A j \in DOMAIN found : found[j] \notin cand /\ found[j][1] \notin todo
    /\ \A k \in cand : k[1] \notin todo

(* The claims of the batch in hand: made, in part published, before the    *)
(* XACK all stored; a claim of an entry in hand is one of them.            *)
InHand ==
    /\ \A j \in DOMAIN found :
          /\ <<found[j], last>> \in claimed
          /\ j <= out => <<found[j], last>> \in published
          /\ pc = "ack" => <<found[j], last>> \in stored
    /\ \A c \in claimed : c[2] <= last
    /\ pc \in Handling =>
          \A c \in claimed : c[2] >= lo =>
              c[2] = last /\ \E j \in DOMAIN found : found[j] = c[1]

(* The arithmetic of the dedup key.                                        *)
Spaced ==
    /\ \A k \in Keys : since[k] + marks[k] >= Ttl - MaxLag
    /\ \A k \in Waiting : since[k] >= Ttl - MaxLag /\ Ttl - marks[k] <= MaxLag

SInv == TypeOK /\ TaskShape /\ Distinct /\ InHand /\ AckedIsPublished /\ Spaced

----------------------------------------------------------------------------
(* The smallest element of a set of naturals, and so the largest of a set  *)
(* of naturals with a bound.                                               *)
LEMMA MaxExists ==
    ASSUME NEW n \in Nat, NEW I, I \subseteq 0 .. n, I # {}
    PROVE  \E i \in I : \A j \in I : j <= i
<1> DEFINE T == {n - i : i \in I}
<1>1. T \subseteq Nat /\ T # {}
  <2>1. \A i \in I : n - i \in Nat  OBVIOUS
  <2> QED  BY <2>1
<1> DEFINE R == {p \in Nat \X Nat : p[1] < p[2]}
<1>a. IsWellFoundedOn(R, Nat)  BY NatLessThanWellFounded DEF OpToRel
<1>2. PICK x \in T : \A y \in T : <<y, x>> \notin R
  <2> HIDE DEF R, T
  <2> QED  BY <1>1, <1>a, WFMin
<1>3. \A y \in T : ~(y < x)
    BY <1>1, <1>2
<1>4. PICK i \in I : x = n - i  OBVIOUS
<1>5. ASSUME NEW j \in I PROVE j <= i
  <2>1. ~(n - j < n - i)
    <3>1. n - j \in T  OBVIOUS
    <3> QED  BY <1>3, <1>4, <3>1
  <2> HIDE DEF T, R
  <2>2. i \in 0 .. n /\ j \in 0 .. n  OBVIOUS
  <2> QED  BY <2>1, <2>2
<1> QED  BY <1>5

(* The newest quote is a quote of the stream, or the old one.              *)
LEMMA NewestType ==
    ASSUME TypeOK, NEW s, NEW e, NEW I, NEW old
    PROVE  Newest(s, e, I, old) \in Quotes \cup {old}
<1> DEFINE Q == QuotesOf(s, e, I)
<1>1. CASE Q = {}  BY <1>1 DEF Newest
<1>2. CASE Q # {}
  <2>1. Q \subseteq 0 .. Len(entries) /\ Len(entries) \in Nat
      BY DEF QuotesOf, TypeOK
  <2>2. \E i \in Q : \A j \in Q : j <= i  BY <1>2, <2>1, MaxExists
  <2> DEFINE m == CHOOSE i \in Q : \A j \in Q : j <= i
  <2>3. m \in Q  BY <2>2
  <2>4. entries[m] \in Prices  BY <2>3 DEF QuotesOf
  <2>5. entries[m].quote \in Quotes  BY <2>4 DEF Prices
  <2> QED  BY <1>2, <2>5 DEF Newest
<1> QED  BY <1>1, <1>2

(* A batch lies past the cursor and within the stream.                     *)
LEMMA UptoFacts ==
    ASSUME TypeOK, last < Len(entries)
    PROVE  /\ last \in Nat /\ FirstNew \in Nat /\ Upto \in Nat
           /\ last < FirstNew /\ FirstNew <= Upto
           /\ Upto <= Len(entries) /\ Len(entries) \in Nat
           /\ Reply = FirstNew .. Upto
<1>1. /\ last \in Nat /\ trimmed \in Nat /\ Len(entries) \in Nat
      /\ trimmed < Len(entries)
    BY ScannerAssumption DEF TypeOK
<1>2. FirstNew \in Nat /\ last < FirstNew /\ FirstNew <= Len(entries)
    BY <1>1 DEF FirstNew
<1> QED  BY <1>1, <1>2, ScannerAssumption DEF Upto, Reply

(* The invariant holds before the first start.                             *)
LEMMA SInit == Init => SInv
<1> SUFFICES ASSUME Init PROVE SInv  OBVIOUS
<1> USE DEF Init
<1>1. TypeOK
  <2>1. book \in [Symbols -> [Exchanges -> Quotes \cup {NoQuote}]]  BY DEF NoBook
  <2>2. marks \in [Keys -> 0 .. Ttl] /\ since \in [Keys -> 0 .. Ttl]
      BY ScannerAssumption
  <2>3. /\ entries \in Seq(Prices \cup {Malformed}) /\ Len(entries) = 0
        /\ found \in Seq(Keys) /\ Len(found) = 0
      OBVIOUS
  <2>4. /\ 0 \in 0 .. MaxFaults /\ 0 \in 0 .. MaxStops /\ 0 <= MaxEntries
        /\ minSpread \in MinSpreads /\ notional \in Notionals
      BY ScannerAssumption
  <2>5. /\ last \in 0 .. Len(entries) /\ pel \subseteq 1 .. last
        /\ acked \subseteq 1 .. last /\ lo \in 0 .. last
        /\ out \in 0 .. Len(found) /\ base \in 0 .. last
      BY <2>3
  <2> QED  BY <2>1, <2>2, <2>3, <2>4, <2>5 DEF TypeOK
<1>2. TaskShape /\ Distinct /\ InHand /\ AckedIsPublished
    BY DEF TaskShape, Handling, Distinct, InHand, AckedIsPublished
<1>3. Waiting = {}  BY DEF Waiting
<1>4. Spaced
    BY <1>3, ScannerAssumption DEF Spaced
<1> QED  BY <1>1, <1>2, <1>4 DEF SInv

----------------------------------------------------------------------------
(* Appending to a list.                                                    *)
LEMMA AppendFacts ==
    ASSUME NEW S, NEW q \in Seq(S), NEW e \in S
    PROVE  /\ Append(q, e) \in Seq(S)
           /\ Len(q) \in Nat /\ Len(Append(q, e)) = Len(q) + 1
           /\ DOMAIN q = 1 .. Len(q) /\ DOMAIN Append(q, e) = 1 .. Len(q) + 1
           /\ \A k \in 1 .. Len(q) : Append(q, e)[k] = q[k]
           /\ Append(q, e)[Len(q) + 1] = e
OBVIOUS

(* The collector's tick, the settings, a stutter: what the loop and Redis  *)
(* hold does not change.                                                   *)
LEMMA QuoteStep == ASSUME SInv, Quote PROVE SInv'
<1> USE DEF SInv
<1>1. PICK t \in Prices \cup {Malformed} : entries' = Append(entries, t)
    BY DEF Quote
<1>2. /\ entries' \in Seq(Prices \cup {Malformed})
      /\ Len(entries') = Len(entries) + 1 /\ Len(entries) \in Nat
    BY <1>1, AppendFacts DEF TypeOK
<1>0. trimmed' \in Nat /\ (trimmed' = 0 \/ trimmed' + MaxLen <= Len(entries'))
  <2>1. /\ trimmed \in Nat /\ trimmed' \in Trims(Len(entries) + 1)
        /\ trimmed = 0 \/ trimmed + MaxLen <= Len(entries)
      BY DEF Quote, TypeOK
  <2>2. trimmed' \in trimmed .. Len(entries) + 1
        /\ (trimmed' = trimmed \/ trimmed' + MaxLen <= Len(entries) + 1)
      BY <2>1 DEF Trims
  <2> QED  BY <1>2, <2>1, <2>2, ScannerAssumption
<1>3. TypeOK'
    BY <1>0, <1>2, ScannerAssumption
       DEF Quote, TypeOK, dedup, settings, task, history, life, bounds
<1>4. UNCHANGED <<last, acked, dedup, task, history, proc>>
    BY DEF Quote, life
<1>5. (TaskShape /\ Distinct /\ InHand /\ AckedIsPublished)'
    BY <1>4 DEF TaskShape, Distinct, InHand, AckedIsPublished, task, history
<1>6. Spaced'
    BY <1>4 DEF Spaced, Waiting, task, dedup
<1> QED  BY <1>3, <1>5, <1>6

(* The settings reread, and a stutter: neither touches the claims.         *)
LEMMA RefreshStep == ASSUME SInv, Refresh \/ UNCHANGED vars PROVE SInv'
<1> USE DEF SInv
<1>1. UNCHANGED <<stream, dedup, book, task, history, life, bounds>>
    BY DEF Refresh, vars
<1>2. minSpread' \in MinSpreads /\ notional' \in Notionals
    BY DEF Refresh, vars, settings, TypeOK
<1>3. TypeOK'
    BY <1>1, <1>2
       DEF TypeOK, stream, dedup, task, history, life, bounds
<1>4. (TaskShape /\ Distinct /\ InHand /\ AckedIsPublished)'
    BY <1>1 DEF TaskShape, Distinct, InHand, AckedIsPublished, stream, task,
                history, life
<1>5. Spaced'
    BY <1>1 DEF Spaced, Waiting, task, dedup
<1> QED  BY <1>3, <1>4, <1>5

(* Time: what a key loses of its life its publication gains in age.        *)
LEMMA TickStep == ASSUME SInv, Tick PROVE SInv'
<1> USE DEF SInv
<1>1. UNCHANGED <<stream, book, settings, task, history, life, bounds>>
    BY DEF Tick
<1>2. \A k \in Keys : /\ marks[k] \in 0 .. Ttl /\ since[k] \in 0 .. Ttl
                      /\ marks'[k] = IF marks[k] > 0 THEN marks[k] - 1 ELSE 0
                      /\ since'[k] = IF since[k] < Ttl THEN since[k] + 1 ELSE Ttl
    BY DEF Tick, TypeOK
<1>3. marks' \in [Keys -> 0 .. Ttl] /\ since' \in [Keys -> 0 .. Ttl]
  <2>1. \A k \in Keys :
           /\ (IF marks[k] > 0 THEN marks[k] - 1 ELSE 0) \in 0 .. Ttl
           /\ (IF since[k] < Ttl THEN since[k] + 1 ELSE Ttl) \in 0 .. Ttl
      BY <1>2, ScannerAssumption
  <2> QED  BY <2>1 DEF Tick
<1>4. TypeOK'
    BY <1>1, <1>3 DEF TypeOK, stream, settings, task, history, life, bounds
<1>5. (TaskShape /\ Distinct /\ InHand /\ AckedIsPublished)'
    BY <1>1 DEF TaskShape, Distinct, InHand, AckedIsPublished, stream, task,
                history, life
<1>6. Waiting' = Waiting  BY <1>1 DEF Waiting, task
<1>7. Waiting \subseteq Keys  BY DEF Waiting, TypeOK
<1>8. \A k \in Keys : since'[k] + marks'[k] >= Ttl - MaxLag
    BY <1>2, ScannerAssumption DEF Spaced
<1>9. \A k \in Waiting : since'[k] >= Ttl - MaxLag /\ Ttl - marks'[k] <= MaxLag
    BY <1>2, <1>7, ScannerAssumption DEF Spaced, Tick
<1> QED  BY <1>4, <1>5, <1>6, <1>8, <1>9 DEF Spaced

(* An idle loop: what remains to be shown when the locals are cleared.     *)
LEMMA IdleStep ==
    ASSUME SInv, TypeOK', pc' \notin Handling,
           lo' = 0, todo' = {}, cand' = {}, found' = <<>>, out' = 0,
           proc' = "up" <=> pc' \notin {"off", "group"},
           \A c \in claimed' : c[2] <= last',
           AckedIsPublished',
           \A k \in Keys : since'[k] + marks'[k] >= Ttl - MaxLag
    PROVE  SInv'
<1>1. TaskShape'  BY DEF TaskShape, Handling
<1>2. Distinct'  BY DEF Distinct
<1>3. InHand'  BY DEF InHand, Handling
<1>4. Waiting' = {}  BY DEF Waiting
<1>5. Spaced'  BY <1>4 DEF Spaced
<1> QED  BY <1>1, <1>2, <1>3, <1>5 DEF SInv

(* Start, wake and end leave the loop idle and the claims alone.           *)
LEMMA LifeSteps == ASSUME SInv, LifeStep \/ Wake \/ End PROVE SInv'
<1> USE DEF SInv
<1>0. /\ UNCHANGED <<dedup, claimed, published, stored, acked>>
      /\ last \in Nat /\ last' \in Nat /\ last <= last' /\ last' <= Len(entries)
      /\ UNCHANGED <<entries, trimmed, pel>>
    BY DEF LifeStep, Boot, EnsureGroup, Cursor, Wake, End, stream, history, TypeOK
<1>1. (\A c \in claimed' : c[2] <= last') /\ AckedIsPublished'
  <2>1. \A c \in claimed : c[2] \in Nat  BY DEF TypeOK, Claims, Ids
  <2> QED  BY <1>0, <2>1 DEF InHand, AckedIsPublished
<1>2. \A k \in Keys : since'[k] + marks'[k] >= Ttl - MaxLag
    BY <1>0 DEF Spaced, dedup
<1>3. /\ pc' \in {"off", "group", "read"} /\ pc' \notin Handling
      /\ proc' \in {"down", "boot", "up"}
      /\ lo' = 0 /\ todo' = {} /\ cand' = {} /\ found' = <<>> /\ out' = 0
      /\ proc' = "up" <=> pc' \notin {"off", "group"}
    BY DEF LifeStep, Boot, EnsureGroup, Wake, End, TaskShape, Handling, life, TypeOK
<1>4. /\ group' \in BOOLEAN /\ base' \in 0 .. last'
      /\ book' \in [Symbols -> [Exchanges -> Quotes \cup {NoQuote}]]
      /\ minSpread' \in MinSpreads /\ notional' \in Notionals
      /\ raised' \in BOOLEAN /\ faults' \in 0 .. MaxFaults
      /\ stops' \in 0 .. MaxStops
  <2>1. book' \in [Symbols -> [Exchanges -> Quotes \cup {NoQuote}]]
    <3>1. book' = book \/ book' = NoBook
        BY DEF LifeStep, Boot, EnsureGroup, Wake, End
    <3> QED  BY <3>1 DEF NoBook, TypeOK
  <2>2. stops \in 0 .. MaxStops /\ MaxStops \in Nat  BY ScannerAssumption DEF TypeOK
  <2>3. CASE LifeStep \/ Wake
    <3>1. UNCHANGED <<minSpread, notional, raised, faults, stops>>
        BY <2>3 DEF LifeStep, Boot, EnsureGroup, Wake, settings, bounds
    <3>2. \/ UNCHANGED <<group, base, last>>
          \/ group' = TRUE /\ base' = last'
        BY <2>3 DEF LifeStep, Boot, EnsureGroup, Wake, stream, life
    <3>3. group' \in BOOLEAN  BY <3>2, Zenon DEF TypeOK
    <3>4. base' \in 0 .. last'
      <4>1. base \in 0 .. last  BY DEF TypeOK
      <4> QED  BY <1>0, <3>2, <4>1
    <3> QED  BY <2>1, <3>1, <3>3, <3>4 DEF TypeOK
  <2>4. CASE End
      BY <1>0, <2>1, <2>2, <2>4, ScannerAssumption DEF End, stream, TypeOK
  <2> QED  BY <2>3, <2>4
<1>5. TypeOK'
    BY <1>0, <1>3, <1>4 DEF TypeOK, dedup
<1> QED  BY <1>1, <1>2, <1>3, <1>5, IdleStep

(* A batch is delivered: past the cursor, so none of it is acknowledged    *)
(* or claimed yet.                                                         *)
LEMMA ReadStep == ASSUME SInv, Read \/ ReadNothing PROVE SInv'
<1> USE DEF SInv
<1>1. CASE ReadNothing
    BY <1>1, RefreshStep DEF ReadNothing
<1>2. CASE Read
  <2>1. /\ last \in Nat /\ Upto \in Nat /\ FirstNew \in Nat
        /\ last < FirstNew /\ FirstNew <= Upto /\ Upto <= Len(entries)
        /\ Len(entries) \in Nat
      BY <1>2, UptoFacts DEF Read
  <2>2. /\ last' = Upto /\ pel' = pel \cup (FirstNew .. Upto)
        /\ UNCHANGED <<entries, trimmed, group, acked, dedup, settings, history, life, bounds>>
        /\ lo' = FirstNew /\ todo' = Updated
        /\ cand' = {} /\ found' = <<>> /\ out' = 0
      BY <1>2 DEF Read, Delivered, Reply, TaskShape, Handling
  <2>3. /\ pc' \in {"depth", "ack"}
        /\ pc' = "ack" => todo' = {}
      BY <1>2, <2>2 DEF Read, After
  <2>4. book' \in [Symbols -> [Exchanges -> Quotes \cup {NoQuote}]]
    <3>1. ASSUME NEW s \in Symbols, NEW e \in Exchanges
          PROVE  Applied(s, e) \in Quotes \cup {NoQuote}
      <4>1. Applied(s, e) \in Quotes \cup {book[s][e]}
          BY NewestType DEF Applied
      <4>2. book[s][e] \in Quotes \cup {NoQuote}  BY DEF TypeOK
      <4> QED  BY <4>1, <4>2
    <3> QED  BY <1>2, <3>1 DEF Read
  <2>5. /\ pel' \subseteq 1 .. last' /\ acked' \subseteq 1 .. last'
        /\ last' \in 0 .. Len(entries') /\ lo' \in 0 .. last'
        /\ base' \in 0 .. last' /\ todo' \subseteq Symbols
      BY <2>1, <2>2 DEF TypeOK, life, Updated
  <2>6. found' \in Seq(Keys) /\ Len(found') = 0 /\ DOMAIN found' = {}
      BY <2>2
  <2>7. out' \in 0 .. Len(found')  BY <2>2, <2>6
  <2>8. TypeOK'
    <3>1. UNCHANGED <<entries, trimmed, group, marks, since, minSpread, notional, claimed,
                      published, stored, proc, base, raised, faults, stops>>
        BY <2>2 DEF dedup, settings, history, life, bounds
    <3>2. cand' \subseteq Keys /\ pc' \in {"depth", "ack"}  BY <2>2, <2>3
    <3> QED  BY <2>4, <2>5, <2>6, <2>7, <3>1, <3>2 DEF TypeOK
  <2>9. pc = "read" /\ proc' = proc /\ proc = "up"
      BY <1>2 DEF Read, life, TaskShape
  <2>10. TaskShape'
    <3>1. lo' > 0 /\ \A i \in acked' : i < lo'
        BY <2>1, <2>2 DEF TypeOK
    <3>2. pc' \in Handling /\ pc' \notin {"off", "group"}  BY <2>3 DEF Handling
    <3>3. pc' = "ack" => todo' = {} /\ cand' = {} /\ out' = Len(found')
        BY <2>2, <2>3, <2>6
    <3> QED  BY <2>2, <2>3, <2>9, <3>1, <3>2, <3>3 DEF TaskShape
  <2>11. Distinct'  BY <2>2, <2>6 DEF Distinct
  <2>12. InHand'
    <3>1. \A c \in claimed : c[2] \in Nat /\ c[2] <= last
        BY DEF TypeOK, Claims, Ids, InHand
    <3> QED  BY <2>1, <2>2, <2>6, <3>1 DEF InHand, history
  <2>13. AckedIsPublished'  BY <2>2 DEF AckedIsPublished, history
  <2>14. Waiting' = {}  BY <2>6 DEF Waiting
  <2>15. Spaced'  BY <2>2, <2>14 DEF Spaced, dedup
  <2> QED  BY <2>8, <2>10, <2>11, <2>12, <2>13, <2>15
<1> QED  BY <1>1, <1>2

(* One symbol: its spreads are keys of a symbol that is not looked at      *)
(* again, or the iteration ends.                                           *)
LEMMA CalculateStep == ASSUME SInv, NEW s \in Symbols, Calculate(s) PROVE SInv'
<1> USE DEF SInv
<1>1. /\ UNCHANGED <<stream, dedup, book, settings, history, life, faults, stops>>
      /\ pc = "depth" /\ s \in todo
    BY DEF Calculate
<1>2. PICK fresh \in SUBSET (Known(s) \cap WithDepth), filled \in SUBSET Pairs(s) :
          LET spreads == Spreads(s, fresh, filled) IN
          IF DividesByZero(spreads) THEN Drop
          ELSE /\ todo' = todo \ {s} /\ cand' = spreads
               /\ pc' = After(todo \ {s}, spreads, found)
               /\ UNCHANGED <<lo, found, out, raised>>
    BY DEF Calculate
<1> DEFINE spreads == Spreads(s, fresh, filled)
<1>3. spreads \subseteq Keys /\ \A k \in spreads : k[1] = s
    BY DEF Spreads, Pairs
<1> HIDE DEF spreads
<1>4. cand = {}
  <2>1. \A k \in cand : FALSE
    BY <1>1 DEF TaskShape
  <2> QED  BY <2>1
<1>5. CASE DividesByZero(spreads)
  <2>1. Drop  BY <1>2, <1>5 DEF spreads
  <2>2. TypeOK'
    <3>1. found' \in Seq(Keys) /\ out' \in 0 .. Len(found') /\ lo' \in 0 .. last'
        BY <1>1, <2>1 DEF Drop, TypeOK, stream
    <3> QED
        BY <1>1, <2>1, <3>1 DEF Drop, TypeOK, stream, dedup, settings, history, life
  <2>3. /\ pc' \notin Handling
        /\ lo' = 0 /\ todo' = {} /\ cand' = {} /\ found' = <<>> /\ out' = 0
        /\ proc' = "up" <=> pc' \notin {"off", "group"}
      BY <1>1, <2>1 DEF Drop, Handling, life, TaskShape
  <2>4. (\A c \in claimed' : c[2] <= last') /\ AckedIsPublished'
      BY <1>1 DEF InHand, AckedIsPublished, stream, history
  <2>5. \A k \in Keys : since'[k] + marks'[k] >= Ttl - MaxLag
      BY <1>1 DEF Spaced, dedup
  <2> QED  BY <2>2, <2>3, <2>4, <2>5, IdleStep
<1>6. CASE ~DividesByZero(spreads)
  <2>1. /\ todo' = todo \ {s} /\ cand' = spreads
        /\ pc' = After(todo \ {s}, spreads, found)
        /\ UNCHANGED <<lo, found, out, raised>>
      BY <1>2, <1>6 DEF spreads
  <2>2. /\ pc' \in {"claim", "depth", "publish", "ack"}
        /\ pc' \in {"publish", "ack"} => todo' = {} /\ cand' = {}
        /\ pc' = "publish" => found # <<>>
        /\ pc' = "ack" => found = <<>>
      BY <2>1 DEF After
  <2>3. TypeOK'
      BY <1>1, <1>3, <2>1, <2>2
         DEF TypeOK, stream, dedup, settings, history, life
  <2>4. out = 0 /\ found \in Seq(Keys)  BY <1>1 DEF TaskShape, TypeOK
  <2>5. (found # <<>> => out < Len(found)) /\ (found = <<>> => out = Len(found))
      BY <2>4
  <2>6. TaskShape'
    <3>1. UNCHANGED <<acked, lo, proc>>  BY <1>1, <2>1 DEF stream, life
    <3>2. pc' \in Handling /\ pc' \notin {"off", "group"} /\ pc \in Handling
        BY <1>1, <2>2 DEF Handling
    <3>3. lo' > 0 /\ (\A i \in acked' : i < lo') /\ proc' = "up"
        BY <1>1, <3>1, <3>2 DEF TaskShape
    <3>4. /\ pc' \in {"publish", "ack"} => todo' = {} /\ cand' = {}
          /\ pc' = "depth" => cand' = {}
          /\ out' = 0 /\ pc' # "store"
          /\ pc' = "publish" => out' < Len(found')
          /\ pc' = "ack" => out' = Len(found')
        BY <2>1, <2>2, <2>4, <2>5 DEF After
    <3> QED  BY <3>2, <3>3, <3>4 DEF TaskShape
  <2>7. Distinct'
      BY <1>1, <1>3, <2>1 DEF Distinct
  <2>8. InHand'
    <3>1. pc' = "ack" => DOMAIN found = {}  BY <2>2
    <3> QED
      BY <1>1, <2>1, <3>1 DEF InHand, Handling, stream, history
  <2>9. (AckedIsPublished /\ Spaced)'
      BY <1>1, <2>1 DEF AckedIsPublished, Spaced, Waiting, stream, dedup, history
  <2> QED  BY <2>3, <2>6, <2>7, <2>8, <2>9
<1> QED  BY <1>5, <1>6

(* What a claim leaves to do: the loop's shape after it.                   *)
LEMMA ClaimShape ==
    ASSUME SInv, NEW k \in Keys, Claim(k), found' \in Seq(Keys)
    PROVE  TaskShape'
<1> USE DEF SInv
<1>1. /\ pc = "claim" /\ out = 0 /\ cand' = cand \ {k}
      /\ pc' = After(todo, cand \ {k}, found')
      /\ UNCHANGED <<acked, lo, todo, out, proc>>
    BY DEF Claim, stream, life, TaskShape
<1>2. pc' \in Handling /\ pc' \notin {"off", "group"} /\ pc \in Handling
    BY <1>1 DEF Handling, After
<1>3. lo' > 0 /\ (\A i \in acked' : i < lo') /\ proc' = "up"
    BY <1>1, <1>2 DEF TaskShape
<1>4. (found' # <<>> => 0 < Len(found')) /\ (found' = <<>> => Len(found') = 0)
    OBVIOUS
<1>5. /\ pc' \in {"publish", "ack"} => todo' = {} /\ cand' = {}
      /\ pc' = "depth" => cand' = {}
      /\ out' = 0 /\ pc' # "store"
      /\ pc' = "publish" => out' < Len(found')
      /\ pc' = "ack" => out' = Len(found')
    BY <1>1, <1>4 DEF After
<1> QED  BY <1>2, <1>3, <1>5 DEF TaskShape

(* SET NX finds the key: the spread is left out.                           *)
LEMMA ClaimHeld == ASSUME SInv, NEW k \in Keys, Claim(k), ~IsNew(k) PROVE SInv'
<1> USE DEF SInv
<1>1. /\ pc = "claim" /\ out = 0 /\ cand' = cand \ {k}
      /\ UNCHANGED <<stream, dedup, book, settings, lo, todo, found, out, history,
                     life, bounds>>
      /\ pc' \in {"claim", "depth", "publish", "ack"}
      /\ pc' = "ack" => found = <<>>
    BY DEF Claim, dedup, history, TaskShape, After
<1>2. TypeOK'
    BY <1>1 DEF TypeOK, stream, dedup, settings, history, life, bounds
<1>3. found' \in Seq(Keys)  BY <1>1 DEF TypeOK
<1>4. TaskShape'  BY <1>3, ClaimShape
<1>5. Distinct'  BY <1>1 DEF Distinct
<1>6. InHand'
  <2>1. pc' = "ack" => DOMAIN found = {}  BY <1>1
  <2> QED  BY <1>1, <2>1 DEF InHand, Handling, stream, history
<1>7. (AckedIsPublished /\ Spaced)'
    BY <1>1 DEF AckedIsPublished, Spaced, Waiting, stream, dedup, history
<1> QED  BY <1>2, <1>4, <1>5, <1>6, <1>7

(* SET NX creates the key: its last publication is Ttl - MaxLag old, for   *)
(* nothing of its life is left.                                            *)
LEMMA ClaimNew == ASSUME SInv, NEW k \in Keys, Claim(k), IsNew(k) PROVE SInv'
<1> USE DEF SInv
<1> DEFINE n == Len(found)
<1>1. /\ pc = "claim" /\ k \in cand /\ cand' = cand \ {k}
      /\ pc' \in {"claim", "depth", "publish"}
      /\ UNCHANGED <<entries, trimmed, group, last, pel, acked>>
      /\ UNCHANGED <<since, book, minSpread, notional, lo, todo, out>>
      /\ UNCHANGED <<published, stored, proc, base, raised, faults, stops>>
  <2>1. found' = Append(found, k) /\ found \in Seq(Keys)
      BY DEF Claim, TypeOK
  <2>2. found' # <<>>  BY <2>1
  <2> QED  BY <2>2 DEF Claim, After, stream, settings, life, bounds
<1>2. /\ found \in Seq(Keys) /\ n \in Nat /\ out = 0 /\ DOMAIN found = 1 .. n
      /\ lo \in Nat /\ lo > 0 /\ last \in Nat /\ lo <= last /\ last \in Ids
    BY <1>1, ScannerAssumption DEF TypeOK, TaskShape, Handling, Ids
<1>3. /\ marks[k] = 0 /\ marks' = [marks EXCEPT ![k] = Ttl]
      /\ claimed' = claimed \cup {<<k, last>>}
      /\ found' = Append(found, k)
    BY DEF Claim, IsNew, Mark, Lifetime
<1>4. /\ found' \in Seq(Keys) /\ Len(found') = n + 1
      /\ DOMAIN found' = 1 .. n + 1 /\ found'[n + 1] = k
      /\ \A j \in 1 .. n : found'[j] = found[j]
    BY <1>2, <1>3, AppendFacts
<1>5. \A j \in DOMAIN found' : j \in DOMAIN found \/ j = n + 1
    BY <1>2, <1>4
<1> HIDE DEF n
<1>6. TypeOK'
  <2>1. marks' \in [Keys -> 0 .. Ttl]
      BY <1>3, ScannerAssumption DEF TypeOK
  <2>2. claimed' \subseteq Claims /\ claimed \subseteq claimed'
      BY <1>2, <1>3 DEF TypeOK, Claims
  <2>3. out' \in 0 .. Len(found')  BY <1>1, <1>2, <1>4
  <2> QED  BY <1>1, <1>4, <2>1, <2>2, <2>3 DEF TypeOK
<1>7. TaskShape'  BY <1>4, ClaimShape
<1>8. Distinct'
  <2>1. \A j \in DOMAIN found : found[j] # k /\ found'[j] = found[j]
      BY <1>1, <1>2, <1>4 DEF Distinct
  <2>2. k[1] \notin todo  BY <1>1 DEF Distinct
  <2>3. \A i, j \in DOMAIN found' : found'[i] = found'[j] => i = j
      BY <1>4, <1>5, <2>1 DEF Distinct
  <2>4. \A j \in DOMAIN found' : found'[j] \notin cand' /\ found'[j][1] \notin todo'
      BY <1>1, <1>4, <1>5, <2>1, <2>2 DEF Distinct
  <2> QED  BY <1>1, <2>3, <2>4 DEF Distinct
<1>9. InHand'
  <2>1. \A j \in DOMAIN found : found'[j] = found[j]  BY <1>2, <1>4
  <2>2. \A j \in DOMAIN found' : <<found'[j], last>> \in claimed' /\ ~(j <= out)
      BY <1>2, <1>3, <1>4, <1>5, <2>1 DEF InHand
  <2>3. \A c \in claimed' : c[2] <= last  BY <1>2, <1>3 DEF InHand
  <2>4. ASSUME NEW c \in claimed', c[2] >= lo
        PROVE  c[2] = last /\ \E j \in DOMAIN found' : found'[j] = c[1]
    <3>1. CASE c \in claimed
      <4>1. PICK j \in DOMAIN found : found[j] = c[1]
          BY <1>1, <2>4, <3>1 DEF InHand, Handling
      <4>2. j \in DOMAIN found'  BY <1>2, <1>4
      <4> QED  BY <1>1, <2>1, <2>4, <3>1, <4>1, <4>2 DEF InHand, Handling
    <3>2. CASE c = <<k, last>>
      <4>1. n + 1 \in DOMAIN found'  BY <1>2, <1>4
      <4> QED  BY <1>4, <3>2, <4>1
    <3> QED  BY <1>3, <3>1, <3>2
  <2> QED  BY <1>1, <2>2, <2>3, <2>4 DEF InHand
<1>10. AckedIsPublished'
  <2>1. last \notin acked
      BY <1>1, <1>2 DEF TaskShape, Handling, TypeOK
  <2> QED  BY <1>1, <1>3, <2>1 DEF AckedIsPublished
<1>11. Spaced'
  <2>1. \A q \in Keys : since[q] \in Nat /\ marks[q] \in Nat
      BY DEF TypeOK
  <2>2. marks'[k] = Ttl /\ \A q \in Keys \ {k} : marks'[q] = marks[q]
      BY <1>3 DEF TypeOK
  <2>3. since[k] + 0 >= Ttl - MaxLag  BY <1>3 DEF Spaced
  <2>4. \A q \in Keys : since'[q] + marks'[q] >= Ttl - MaxLag
      BY <1>1, <2>1, <2>2, ScannerAssumption DEF Spaced
  <2>5. Waiting' \subseteq Waiting \cup {k}
      BY <1>1, <1>2, <1>4, <1>5 DEF Waiting
  <2>6. Waiting \subseteq Keys /\ k \notin Waiting
      BY <1>1, <1>2 DEF Waiting, Distinct
  <2>7. \A q \in Waiting : since'[q] >= Ttl - MaxLag /\ Ttl - marks'[q] <= MaxLag
      BY <1>1, <2>2, <2>6 DEF Spaced
  <2>8. since'[k] >= Ttl - MaxLag /\ Ttl - marks'[k] <= MaxLag
      BY <1>1, <2>1, <2>2, <2>3, ScannerAssumption
  <2> QED  BY <2>4, <2>5, <2>7, <2>8 DEF Spaced
<1> QED  BY <1>6, <1>7, <1>8, <1>9, <1>10, <1>11

(* XADD of the next opportunity: it was claimed, and its key was set at    *)
(* most MaxLag ago.                                                        *)
LEMMA AnnouncedEffect ==
    ASSUME SInv, pc = "publish", Announced, UNCHANGED <<marks, claimed, stored, acked>>
    PROVE  /\ published \subseteq published' /\ published' \subseteq claimed
           /\ since' \in [Keys -> 0 .. Ttl]
           /\ out + 1 \in DOMAIN found /\ found[out + 1] \in Waiting
           /\ found[out + 1] \in Keys
           /\ published' = published \cup {<<found[out + 1], last>>}
           /\ since' = [since EXCEPT ![found[out + 1]] = 0]
           /\ AckedIsPublished'
           /\ \A q \in Keys : since'[q] + marks'[q] >= Ttl - MaxLag
<1> USE DEF SInv
<1> DEFINE k == found[out + 1]
<1>1. /\ published' = published \cup {<<k, last>>}
      /\ since' = [since EXCEPT ![k] = 0]
    BY DEF Announced
<1>2. out + 1 \in DOMAIN found /\ k \in Keys
    BY DEF TypeOK, TaskShape
<1>3. k \in Waiting
  <2>1. out + 1 > out  BY DEF TypeOK
  <2> QED  BY <1>2, <2>1 DEF Waiting
<1>4. <<k, last>> \in claimed  BY <1>2 DEF InHand
<1> HIDE DEF k
<1>5. published \subseteq published' /\ published' \subseteq claimed
    BY <1>1, <1>4 DEF TypeOK
<1>6. since' \in [Keys -> 0 .. Ttl]
  <2>1. 0 \in 0 .. Ttl  BY ScannerAssumption
  <2>2. since \in [Keys -> 0 .. Ttl]  BY DEF TypeOK
  <2> QED  BY <1>1, <1>2, <2>1, <2>2
<1>7. AckedIsPublished'
    BY <1>5 DEF AckedIsPublished
<1>8. \A q \in Keys : since'[q] + marks'[q] >= Ttl - MaxLag
  <2>1. \A q \in Keys : since[q] \in Nat /\ marks[q] \in Nat
      BY DEF TypeOK
  <2>2. since'[k] = 0 /\ \A q \in Keys \ {k} : since'[q] = since[q]
      BY <1>1, <1>2 DEF TypeOK
  <2>3. Ttl - marks[k] <= MaxLag  BY <1>3 DEF Spaced
  <2>4. since'[k] + marks'[k] >= Ttl - MaxLag
      BY <1>2, <2>1, <2>2, <2>3, ScannerAssumption
  <2> QED  BY <2>2, <2>4 DEF Spaced
<1> QED  BY <1>1, <1>2, <1>3, <1>5, <1>6, <1>7, <1>8 DEF k

(* XADD keeps the invariant: the key published stops waiting.              *)
LEMMA PublishStep == ASSUME SInv, Publish PROVE SInv'
<1> USE DEF SInv
<1> DEFINE k == found[out + 1]
<1>1. /\ pc = "publish" /\ out' = out + 1
      /\ pc' = IF out + 1 = Len(found) THEN "store" ELSE "publish"
      /\ Announced
      /\ UNCHANGED <<entries, trimmed, group, last, pel, acked>>
      /\ UNCHANGED <<marks, book, minSpread, notional, lo, todo, cand, found>>
      /\ UNCHANGED <<claimed, stored, proc, base, raised, faults, stops>>
    BY DEF Publish, AllOut, stream, settings, life, bounds
<1>2. /\ published \subseteq published' /\ published' \subseteq claimed
      /\ since' \in [Keys -> 0 .. Ttl]
      /\ out + 1 \in DOMAIN found /\ k \in Waiting /\ k \in Keys
      /\ published' = published \cup {<<k, last>>}
      /\ since' = [since EXCEPT ![k] = 0]
      /\ AckedIsPublished'
      /\ \A q \in Keys : since'[q] + marks'[q] >= Ttl - MaxLag
    BY <1>1, AnnouncedEffect
<1>3. /\ out \in Nat /\ Len(found) \in Nat /\ out < Len(found)
      /\ DOMAIN found = 1 .. Len(found) /\ found \in Seq(Keys)
    BY <1>1 DEF TypeOK, TaskShape
<1>4. pc' \in {"publish", "store"} /\ pc' \in Handling /\ pc \in Handling
    BY <1>1 DEF Handling
<1>5. TypeOK'
  <2>1. out' = out + 1 /\ found' = found  BY <1>1
  <2>2. out' \in 0 .. Len(found')  BY <1>3, <2>1
  <2> QED  BY <1>1, <1>2, <1>4, <2>2 DEF TypeOK
<1>6. TaskShape'
  <2>1. out' = out + 1 /\ found' = found /\ lo' = lo /\ acked' = acked
      BY <1>1
  <2>2. todo' = {} /\ cand' = {} /\ proc' = "up"
      BY <1>1 DEF TaskShape
  <2>3. lo' > 0 /\ \A i \in acked' : i < lo'
      BY <1>4, <2>1 DEF TaskShape
  <2>4. CASE out + 1 = Len(found)
    <3>1. pc' = "store"  BY <1>1, <2>4
    <3> QED  BY <2>1, <2>2, <2>3, <2>4, <3>1 DEF TaskShape, Handling
  <2>5. CASE out + 1 # Len(found)
    <3>1. pc' = "publish"  BY <1>1, <2>5
    <3>2. out + 1 < Len(found)
      <4> DEFINE n == Len(found)
      <4>1. out \in Nat /\ n \in Nat /\ out < n /\ out + 1 # n  BY <1>3, <2>5
      <4> HIDE DEF n
      <4>2. out + 1 < n  BY <4>1
      <4> QED  BY <4>2 DEF n
    <3> QED  BY <2>1, <2>2, <2>3, <3>1, <3>2 DEF TaskShape, Handling
  <2> QED  BY <2>4, <2>5
<1>7. Distinct'  BY <1>1 DEF Distinct
<1>8. InHand'
  <2>1. \A j \in DOMAIN found : j <= out + 1 => <<found[j], last>> \in published'
    <3>1. \A j \in DOMAIN found : j <= out + 1 => j <= out \/ j = out + 1
        BY <1>3
    <3> QED  BY <1>2, <3>1 DEF InHand
  <2> QED  BY <1>1, <1>4, <2>1 DEF InHand
<1>9. Spaced'
  <2>1. Waiting' \subseteq Waiting \ {k}
    <3>1. ASSUME NEW q \in Waiting' PROVE q \in Waiting /\ q # k
      <4>1. PICK j \in DOMAIN found : j > out + 1 /\ found[j] = q
          BY <1>1 DEF Waiting
      <4>2. j > out /\ j # out + 1  BY <1>3, <4>1
      <4> QED  BY <1>2, <4>1, <4>2 DEF Waiting, Distinct
    <3> QED  BY <3>1
  <2>2. Waiting \subseteq Keys  BY <1>3 DEF Waiting
  <2>3. \A q \in Keys \ {k} : since'[q] = since[q]  BY <1>2 DEF TypeOK
  <2> QED  BY <1>1, <1>2, <2>1, <2>2, <2>3 DEF Spaced
<1> QED  BY <1>2, <1>5, <1>6, <1>7, <1>8, <1>9

(* COPY: all it stores was published.                                      *)
LEMMA CopiedEffect ==
    ASSUME SInv, pc = "store", Copied, UNCHANGED <<claimed, published, acked>>
    PROVE  /\ stored \subseteq stored' /\ stored' \subseteq claimed
           /\ \A j \in DOMAIN found : <<found[j], last>> \in stored'
           /\ AckedIsPublished'
<1> USE DEF SInv
<1>1. stored' = stored \cup {<<found[j], last>> : j \in DOMAIN found}
    BY DEF Copied
<1>2. \A j \in DOMAIN found : /\ <<found[j], last>> \in claimed
                              /\ <<found[j], last>> \in published
  <2>1. \A j \in DOMAIN found : j <= out  BY DEF TaskShape, TypeOK
  <2> QED  BY <2>1 DEF InHand
<1>3. stored' \subseteq claimed /\ stored' \subseteq published
    BY <1>1, <1>2 DEF TypeOK, AckedIsPublished
<1> QED  BY <1>1, <1>3 DEF AckedIsPublished

(* COPY keeps the invariant.                                               *)
LEMMA StoreStep == ASSUME SInv, Store PROVE SInv'
<1> USE DEF SInv
<1>1. /\ pc = "store" /\ pc' = "ack" /\ Copied
      /\ UNCHANGED <<entries, trimmed, group, last, pel, acked>>
      /\ UNCHANGED <<marks, since, book, minSpread, notional>>
      /\ UNCHANGED <<lo, todo, cand, found, out>>
      /\ UNCHANGED <<claimed, published, proc, base, raised, faults, stops>>
    BY DEF Store, stream, dedup, settings, life, bounds
<1>2. /\ stored \subseteq stored' /\ stored' \subseteq claimed
      /\ \A j \in DOMAIN found : <<found[j], last>> \in stored'
      /\ AckedIsPublished'
    BY <1>1, CopiedEffect
<1>3. TypeOK'  BY <1>1, <1>2 DEF TypeOK
<1>4. TaskShape'  BY <1>1 DEF TaskShape, Handling
<1>5. Distinct'  BY <1>1 DEF Distinct
<1>6. InHand'  BY <1>1, <1>2 DEF InHand, Handling
<1>7. Spaced'  BY <1>1 DEF Spaced, Waiting
<1> QED  BY <1>2, <1>3, <1>4, <1>5, <1>6, <1>7

(* XACK: a claim whose entry is acknowledged is one of the batch.          *)
LEMMA AcknowledgedEffect ==
    ASSUME SInv, pc = "ack", Acknowledged, UNCHANGED <<claimed, published, stored>>
    PROVE  /\ acked' \subseteq 1 .. last /\ pel' \subseteq 1 .. last
           /\ AckedIsPublished'
<1> USE DEF SInv
<1>1. lo > 0 /\ lo \in Nat /\ last \in Nat
    BY DEF TaskShape, Handling, TypeOK
<1>2. acked' = acked \cup (lo .. last) /\ pel' = pel \ (lo .. last)
    BY DEF Acknowledged
<1>3. acked' \subseteq 1 .. last /\ pel' \subseteq 1 .. last
    BY <1>1, <1>2 DEF TypeOK
<1>4. ASSUME NEW c \in claimed, c[2] \in acked'
      PROVE  c \in published /\ c \in stored
  <2>1. CASE c[2] \in acked  BY <2>1 DEF AckedIsPublished
  <2>2. CASE c[2] \in lo .. last
    <3>1. c[2] >= lo  BY <1>1, <2>2
    <3>2. PICK j \in DOMAIN found : found[j] = c[1] /\ c[2] = last
        BY <3>1 DEF InHand, Handling
    <3>3. c = <<found[j], last>>  BY <3>2 DEF TypeOK, Claims
    <3>4. j <= out  BY DEF TaskShape, TypeOK
    <3> QED  BY <3>3, <3>4 DEF InHand
  <2> QED  BY <1>2, <1>4, <2>1, <2>2
<1> QED  BY <1>3, <1>4 DEF AckedIsPublished

(* XACK keeps the invariant and leaves the loop idle.                      *)
LEMMA AckStep == ASSUME SInv, Ack PROVE SInv'
<1> USE DEF SInv
<1>1. /\ pc = "ack" /\ pc' = "read" /\ Acknowledged
      /\ UNCHANGED <<entries, trimmed, group, last>>
      /\ UNCHANGED <<marks, since, book, minSpread, notional, todo, cand>>
      /\ UNCHANGED <<claimed, published, stored, proc, base, raised, faults, stops>>
      /\ lo' = 0 /\ found' = <<>> /\ out' = 0
    BY DEF Ack, Acknowledged, dedup, settings, history, life, bounds
<1>2. /\ acked' \subseteq 1 .. last /\ pel' \subseteq 1 .. last
      /\ AckedIsPublished'
    BY <1>1, AcknowledgedEffect
<1>3. todo' = {} /\ cand' = {} /\ proc' = "up"
    BY <1>1 DEF TaskShape
<1>4. TypeOK'
  <2>1. found' \in Seq(Keys) /\ out' \in 0 .. Len(found') /\ lo' \in 0 .. last'
      BY <1>1 DEF TypeOK
  <2> QED  BY <1>1, <1>2, <1>3, <2>1 DEF TypeOK
<1>5. \A c \in claimed' : c[2] <= last'  BY <1>1 DEF InHand
<1>6. \A q \in Keys : since'[q] + marks'[q] >= Ttl - MaxLag
    BY <1>1 DEF Spaced
<1>7. pc' \notin Handling /\ pc' \notin {"off", "group"}  BY <1>1 DEF Handling
<1> QED  BY <1>1, <1>2, <1>3, <1>4, <1>5, <1>6, <1>7, IdleStep

(* The loop raises at one of its awaits, whether Redis or the database     *)
(* carried the call out or not.                                            *)
LEMMA RaisesStep == ASSUME SInv, LoopRaises PROVE SInv'
<1> USE DEF SInv
<1>1. /\ pc' = "sleep" /\ lo' = 0 /\ todo' = {} /\ cand' = {} /\ found' = <<>>
      /\ out' = 0 /\ raised' = TRUE /\ faults' = faults + 1
      /\ UNCHANGED <<book, minSpread, notional, proc, base, stops>>
    BY DEF LoopRaises, Drop, settings, life
<1>2. /\ pc \in {"read", "depth", "claim", "publish", "store", "ack"}
      /\ faults < MaxFaults
    BY DEF LoopRaises
<1>3. /\ proc' = "up" /\ pc' \notin Handling /\ pc' \notin {"off", "group"}
      /\ faults' \in 0 .. MaxFaults
  <2>1. pc \notin {"off", "group"}  BY <1>2
  <2>2. faults' \in 0 .. MaxFaults  BY <1>1, <1>2, ScannerAssumption DEF TypeOK
  <2> QED  BY <1>1, <2>1, <2>2 DEF TaskShape, Handling
<1>4. found' \in Seq(Keys) /\ out' \in 0 .. Len(found')
    BY <1>1
<1> DEFINE Kept ==
        /\ UNCHANGED <<entries, trimmed, group>>
        /\ last' \in last .. Len(entries)
        /\ pel' \subseteq 1 .. last' /\ acked' \subseteq 1 .. last'
        /\ marks' \in [Keys -> 0 .. Ttl] /\ since' \in [Keys -> 0 .. Ttl]
        /\ claimed' = claimed /\ published' \subseteq claimed
        /\ stored' \subseteq claimed
        /\ AckedIsPublished'
        /\ \A k \in Keys : since'[k] + marks'[k] >= Ttl - MaxLag
<1>5. /\ last \in Nat /\ Len(entries) \in Nat /\ last <= Len(entries)
      /\ \A k \in Keys : since[k] + marks[k] >= Ttl - MaxLag
    BY DEF TypeOK, Spaced
<1>6. Kept
  <2>1. CASE UNCHANGED <<stream, dedup, history>>
    <3>1. /\ UNCHANGED <<entries, trimmed, group, last, pel, acked, marks, since>>
          /\ UNCHANGED <<claimed, published, stored>>
        BY <2>1 DEF stream, dedup, history
    <3>2. AckedIsPublished'  BY <3>1 DEF AckedIsPublished
    <3>3. last' \in last .. Len(entries)  BY <1>5, <3>1
    <3>4. \A k \in Keys : since'[k] + marks'[k] >= Ttl - MaxLag  BY <1>5, <3>1
    <3> QED  BY <3>1, <3>2, <3>3, <3>4 DEF TypeOK
  <2>2. CASE /\ pc = "read" /\ last < Len(entries)
             /\ Delivered /\ UNCHANGED <<dedup, history>>
    <3>1. /\ last' = Upto /\ pel' = pel \cup (FirstNew .. Upto)
          /\ UNCHANGED <<entries, trimmed, group, acked>>
          /\ UNCHANGED <<marks, since, claimed, published, stored>>
        BY <2>2 DEF Delivered, Reply, dedup, history
    <3>2. /\ Upto \in Nat /\ last <= Upto /\ Upto <= Len(entries)
          /\ FirstNew \in Nat /\ last < FirstNew
        BY <2>2, UptoFacts
    <3>3. /\ last' \in last .. Len(entries)
          /\ pel' \subseteq 1 .. last' /\ acked' \subseteq 1 .. last'
        BY <1>5, <3>1, <3>2 DEF TypeOK
    <3> QED  BY <1>5, <3>1, <3>3 DEF TypeOK, AckedIsPublished
  <2>3. CASE pc = "claim" /\ (\E k \in cand : IsNew(k) /\ Mark(k))
             /\ UNCHANGED <<stream, since, history>>
    <3>1. PICK k \in cand : marks' = [marks EXCEPT ![k] = Ttl]
        BY <2>3 DEF Mark, Lifetime
    <3>2. Ttl \in 0 .. Ttl /\ k \in Keys  BY ScannerAssumption DEF TypeOK
    <3>3. marks \in [Keys -> 0 .. Ttl] /\ since \in [Keys -> 0 .. Ttl]
        BY DEF TypeOK
    <3>4. marks' \in [Keys -> 0 .. Ttl]  BY <3>1, <3>2, <3>3
    <3>5. \A q \in Keys : marks'[q] >= marks[q]
      <4>1. marks'[k] = Ttl /\ \A q \in Keys \ {k} : marks'[q] = marks[q]
          BY <3>1, <3>2, <3>3
      <4> QED  BY <3>3, <4>1, ScannerAssumption
    <3>6. UNCHANGED <<entries, trimmed, group, last, pel, acked, since, claimed, published,
                      stored>>
        BY <2>3 DEF stream, history
    <3>7. \A q \in Keys : since'[q] + marks'[q] >= Ttl - MaxLag
        BY <1>5, <3>3, <3>4, <3>5, <3>6, ScannerAssumption
    <3> QED  BY <1>5, <3>4, <3>6, <3>7 DEF TypeOK, AckedIsPublished
  <2>4. CASE pc = "publish" /\ Announced /\ UNCHANGED <<stream, marks, claimed, stored>>
    <3>1. UNCHANGED <<entries, trimmed, group, last, pel, acked, marks, claimed, stored>>
        BY <2>4 DEF stream
    <3>2. /\ published' \subseteq claimed /\ since' \in [Keys -> 0 .. Ttl]
          /\ AckedIsPublished'
          /\ \A q \in Keys : since'[q] + marks'[q] >= Ttl - MaxLag
        BY <2>4, <3>1, AnnouncedEffect
    <3>3. /\ last' \in last .. Len(entries)
          /\ pel' \subseteq 1 .. last' /\ acked' \subseteq 1 .. last'
        BY <1>5, <3>1 DEF TypeOK
    <3>4. marks' \in [Keys -> 0 .. Ttl] /\ stored' \subseteq claimed
        BY <3>1 DEF TypeOK
    <3> QED  BY <3>1, <3>2, <3>3, <3>4
  <2>5. CASE pc = "store" /\ Copied /\ UNCHANGED <<stream, dedup, claimed, published>>
    <3>1. UNCHANGED <<entries, trimmed, group, last, pel, acked, marks, since, claimed,
                      published>>
        BY <2>5 DEF stream, dedup
    <3>2. stored' \subseteq claimed /\ AckedIsPublished'
        BY <2>5, <3>1, CopiedEffect
    <3> QED  BY <1>5, <3>1, <3>2 DEF TypeOK
  <2>6. CASE pc = "ack" /\ Acknowledged /\ UNCHANGED <<dedup, history>>
    <3>1. UNCHANGED <<entries, trimmed, group, last, marks, since, claimed, published, stored>>
        BY <2>6 DEF Acknowledged, dedup, history
    <3>2. /\ acked' \subseteq 1 .. last /\ pel' \subseteq 1 .. last
          /\ AckedIsPublished'
        BY <2>6, <3>1, AcknowledgedEffect
    <3> QED  BY <1>5, <3>1, <3>2 DEF TypeOK
  <2> HIDE DEF Kept
  <2> QED  BY <2>1, <2>2, <2>3, <2>4, <2>5, <2>6 DEF LoopRaises
<1>7. \A c \in claimed' : c[2] <= last'
  <2>1. \A c \in claimed : c[2] \in Nat /\ c[2] <= last
      BY DEF TypeOK, Claims, Ids, InHand
  <2> QED  BY <1>5, <1>6, <2>1
<1>8. TypeOK'
  <2>1. last' \in 0 .. Len(entries') /\ lo' \in 0 .. last' /\ base' \in 0 .. last'
      BY <1>1, <1>5, <1>6 DEF TypeOK
  <2> QED  BY <1>1, <1>3, <1>4, <1>6, <2>1 DEF TypeOK
<1> QED  BY <1>1, <1>3, <1>6, <1>7, <1>8, IdleStep

----------------------------------------------------------------------------
(* SInv is inductive.                                                      *)
LEMMA Inductive == Spec => []SInv
<1>1. Init => SInv  BY SInit
<1>2. SInv /\ [Next]_vars => SInv'
  <2> SUFFICES ASSUME SInv, [Next]_vars PROVE SInv'  OBVIOUS
  <2>1. CASE Quote  BY <2>1, QuoteStep
  <2>2. CASE Tick  BY <2>2, TickStep
  <2>3. CASE Refresh \/ UNCHANGED vars  BY <2>3, RefreshStep
  <2>4. CASE LifeStep \/ Wake \/ End  BY <2>4, LifeSteps
  <2>5. CASE Read \/ ReadNothing  BY <2>5, ReadStep
  <2>6. CASE \E s \in Symbols : Calculate(s)  BY <2>6, CalculateStep
  <2>7. CASE \E k \in Keys : Claim(k)  BY <2>7, ClaimHeld, ClaimNew
  <2>8. CASE Publish  BY <2>8, PublishStep
  <2>9. CASE Store  BY <2>9, StoreStep
  <2>10. CASE Ack  BY <2>10, AckStep
  <2>11. CASE LoopRaises  BY <2>11, RaisesStep
  <2> QED  BY <2>1, <2>2, <2>3, <2>4, <2>5, <2>6, <2>7, <2>8, <2>9, <2>10, <2>11
           DEF Next, LoopStep
<1> QED  BY <1>1, <1>2, PTL DEF Spec

(* The variables keep their types: every quote of the book is one of the   *)
(* stream's, a published or stored spread was claimed (main.py:112-163).   *)
THEOREM TypeCorrect == Spec => []TypeOK
<1>1. SInv => TypeOK  BY DEF SInv
<1> QED  BY <1>1, Inductive, PTL

(* An acknowledged batch has published and stored every spread it claimed, *)
(* whatever fails and whenever the service ends (main.py:151-161).         *)
THEOREM AckedIsPublishedCorrect == Spec => []AckedIsPublished
<1>1. SInv => AckedIsPublished  BY DEF SInv
<1> QED  BY <1>1, Inductive, PTL

(* Two publications of one spread are Ttl - MaxLag apart, across faults    *)
(* and restarts (dedup.py:18-22, main.py:107).                             *)
THEOREM PublicationsApartCorrect == Spec => PublicationsApart
<1>1. SInv /\ [Next]_vars =>
          [\A k \in Keys : Publishes(k) => since[k] >= Ttl - MaxLag]_vars
  <2> SUFFICES ASSUME SInv, [Next]_vars, NEW k \in Keys, Publishes(k)
               PROVE  since[k] >= Ttl - MaxLag
      OBVIOUS
  <2>1. ~UNCHANGED published  BY DEF Publishes
  <2>2. pc = "publish" /\ Announced /\ UNCHANGED <<marks, claimed, stored, acked>>
      BY <2>1 DEF Next, LoopStep, LifeStep, Quote, Tick, Refresh, Boot,
           EnsureGroup, Read, ReadNothing, Calculate, Claim, Publish, Store,
           Ack, LoopRaises, Wake, End, stream, history, vars
  <2>3. /\ found[out + 1] \in Waiting
        /\ published' = published \cup {<<found[out + 1], last>>}
      BY <2>2, AnnouncedEffect
  <2>4. found[out + 1] = k  BY <2>3 DEF Publishes
  <2> QED  BY <2>3, <2>4 DEF SInv, Spaced
<1> QED  BY <1>1, Inductive, PTL DEF Spec, PublicationsApart

----------------------------------------------------------------------------
(* A step that leaves the keys and what waits alone, or ends the premise.  *)
LEMMA SuppressedKept ==
    ASSUME SuppressedWasPublished,
           \/ UNCHANGED dedup /\ Waiting' = Waiting /\ UNCHANGED <<raised, stops>>
           \/ raised' = TRUE
           \/ stops' = stops + 1 /\ stops \in Nat
    PROVE  SuppressedWasPublished'
<1>1. CASE UNCHANGED dedup /\ Waiting' = Waiting /\ UNCHANGED <<raised, stops>>
    BY <1>1 DEF SuppressedWasPublished, dedup
<1>2. CASE raised' = TRUE  BY <1>2 DEF SuppressedWasPublished
<1>3. CASE stops' = stops + 1 /\ stops \in Nat
  <2>1. stops' # 0  BY <1>3
  <2> QED  BY <2>1 DEF SuppressedWasPublished
<1> QED  BY <1>1, <1>2, <1>3

(* Without a failing iteration and without a restart, a spread the dedup   *)
(* key holds back was published or waits to be (dedup.py:18-22).           *)
THEOREM SuppressedWasPublishedCorrect == Spec => []SuppressedWasPublished
<1>1. Init => SuppressedWasPublished
    BY DEF Init, SuppressedWasPublished
<1>2. SInv /\ SuppressedWasPublished /\ [Next]_vars => SuppressedWasPublished'
  <2> SUFFICES ASSUME SInv, SuppressedWasPublished, [Next]_vars
               PROVE  SuppressedWasPublished'
      OBVIOUS
  <2>0. \A k \in Keys : marks[k] \in 0 .. Ttl /\ since[k] \in 0 .. Ttl
      BY DEF SInv, TypeOK
  <2>1. CASE Tick
    <3>1. UNCHANGED <<raised, stops>> /\ Waiting' = Waiting
        BY <2>1 DEF Tick, bounds, task, Waiting
    <3>2. \A k \in Keys : /\ marks'[k] = IF marks[k] > 0 THEN marks[k] - 1 ELSE 0
                          /\ since'[k] = IF since[k] < Ttl THEN since[k] + 1 ELSE Ttl
        BY <2>1 DEF Tick
    <3>3. \A k \in Keys : marks'[k] > 0 =>
             marks[k] > 0 /\ marks'[k] = marks[k] - 1 /\ since'[k] <= since[k] + 1
        BY <2>0, <3>2, ScannerAssumption
    <3>4. ASSUME NEW k \in Keys, since[k] <= Ttl - marks[k], marks'[k] > 0
          PROVE  since'[k] <= Ttl - marks'[k]
      <4>1. since'[k] \in Int  BY <2>0, <3>2, ScannerAssumption
      <4> QED  BY <2>0, <3>3, <3>4, <4>1, ScannerAssumption
    <3> QED  BY <3>1, <3>3, <3>4 DEF SuppressedWasPublished
  <2>2. CASE \E q \in Keys : Claim(q)
    <3>1. PICK q \in Keys : Claim(q)  BY <2>2
    <3>2. CASE IsNew(q)
      <4>1. /\ marks' = [marks EXCEPT ![q] = Ttl] /\ found' = Append(found, q)
            /\ found \in Seq(Keys) /\ marks \in [Keys -> 0 .. Ttl]
            /\ UNCHANGED <<since, out, raised, stops>>
          BY <3>1, <3>2 DEF Claim, Mark, Lifetime, bounds, SInv, TypeOK
      <4>2. out = 0  BY <3>1 DEF SInv, TaskShape, Claim
      <4>3. q \in Waiting'
        <5> DEFINE n == Len(found) + 1
        <5>1. n \in DOMAIN found' /\ found'[n] = q /\ n > out'
            BY <4>1, <4>2, AppendFacts
        <5> QED  BY <5>1 DEF Waiting
      <4>4. Waiting \subseteq Waiting'
        <5>1. \A j \in DOMAIN found : j \in DOMAIN found' /\ found'[j] = found[j]
            BY <4>1, AppendFacts
        <5> QED  BY <4>1, <5>1 DEF Waiting
      <4>5. \A k \in Keys \ {q} : marks'[k] = marks[k]  BY <4>1
      <4> QED  BY <4>1, <4>3, <4>4, <4>5 DEF SuppressedWasPublished
    <3>3. CASE ~IsNew(q)
      <4>1. UNCHANGED dedup /\ Waiting' = Waiting /\ UNCHANGED <<raised, stops>>
          BY <3>1, <3>3 DEF Claim, dedup, Waiting, bounds
      <4> QED  BY <4>1, SuppressedKept
    <3> QED  BY <3>2, <3>3
  <2>3. CASE Publish
    <3> DEFINE q == found[out + 1]
    <3>1. /\ since' = [since EXCEPT ![q] = 0] /\ out' = out + 1
          /\ UNCHANGED <<marks, found, raised, stops>>
        BY <2>3 DEF Publish, Announced, bounds
    <3>2. q \in Keys
        BY <2>3 DEF SInv, TypeOK, TaskShape, Publish
    <3>3. out \in Nat /\ DOMAIN found \subseteq Nat
        BY DEF SInv, TypeOK
    <3>4. Waiting \subseteq Waiting' \cup {q}
      <4>1. ASSUME NEW j \in DOMAIN found, j > out
            PROVE  j > out + 1 \/ j = out + 1
          BY <3>3, <4>1
      <4> QED  BY <3>1, <4>1 DEF Waiting
    <3>5. since'[q] = 0 /\ \A k \in Keys \ {q} : since'[k] = since[k]
        BY <3>1, <3>2 DEF SInv, TypeOK
    <3>6. 0 <= Ttl - marks[q]  BY <2>0, <3>2, ScannerAssumption
    <3> QED  BY <3>1, <3>4, <3>5, <3>6 DEF SuppressedWasPublished
  <2>4. CASE Ack
    <3>1. UNCHANGED dedup /\ UNCHANGED <<raised, stops>> /\ found' = <<>>
        BY <2>4 DEF Ack, bounds
    <3>2. out = Len(found) /\ found \in Seq(Keys)
        BY <2>4 DEF Ack, SInv, TaskShape, TypeOK
    <3>3. Waiting' = {} /\ Waiting = {}
        BY <3>1, <3>2 DEF Waiting
    <3> QED  BY <3>1, <3>3, SuppressedKept
  <2>5. CASE \E s \in Symbols : Calculate(s)
    <3>1. UNCHANGED dedup /\ UNCHANGED stops
          /\ (raised' = TRUE \/ UNCHANGED <<found, out, raised>>)
        BY <2>5 DEF Calculate, Drop
    <3> QED  BY <3>1, SuppressedKept DEF Waiting
  <2>6. CASE LoopRaises  BY <2>6, SuppressedKept DEF LoopRaises, Drop
  <2>7. CASE End
    <3>1. stops' = stops + 1 /\ stops \in Nat  BY <2>7 DEF End, SInv, TypeOK
    <3> QED  BY <3>1, SuppressedKept
  <2>8. CASE Quote \/ Refresh \/ LifeStep \/ Read \/ ReadNothing \/ Store \/ Wake
             \/ UNCHANGED vars
    <3>1. UNCHANGED dedup /\ UNCHANGED <<found, out, raised, stops>>
        BY <2>8 DEF Quote, Refresh, LifeStep, Boot, EnsureGroup, Read, ReadNothing,
             Store, Wake, task, bounds, vars
    <3> QED  BY <3>1, SuppressedKept DEF Waiting
  <2> QED  BY <2>1, <2>2, <2>3, <2>4, <2>5, <2>6, <2>7, <2>8 DEF Next, LoopStep
<1> QED  BY <1>1, <1>2, Inductive, PTL DEF Spec

----------------------------------------------------------------------------
(* The newest of two sets of entries, one past the other, is the newest of *)
(* the later one, or else of the earlier.                                  *)
LEMMA NewestJoins ==
    ASSUME NEW b \in Nat, NEW c \in Nat, b <= c,
           NEW I \in SUBSET (0 .. b), NEW J \in SUBSET (b + 1 .. c),
           NEW s, NEW e, NEW old
    PROVE  Newest(s, e, J, Newest(s, e, I, old)) = Newest(s, e, I \cup J, old)
<1> DEFINE I1 == QuotesOf(s, e, I)
           I2 == QuotesOf(s, e, J)
           K  == QuotesOf(s, e, I \cup J)
<1>1. K = I1 \cup I2  BY DEF QuotesOf
<1>2. CASE I2 = {}
  <2>1. K = I1  BY <1>1, <1>2
  <2>2. Newest(s, e, I \cup J, old) = Newest(s, e, I, old)
    <3>1. Newest(s, e, I \cup J, old)
              = IF K = {} THEN old
                ELSE entries[CHOOSE i \in K : \A j \in K : j <= i].quote
        BY DEF Newest
    <3>2. Newest(s, e, I, old)
              = IF I1 = {} THEN old
                ELSE entries[CHOOSE i \in I1 : \A j \in I1 : j <= i].quote
        BY DEF Newest
    <3> HIDE DEF I1, I2, K
    <3> QED  BY <2>1, <3>1, <3>2
  <2>3. Newest(s, e, J, Newest(s, e, I, old)) = Newest(s, e, I, old)
      BY <1>2, Zenon DEF Newest
  <2> QED  BY <2>2, <2>3
<1>3. CASE I2 # {}
  <2>a. I1 \subseteq I /\ I2 \subseteq J  BY DEF QuotesOf
  <2>b. 0 .. b \subseteq 0 .. c /\ b + 1 .. c \subseteq 0 .. c  OBVIOUS
  <2>0. /\ I2 \subseteq b + 1 .. c /\ I1 \subseteq 0 .. b
        /\ 0 .. b \subseteq 0 .. c /\ b + 1 .. c \subseteq 0 .. c
    <3> HIDE DEF I1, I2
    <3> QED  BY <2>a, <2>b
  <2>1. I2 \subseteq b + 1 .. c /\ K \subseteq 0 .. c /\ I1 \subseteq 0 .. b
      BY <1>1, <2>0
  <2>2. K # {} /\ I2 \subseteq 0 .. c
      BY <1>1, <1>3, <2>1
  <2> DEFINE m  == CHOOSE i \in K : \A j \in K : j <= i
             m2 == CHOOSE i \in I2 : \A j \in I2 : j <= i
  <2> HIDE DEF I1, I2, K
  <2>3. m \in K /\ \A j \in K : j <= m
    <3>1. \E i \in K : \A j \in K : j <= i  BY <2>1, <2>2, MaxExists
    <3> QED  BY <3>1
  <2>4. m2 \in I2 /\ \A j \in I2 : j <= m2
    <3>1. \E i \in I2 : \A j \in I2 : j <= i  BY <1>3, <2>2, MaxExists
    <3> QED  BY <3>1
  <2> HIDE DEF m, m2
  <2>5. m2 <= m /\ m \in Int /\ m2 \in b + 1 .. c
      BY <1>1, <2>1, <2>3, <2>4
  <2>6. m \notin I1  BY <2>1, <2>5
  <2>7. m \in I2  BY <1>1, <2>3, <2>6
  <2>8. m = m2  BY <2>4, <2>5, <2>7
  <2>9. Newest(s, e, I \cup J, old) = entries[m].quote
      BY <2>2, Zenon DEF Newest, m, K
  <2>10. Newest(s, e, J, Newest(s, e, I, old)) = entries[m2].quote
      BY <1>3, Zenon DEF Newest, m2, I2
  <2> QED  BY <2>8, <2>9, <2>10
<1> QED  BY <1>2, <1>3

(* The batch in hand is on the pending list.                               *)
BatchPending == pc \in Handling => lo .. last \subseteq pel

LEMMA BatchIsPending == Spec => []BatchPending
<1>1. Init => BatchPending  BY DEF Init, BatchPending, Handling
<1>2. SInv /\ BatchPending /\ [Next]_vars => BatchPending'
  <2> SUFFICES ASSUME SInv, BatchPending, [Next]_vars PROVE BatchPending'
      OBVIOUS
  <2>1. CASE Read
    <3>1. lo' = FirstNew /\ last' = Upto /\ pel' = pel \cup Reply
        BY <2>1 DEF Read, Delivered
    <3> QED  BY <3>1 DEF BatchPending, Reply
  <2>2. CASE LifeStep \/ Wake \/ Ack \/ LoopRaises \/ End
    <3>1. pc' \notin Handling
        BY <2>2 DEF LifeStep, Boot, EnsureGroup, Wake, Ack, LoopRaises, Drop,
             End, Handling
    <3> QED  BY <3>1 DEF BatchPending
  <2>3. CASE Quote \/ Tick \/ Refresh \/ ReadNothing \/ Publish \/ Store
             \/ (\E s \in Symbols : Calculate(s)) \/ (\E k \in Keys : Claim(k))
             \/ UNCHANGED vars
    <3>1. pc' \in Handling => pc \in Handling /\ UNCHANGED <<lo, last, pel>>
        BY <2>3 DEF Quote, Tick, Refresh, ReadNothing, Publish, Store,
             Calculate, Drop, Claim, stream, task, vars, Handling
    <3> QED  BY <3>1 DEF BatchPending
  <2> QED  BY <2>1, <2>2, <2>3 DEF Next, LoopStep
<1> QED  BY <1>1, <1>2, Inductive, PTL DEF Spec

(* Between a start and the first failing iteration the price book is the   *)
(* newest quote per symbol and exchange of all the group delivered since   *)
(* the start (main.py:119-133); a book that is not up is empty.            *)
Booked == BookIsLatest /\ (proc # "up" => book = NoBook)

THEOREM BookIsLatestCorrect == Spec => []BookIsLatest
<1>1. Init => Booked  BY DEF Init, Booked, BookIsLatest
<1>2. SInv /\ BatchPending /\ Booked /\ [Next]_vars => Booked'
  <2> SUFFICES ASSUME SInv, BatchPending, Booked, [Next]_vars PROVE Booked'
      OBVIOUS
  <2>0. /\ TypeOK /\ base \in Nat /\ last \in Nat /\ base <= last
        /\ last \in 0 .. Len(entries) /\ pel \cup acked \subseteq 1 .. last
        /\ SinceStart \subseteq 0 .. last
      BY DEF SInv, TypeOK, SinceStart
  <2>1. CASE Quote
    <3>1. UNCHANGED <<SinceStart, proc, book, raised>>
        BY <2>1 DEF Quote, life, bounds, SinceStart
    <3>2. \A s \in Symbols, e \in Exchanges :
             Newest(s, e, SinceStart, NoQuote)'
                 = Newest(s, e, SinceStart, NoQuote)
      <4> SUFFICES ASSUME NEW s \in Symbols, NEW e \in Exchanges
                   PROVE  Newest(s, e, SinceStart, NoQuote)'
                              = Newest(s, e, SinceStart, NoQuote)
          OBVIOUS
      <4> DEFINE I == QuotesOf(s, e, SinceStart)
      <4>1. PICK t \in Prices \cup {Malformed} : entries' = Append(entries, t)
          BY <2>1 DEF Quote
      <4>2. \A i \in 1 .. Len(entries) : /\ i \in DOMAIN entries
                                         /\ i \in DOMAIN entries'
                                         /\ entries'[i] = entries[i]
          BY <2>0, <4>1, AppendFacts DEF TypeOK
      <4>3. \A i \in SinceStart : i \in 1 .. Len(entries)
          BY <2>0 DEF SinceStart
      <4>4. I' = I /\ I \subseteq 1 .. Len(entries) /\ I \subseteq 0 .. last
          BY <2>0, <3>1, <4>2, <4>3 DEF QuotesOf
      <4>5. Newest(s, e, SinceStart, NoQuote)
                = IF I = {} THEN NoQuote
                  ELSE entries[CHOOSE i \in I : \A j \in I : j <= i].quote
          BY DEF Newest
      <4>6. Newest(s, e, SinceStart, NoQuote)'
                = IF I' = {} THEN NoQuote
                  ELSE entries'[CHOOSE i \in I' : \A j \in I' : j <= i].quote
          BY DEF Newest
      <4> HIDE DEF I
      <4>7. CASE I = {}  BY <4>4, <4>5, <4>6, <4>7
      <4>8. CASE I # {}
        <5> DEFINE m == CHOOSE i \in I : \A j \in I : j <= i
        <5>1. \E i \in I : \A j \in I : j <= i
            BY <2>0, <4>4, <4>8, MaxExists
        <5>2. m \in I  BY <5>1
        <5>3. m = (CHOOSE i \in I' : \A j \in I' : j <= i)  BY <4>4
        <5> HIDE DEF m
        <5>4. entries'[m] = entries[m]  BY <4>2, <4>4, <5>2
        <5>5. Newest(s, e, SinceStart, NoQuote) = entries[m].quote
            BY <4>5, <4>8 DEF m
        <5>6. Newest(s, e, SinceStart, NoQuote)' = entries'[m].quote
            BY <4>4, <4>6, <4>8, <5>3
        <5> QED  BY <5>4, <5>5, <5>6
      <4> QED  BY <4>7, <4>8
    <3> QED  BY <3>1, <3>2 DEF Booked, BookIsLatest
  <2>2. CASE Read
    <3>1. /\ UNCHANGED <<entries, base, proc, raised>> /\ last' = Upto
          /\ book' = [s \in Symbols |-> [e \in Exchanges |-> Applied(s, e)]]
        BY <2>2 DEF Read, Delivered, life, bounds
    <3>2. /\ Upto \in Nat /\ FirstNew \in Nat /\ last < FirstNew
          /\ FirstNew <= Upto /\ Reply = FirstNew .. Upto /\ proc = "up"
        BY <2>0, <2>2, UptoFacts DEF Read, SInv, TaskShape
    <3>3. SinceStart' = SinceStart \cup Reply /\ Reply \subseteq last + 1 .. Upto
      <4>1. pel' = pel \cup Reply /\ acked' = acked
          BY <2>2 DEF Read, Delivered
      <4> QED  BY <2>0, <3>1, <3>2, <4>1 DEF SinceStart
    <3>4. ASSUME ~raised, NEW s \in Symbols, NEW e \in Exchanges
          PROVE  Applied(s, e) = Newest(s, e, SinceStart \cup Reply, NoQuote)
      <4>1. book[s][e] = Newest(s, e, SinceStart, NoQuote)
          BY <3>2, <3>4 DEF Booked, BookIsLatest
      <4>2. Newest(s, e, Reply, Newest(s, e, SinceStart, NoQuote))
                = Newest(s, e, SinceStart \cup Reply, NoQuote)
        <5>1. last <= Upto  BY <2>0, <3>2
        <5>2. last \in Nat /\ Upto \in Nat /\ SinceStart \subseteq 0 .. last
              /\ Reply \subseteq last + 1 .. Upto
            BY <2>0, <3>2, <3>3
        <5> DEFINE I == SinceStart
                   J == Reply
        <5>3. /\ last <= Upto /\ last \in Nat /\ Upto \in Nat
              /\ I \in SUBSET (0 .. last) /\ J \in SUBSET (last + 1 .. Upto)
            BY <5>1, <5>2
        <5> HIDE DEF I, J
        <5>4. Newest(s, e, J, Newest(s, e, I, NoQuote))
                  = Newest(s, e, I \cup J, NoQuote)
            BY <5>3, NewestJoins
        <5> QED  BY <5>4 DEF I, J
      <4> QED  BY <4>1, <4>2 DEF Applied
    <3>5. ASSUME NEW s, NEW e
          PROVE  Newest(s, e, SinceStart, NoQuote)'
                     = Newest(s, e, SinceStart \cup Reply, NoQuote)
      <4> DEFINE I == QuotesOf(s, e, SinceStart \cup Reply)
      <4>1. QuotesOf(s, e, SinceStart)' = I  BY <3>1, <3>3 DEF QuotesOf
      <4>2. Newest(s, e, SinceStart \cup Reply, NoQuote)
                = IF I = {} THEN NoQuote
                  ELSE entries[CHOOSE i \in I : \A j \in I : j <= i].quote
          BY DEF Newest
      <4>3. Newest(s, e, SinceStart, NoQuote)'
                = IF QuotesOf(s, e, SinceStart)' = {} THEN NoQuote
                  ELSE entries'[CHOOSE i \in QuotesOf(s, e, SinceStart)' :
                           \A j \in QuotesOf(s, e, SinceStart)' : j <= i].quote
          BY DEF Newest
      <4> HIDE DEF I
      <4> QED  BY <3>1, <4>1, <4>2, <4>3
    <3> QED  BY <3>1, <3>2, <3>4, <3>5 DEF Booked, BookIsLatest
  <2>3. CASE EnsureGroup
    <3>1. base' = last' /\ UNCHANGED <<book, raised>> /\ proc # "up" /\ last' \in Nat
        BY <2>0, <2>3 DEF EnsureGroup, Cursor, bounds, SInv, TaskShape
    <3>2. book' = NoBook  BY <3>1 DEF Booked
    <3>3. \A s, e : QuotesOf(s, e, SinceStart)' = {}
        BY <3>1 DEF QuotesOf, SinceStart
    <3>4. \A s, e : Newest(s, e, SinceStart, NoQuote)' = NoQuote
        BY <3>3 DEF Newest
    <3> QED  BY <2>3, <3>2, <3>4 DEF Booked, BookIsLatest, NoBook, EnsureGroup
  <2>4. CASE End \/ LoopRaises \/ \E s \in Symbols : Calculate(s) /\ raised' = TRUE
    <3>1. CASE End
        BY <3>1 DEF End, Booked, BookIsLatest
    <3>2. CASE raised' = TRUE /\ UNCHANGED <<book, proc>>
        BY <3>2 DEF Booked, BookIsLatest
    <3> QED  BY <2>4, <3>1, <3>2 DEF LoopRaises, Drop, Calculate, life
  <2>5. CASE Boot
    <3>1. proc # "up" /\ proc' # "up" /\ UNCHANGED book  BY <2>5 DEF Boot
    <3> QED  BY <3>1 DEF Booked, BookIsLatest
  <2>6. CASE UNCHANGED <<entries, SinceStart, proc, book, raised>>
    <3>1. entries' = entries /\ SinceStart' = SinceStart  BY <2>6
    <3>2. ASSUME NEW s, NEW e
          PROVE  Newest(s, e, SinceStart, NoQuote)'
                     = Newest(s, e, SinceStart, NoQuote)
      <4> DEFINE I == QuotesOf(s, e, SinceStart)
      <4>1. I' = I  BY <3>1 DEF QuotesOf
      <4>2. Newest(s, e, SinceStart, NoQuote)
                = IF I = {} THEN NoQuote
                  ELSE entries[CHOOSE i \in I : \A j \in I : j <= i].quote
          BY DEF Newest
      <4>3. Newest(s, e, SinceStart, NoQuote)'
                = IF I' = {} THEN NoQuote
                  ELSE entries'[CHOOSE i \in I' : \A j \in I' : j <= i].quote
          BY DEF Newest
      <4> HIDE DEF I
      <4> QED  BY <3>1, <4>1, <4>2, <4>3
    <3> QED  BY <2>6, <3>2 DEF Booked, BookIsLatest
  <2>7. CASE Tick \/ Refresh \/ ReadNothing \/ Publish \/ Store \/ Wake
             \/ UNCHANGED vars
      BY <2>6, <2>7 DEF Tick, Refresh, ReadNothing, Publish, Store, Wake,
         stream, life, bounds, vars, SinceStart
  <2>8. CASE Ack
    <3>1. lo .. last \subseteq pel  BY <2>8 DEF Ack, BatchPending, Handling
    <3>2. SinceStart' = SinceStart
        BY <2>8, <3>1 DEF Ack, Acknowledged, life, SinceStart
    <3> QED  BY <2>6, <2>8, <3>2 DEF Ack, Acknowledged, life, bounds
  <2>9. CASE \E k \in Keys : Claim(k)
      BY <2>6, <2>9 DEF Claim, stream, life, bounds, SinceStart
  <2>10. CASE \E s \in Symbols : Calculate(s) /\ raised' # TRUE
      BY <2>6, <2>10 DEF Calculate, Drop, stream, life, SinceStart
  <2> QED  BY <2>1, <2>2, <2>3, <2>4, <2>5, <2>7, <2>8, <2>9, <2>10
           DEF Next, LoopStep, LifeStep
<1>3. Booked => BookIsLatest  BY DEF Booked
<1> QED  BY <1>1, <1>2, <1>3, Inductive, BatchIsPending, PTL DEF Spec
=============================================================================
