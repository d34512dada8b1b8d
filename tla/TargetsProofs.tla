--------------------------- MODULE TargetsProofs ----------------------------
(***************************************************************************)
(* Proofs about Targets, for every set of exchanges, symbols and markets,  *)
(* and any number of PATCHes, failures and restarts.  The invariant says,  *)
(* for an exchange not yet validated, being validated and validated, which *)
(* of its pairs the table holds (Checked, Exact): the three properties of  *)
(* what the collectors subscribe to are read off when the tables are       *)
(* loaded.                                                                 *)
(***************************************************************************)
EXTENDS Targets, TLAPS

Validating == {"markets", "upsert", "pairs", "deactivate"}
Loading == {"loadExchanges", "loadPairs"}

\* The locals of _sync_pairs and _load_targets at each await; what was read of
\* exchange_configs differs from the table by the exchanges patched since.
Shape ==
    /\ pc \notin Validating => todo = {}
    /\ cur \notin todo
    /\ pc # "deactivate" => unknown = {}
    /\ pc = "deactivate" => unknown = Mine(tracked) \ Listed
    /\ pc = "loadPairs" => /\ exRows \subseteq active \cup patched
                           /\ active \subseteq exRows \cup patched

\* An active pair without a market is of an exchange that is still to be
\* validated, whose validation failed, or that was patched.
Checked ==
    pc \in Validating \cup Loading =>
        \A p \in tracked \ Listed :
            \/ p[1] \in todo \cup {cur} \cup failed \cup patched
            \/ p[1] \notin active

\* A start without a failure and without a PATCH.
Quiet == failed = {} /\ patched = {}

\* The pairs that an undisturbed start has in the table.
Expected(p) ==
    IF p[1] \in active /\ p[1] \notin todo \cup {cur}
    THEN p \in Listed /\ (p \in before \/ p[2] \in Desired)
    ELSE \/ p \in before
         \/ /\ p[1] = cur /\ pc \in {"pairs", "deactivate"}
            /\ p \in Listed /\ p[2] \in Desired

Exact ==
    Quiet =>
        /\ pc = "exchanges" => tracked = before
        /\ pc \in Validating \cup Loading =>
             /\ todo \subseteq active
             /\ cur \in active \cup {NoExchange}
             /\ \A p \in Pairs : p \in tracked <=> Expected(p)
        /\ QuietStartIsExact

TInv == /\ TypeOK /\ Shape /\ Checked /\ Exact
        /\ DisabledIsLeftAlone /\ UnlistedIsExplained

-----------------------------------------------------------------------------
\* A pair belongs to an exchange.
LEMMA PairFacts ==
  \A p \in Pairs : p[1] \in Exchanges /\ p[2] \in Symbols /\ p[1] # NoExchange
BY TargetsAssumption DEF Pairs

\* While nothing is collected the three properties hold.
LEMMA NoTargets ==
  ASSUME targets' = {}, pc' # "up"
  PROVE  (DisabledIsLeftAlone /\ UnlistedIsExplained /\ QuietStartIsExact)'
BY DEF DisabledIsLeftAlone, UnlistedIsExplained, QuietStartIsExact

LEMMA InitT == Init => TInv
<1> SUFFICES ASSUME Init PROVE TInv
  OBVIOUS
<1>1. TypeOK
  BY TargetsAssumption DEF Init, TypeOK
<1>2. Shape /\ Checked
  BY TargetsAssumption DEF Init, Shape, Checked, Validating, Loading
<1>3. Exact /\ DisabledIsLeftAlone /\ UnlistedIsExplained
  BY DEF Init, Exact, QuietStartIsExact, DisabledIsLeftAlone, UnlistedIsExplained,
     Validating, Loading
<1> QED BY <1>1, <1>2, <1>3 DEF TInv

\* A PATCH only adds to what is excused.
LEMMA PatchKeeps == ASSUME TInv, NEW e \in Exchanges, Patch(e) PROVE TInv'
<1>1. /\ UNCHANGED <<tracked, pc, todo, cur, unknown, exRows, targets, before, failed,
                     faults, stops>>
      /\ active' = active \cup {e} \/ active' = active \ {e}
      /\ patched' = patched \cup {e} /\ patches' \in 0 .. MaxPatches
  BY TargetsAssumption DEF Patch, task, TInv, TypeOK
<1>2. ~Quiet'
  BY <1>1 DEF Quiet
<1>3. TypeOK'
  BY <1>1 DEF TInv, TypeOK
<1>4. Shape'
  BY <1>1 DEF TInv, Shape, Mine
<1>5. Checked'
  BY <1>1 DEF TInv, Checked
<1>6. DisabledIsLeftAlone' /\ UnlistedIsExplained'
  BY <1>1 DEF TInv, DisabledIsLeftAlone, UnlistedIsExplained
<1> QED BY <1>2, <1>3, <1>4, <1>5, <1>6 DEF TInv, Exact

\* A start begins, or the process ends.
LEMMA BootKeeps == ASSUME TInv, Boot \/ Stop PROVE TInv'
<1>1. /\ pc' \in {"down", "exchanges"} /\ todo' = {} /\ cur' = NoExchange
      /\ unknown' = {} /\ targets' = {} /\ exRows' \subseteq Exchanges
      /\ UNCHANGED <<active, tracked, patches, faults>> /\ stops' \in 0 .. MaxStops
      /\ patched' \subseteq Exchanges /\ failed' \subseteq Exchanges
      /\ before' \subseteq Pairs /\ (pc' = "exchanges" => tracked = before')
  BY TargetsAssumption DEF Boot, Stop, tables, history, bounds, TInv, TypeOK, Shape,
     Validating
<1>2. TypeOK'
  BY <1>1 DEF TInv, TypeOK
<1>3. Shape' /\ Checked'
  BY <1>1, TargetsAssumption DEF Shape, Checked, Validating, Loading
<1>4. Exact' /\ DisabledIsLeftAlone' /\ UnlistedIsExplained'
  BY <1>1, NoTargets DEF Exact, Validating, Loading
<1> QED BY <1>2, <1>3, <1>4 DEF TInv

-----------------------------------------------------------------------------
\* The validation goes on with one of the exchanges left, or ends.
LEMMA NextExchangeFacts ==
  ASSUME NEW rest, rest \subseteq Exchanges, NextExchange(rest)
  PROVE  /\ unknown' = {} /\ cur' \notin todo'
         /\ \/ /\ rest = {} /\ pc' = "loadExchanges" /\ cur' = NoExchange /\ todo' = {}
            \/ /\ pc' = "markets" /\ cur' \in Exchanges /\ cur' # NoExchange
               /\ todo' \subseteq Exchanges
         /\ rest = (todo' \cup {cur'}) \ {NoExchange}
BY TargetsAssumption DEF NextExchange

\* ... and the invariant asks about the pairs that stay behind only.
LEMMA MoveOnKeeps ==
  ASSUME TInv, NEW rest, rest \subseteq Exchanges, NextExchange(rest),
         pc \in Validating \cup {"exchanges"},
         UNCHANGED <<active, exRows, targets, patched, before, patches, stops>>,
         tracked' \subseteq Pairs, failed' \subseteq Exchanges, faults' \in 0 .. MaxFaults,
         \A p \in tracked' \ Listed :
            p[1] \in rest \cup failed' \cup patched \/ p[1] \notin active,
         Quiet' => /\ rest \subseteq active
                   /\ \A p \in Pairs : p \in tracked' <=>
                        IF p[1] \in active \ rest
                        THEN p \in Listed /\ (p \in before \/ p[2] \in Desired)
                        ELSE p \in before
  PROVE  TInv'
<1>1. /\ unknown' = {} /\ cur' \notin todo'
      /\ \/ /\ rest = {} /\ pc' = "loadExchanges" /\ cur' = NoExchange /\ todo' = {}
         \/ /\ pc' = "markets" /\ cur' \in Exchanges /\ cur' # NoExchange
            /\ todo' \subseteq Exchanges
      /\ rest = (todo' \cup {cur'}) \ {NoExchange}
  BY NextExchangeFacts
<1>2. targets = {}
  BY DEF TInv, TypeOK, Validating
<1>3. TypeOK'
  BY <1>1, <1>2 DEF TInv, TypeOK
<1>4. Shape'
  BY <1>1, TargetsAssumption DEF TInv, Shape, Validating
<1>5. Checked'
  BY <1>1 DEF Checked
<1>6. Exact'
  <2>1. SUFFICES ASSUME Quiet'
                 PROVE  /\ todo' \subseteq active /\ cur' \in active \cup {NoExchange}
                        /\ \A p \in Pairs : p \in tracked' <=> Expected(p)'
    BY <1>1, <1>2, NoTargets DEF Exact
  <2>2. todo' \subseteq active /\ cur' \in active \cup {NoExchange}
    BY <1>1, <2>1, TargetsAssumption
  <2>3. ASSUME NEW p \in Pairs PROVE p \in tracked' <=> Expected(p)'
    <3>1. p[1] # NoExchange /\ pc' \notin {"pairs", "deactivate"}
      BY <1>1, PairFacts
    <3>2. p[1] \in active \ rest <=> p[1] \in active' /\ p[1] \notin todo' \cup {cur'}
      BY <1>1, <3>1
    <3> QED BY <2>1, <3>1, <3>2 DEF Expected
  <2> QED BY <2>2, <2>3
<1>7. DisabledIsLeftAlone' /\ UnlistedIsExplained'
  BY <1>1, <1>2, NoTargets
<1> QED BY <1>3, <1>4, <1>5, <1>6, <1>7 DEF TInv

\* _sync_pairs reads the active exchanges.
LEMMA ListKeeps == ASSUME TInv, ListExchanges PROVE TInv'
<1>1. /\ pc = "exchanges" /\ NextExchange(active) /\ active \subseteq Exchanges
      /\ UNCHANGED <<active, tracked, exRows, targets, patched, before, failed, patches,
                     faults, stops>>
  BY DEF ListExchanges, tables, history, bounds, TInv, TypeOK
<1>2. \A p \in tracked \ Listed : p[1] \in active \/ p[1] \notin active
  OBVIOUS
<1>3. Quiet' => tracked' = before
  BY <1>1 DEF TInv, Exact, Quiet
<1> QED BY <1>1, <1>2, <1>3, MoveOnKeeps DEF TInv, TypeOK, Validating

\* load_markets and the INSERT of the desired symbols.
LEMMA UpsertKeeps == ASSUME TInv, LoadMarkets \/ Upsert PROVE TInv'
<1>1. /\ pc \in {"markets", "upsert"} /\ pc' \in {"upsert", "pairs"}
      /\ UNCHANGED <<active, todo, cur, unknown, exRows, targets, patched, before, failed,
                     patches, faults, stops>>
      /\ \/ pc' = "upsert" /\ UNCHANGED tracked
         \/ pc' = "pairs" /\ tracked' = tracked \cup Wanted
  BY DEF LoadMarkets, Upsert, Upserted, tables, history, bounds
<1>2. Wanted \subseteq Listed /\ Wanted = {p \in Listed : p[1] = cur /\ p[2] \in Desired}
  <2>1. \A p \in Listed : p = <<p[1], p[2]>>
    BY TargetsAssumption DEF Pairs
  <2> QED BY <2>1 DEF Wanted
<1>3. targets = {}
  BY <1>1 DEF TInv, TypeOK
<1>4. TypeOK'
  BY <1>1, <1>2, TargetsAssumption DEF TInv, TypeOK
<1>5. Shape'
  BY <1>1 DEF TInv, Shape, Validating
<1>6. Checked'
  BY <1>1, <1>2 DEF TInv, Checked, Validating
<1>7. Exact'
  <2>1. SUFFICES ASSUME Quiet' PROVE \A p \in Pairs : p \in tracked' <=> Expected(p)'
    BY <1>1, <1>3, NoTargets DEF TInv, Exact, Quiet, Validating
  <2>2. ASSUME NEW p \in Pairs PROVE p \in tracked' <=> Expected(p)'
    <3>1. p \in tracked <=> Expected(p)
      BY <1>1, <2>1 DEF TInv, Exact, Quiet, Validating
    <3> QED BY <1>1, <1>2, <3>1 DEF Expected
  <2> QED BY <2>2
<1>8. DisabledIsLeftAlone' /\ UnlistedIsExplained'
  BY <1>1, <1>3, NoTargets
<1> QED BY <1>4, <1>5, <1>6, <1>7, <1>8 DEF TInv

\* The pairs of the exchange are compared with its markets.
LEMMA FindKeeps == ASSUME TInv, FindUnknown PROVE TInv'
<1>1. /\ pc = "pairs" /\ cur \in Exchanges /\ todo \subseteq Exchanges
      /\ UNCHANGED <<active, tracked, exRows, targets, patched, before, failed, patches,
                     faults, stops>>
  BY DEF FindUnknown, tables, history, bounds, TInv, TypeOK
<1>2. CASE Mine(tracked) \subseteq Listed
  <2>1. NextExchange(todo)
    BY <1>2 DEF FindUnknown
  <2>2. \A p \in tracked' \ Listed :
           p[1] \in todo \cup failed' \cup patched \/ p[1] \notin active
    BY <1>1, <1>2 DEF TInv, Checked, Mine, Validating
  <2>3. ASSUME Quiet'
        PROVE  /\ todo \subseteq active
               /\ \A p \in Pairs : p \in tracked' <=>
                    IF p[1] \in active \ todo
                    THEN p \in Listed /\ (p \in before \/ p[2] \in Desired)
                    ELSE p \in before
    <3>1. /\ todo \subseteq active /\ cur \in active \cup {NoExchange}
          /\ \A p \in Pairs : p \in tracked <=> Expected(p)
      BY <1>1, <2>3 DEF TInv, Exact, Quiet, Validating
    <3>2. ASSUME NEW p \in Pairs
          PROVE  p \in tracked <=> IF p[1] \in active \ todo
                    THEN p \in Listed /\ (p \in before \/ p[2] \in Desired)
                    ELSE p \in before
      BY <1>1, <1>2, <3>1, PairFacts DEF Expected, Mine, TInv, Shape
    <3> QED BY <1>1, <3>1, <3>2
  <2> QED BY <1>1, <2>1, <2>2, <2>3, MoveOnKeeps DEF TInv, TypeOK, Validating
<1>3. CASE ~(Mine(tracked) \subseteq Listed)
  <2>1. /\ unknown' = Mine(tracked) \ Listed /\ pc' = "deactivate"
        /\ UNCHANGED <<todo, cur>>
    BY <1>3 DEF FindUnknown
  <2>2. targets = {}
    BY <1>1 DEF TInv, TypeOK
  <2>3. TypeOK'
    BY <1>1, <2>1 DEF TInv, TypeOK, Mine
  <2>4. Shape' /\ Checked'
    BY <1>1, <2>1 DEF TInv, Shape, Checked, Mine, Validating
  <2>5. Exact'
    BY <1>1, <2>1, <2>2, NoTargets DEF TInv, Exact, Quiet, Expected, Validating
  <2> QED BY <1>1, <2>1, <2>2, <2>3, <2>4, <2>5, NoTargets DEF TInv
<1> QED BY <1>2, <1>3

\* The pairs without a market are switched off.
LEMMA DeactivateKeeps == ASSUME TInv, Deactivate PROVE TInv'
<1>1. /\ pc = "deactivate" /\ cur \in Exchanges /\ todo \subseteq Exchanges
      /\ NextExchange(todo) /\ tracked' = tracked \ (Mine(tracked) \ Listed)
      /\ UNCHANGED <<active, exRows, targets, patched, before, failed, patches,
                     faults, stops>>
  BY DEF Deactivate, WithoutUnknown, history, bounds, TInv, TypeOK, Shape
<1>2. \A p \in tracked' \ Listed :
         p[1] \in todo \cup failed' \cup patched \/ p[1] \notin active
  BY <1>1 DEF TInv, Checked, Mine, Validating
<1>3. ASSUME Quiet'
      PROVE  /\ todo \subseteq active
             /\ \A p \in Pairs : p \in tracked' <=>
                  IF p[1] \in active \ todo
                  THEN p \in Listed /\ (p \in before \/ p[2] \in Desired)
                  ELSE p \in before
  <2>1. /\ todo \subseteq active /\ cur \in active
        /\ \A p \in Pairs : p \in tracked <=> Expected(p)
    BY <1>1, <1>3, TargetsAssumption DEF TInv, Exact, Quiet, Validating
  <2>2. ASSUME NEW p \in Pairs
        PROVE  p \in tracked' <=> IF p[1] \in active \ todo
                  THEN p \in Listed /\ (p \in before \/ p[2] \in Desired)
                  ELSE p \in before
    BY <1>1, <2>1, PairFacts DEF Expected, Mine, TInv, Shape
  <2> QED BY <2>1, <2>2
<1> QED BY <1>1, <1>2, <1>3, MoveOnKeeps DEF TInv, TypeOK, Validating

\* A failing call is noted, whether it was carried out or not.
LEMMA SyncRaisesKeeps == ASSUME TInv, SyncRaises PROVE TInv'
<1>1. /\ pc \in Validating \cup {"exchanges"} /\ todo \subseteq Exchanges
      /\ NextExchange(todo) /\ faults' \in 0 .. MaxFaults
      /\ UNCHANGED <<active, exRows, targets, patched, before, patches, stops>>
      /\ failed' = failed \cup (IF pc = "exchanges" THEN Exchanges ELSE {cur})
  BY TargetsAssumption DEF SyncRaises, OnError, FailsFor, TInv, TypeOK, Validating
<1>2. cur \in Exchanges \/ pc = "exchanges"
  BY <1>1 DEF TInv, TypeOK, Validating
<1>3. failed' \subseteq Exchanges /\ failed' # {}
  BY <1>1, <1>2, TargetsAssumption DEF TInv, TypeOK, Pairs
<1>4. tracked' \subseteq Pairs /\ \A p \in tracked' \ Listed : p \in tracked
  BY TargetsAssumption DEF SyncRaises, Upserted, Wanted, WithoutUnknown, TInv, TypeOK
<1>5. \A p \in tracked' \ Listed :
         p[1] \in todo \cup failed' \cup patched \/ p[1] \notin active
  BY <1>1, <1>4, PairFacts DEF TInv, TypeOK, Checked
<1> QED BY <1>1, <1>3, <1>4, <1>5, MoveOnKeeps DEF Quiet

-----------------------------------------------------------------------------
\* _load_targets reads exchange_configs ...
LEMMA LoadExchangesKeeps == ASSUME TInv, LoadExchanges PROVE TInv'
<1>1. /\ pc = "loadExchanges" /\ pc' = "loadPairs" /\ exRows' = active
      /\ UNCHANGED <<active, tracked, todo, cur, unknown, targets, patched, before,
                     failed, patches, faults, stops>>
      /\ targets = {}
  BY DEF LoadExchanges, tables, history, bounds, TInv, TypeOK
<1>2. TypeOK' /\ Shape' /\ Checked'
  BY <1>1 DEF TInv, TypeOK, Shape, Checked, Validating, Loading
<1>3. Exact'
  BY <1>1, NoTargets DEF TInv, Exact, Quiet, Expected, Loading
<1> QED BY <1>1, <1>2, <1>3, NoTargets DEF TInv

\* ... and tracked_pairs: what it finds decides until the next start.
LEMMA LoadPairsKeeps == ASSUME TInv, LoadPairs PROVE TInv'
<1> DEFINE found == UNION {TargetsOf(e) : e \in exRows}
<1>1. /\ pc = "loadPairs" /\ pc' = "up" /\ exRows' = {} /\ todo = {}
      /\ cur = NoExchange
      /\ targets' = (IF found = {} THEN {Default} ELSE found)
      /\ UNCHANGED <<active, tracked, todo, cur, unknown, patched, before,
                     failed, patches, faults, stops>>
  BY DEF LoadPairs, OrDefault, Rows, tables, history, bounds, TInv, TypeOK, Shape,
     Validating
<1>2. Default \in Pairs /\ Default[2] \in Symbols /\ Default = <<Default[1], Default[2]>>
  BY TargetsAssumption DEF Pairs
<1>3. \A e \in Exchanges : /\ TargetsOf(e) # {} /\ TargetsOf(e) \subseteq Pairs
                           /\ \A p \in TargetsOf(e) :
                                /\ p[1] = e
                                /\ p \in tracked \/ p[2] = Default[2]
  <2> SUFFICES ASSUME NEW e \in Exchanges
               PROVE  /\ TargetsOf(e) # {} /\ TargetsOf(e) \subseteq Pairs
                      /\ \A p \in TargetsOf(e) :
                           p[1] = e /\ (p \in tracked \/ p[2] = Default[2])
    OBVIOUS
  <2> DEFINE P == {p \in tracked : p[1] = e}
  <2>1. TargetsOf(e) = IF P = {} THEN {<<e, Default[2]>>} ELSE P
    BY DEF TargetsOf
  <2>2. <<e, Default[2]>> \in Pairs
    BY <1>2 DEF Pairs
  <2>3. P \subseteq Pairs /\ \A p \in P : p[1] = e /\ p \in tracked
    BY DEF TInv, TypeOK
  <2>4. <<e, Default[2]>>[1] = e /\ <<e, Default[2]>>[2] = Default[2]
    OBVIOUS
  <2> HIDE DEF P
  <2> QED BY <2>1, <2>2, <2>3, <2>4
<1>4. exRows \subseteq Exchanges /\ exRows \subseteq active \cup patched
      /\ active \subseteq exRows \cup patched
  BY <1>1 DEF TInv, TypeOK, Shape
<1>5. found = {} <=> exRows = {}
  BY <1>3, <1>4
<1>6. ASSUME NEW p \in found
      PROVE  /\ p \in Pairs /\ p[1] \in active \cup patched
             /\ p \in tracked \/ p[2] = Default[2]
  <2>1. PICK e \in exRows : p \in TargetsOf(e)
    OBVIOUS
  <2> QED BY <1>3, <1>4, <2>1
<1>7. TypeOK'
  <2>1. targets' \subseteq Pairs /\ targets' # {}
    BY <1>1, <1>2, <1>6
  <2> HIDE DEF found
  <2> QED BY <1>1, <2>1 DEF TInv, TypeOK
<1>8. Shape' /\ Checked'
  BY <1>1 DEF TInv, Shape, Checked, Validating, Loading
<1>9. DisabledIsLeftAlone'
  <2>1. CASE found = {}
    BY <1>1, <1>4, <1>5, <2>1 DEF DisabledIsLeftAlone
  <2>2. CASE found # {}
    BY <1>1, <1>6, <2>2 DEF DisabledIsLeftAlone
  <2> QED BY <2>1, <2>2
<1>10. UnlistedIsExplained'
  <2>1. ASSUME NEW p \in found, p \notin Listed
        PROVE  p[1] \in failed \cup patched \/ p[2] = Default[2]
    <3>1. p \in tracked => \/ p[1] \in todo \cup {cur} \cup failed \cup patched
                           \/ p[1] \notin active
      BY <1>1, <2>1 DEF TInv, Checked, Loading
    <3>2. p \in Pairs /\ p[1] \in active \cup patched
          /\ (p \in tracked \/ p[2] = Default[2])
      BY <1>6, <2>1
    <3> QED BY <1>1, <3>1, <3>2, PairFacts
  <2> HIDE DEF found
  <2> QED BY <1>1, <2>1 DEF UnlistedIsExplained
<1>11. Exact'
  <2>1. SUFFICES ASSUME Quiet' PROVE QuietStartIsExact'
    BY <1>1 DEF Exact, Validating, Loading
  <2>2. /\ exRows = active /\ Quiet
        /\ \A p \in Pairs : p \in tracked <=> Expected(p)
    BY <1>1, <1>4, <2>1 DEF TInv, Exact, Quiet, Loading
  <2> DEFINE wanted(e) == {p \in Listed : p[1] = e /\ (p \in before \/ p[2] \in Desired)}
             chosen(e) == IF wanted(e) = {} THEN {<<e, Default[2]>>} ELSE wanted(e)
             all == UNION {chosen(e) : e \in active}
  <2>3. ASSUME NEW e \in active PROVE TargetsOf(e) = chosen(e)
    <3>1. {p \in tracked : p[1] = e} = wanted(e)
      <4>1. \A p \in Pairs : p[1] = e => (p \in tracked <=> p \in wanted(e))
        BY <1>1, <1>4, <2>2, <2>3, PairFacts DEF Expected, TInv, TypeOK
      <4> QED BY <4>1, TargetsAssumption DEF TInv, TypeOK
    <3> QED BY <3>1 DEF TargetsOf
  <2>4. found = all
    BY <2>2, <2>3
  <2>5. Reference' = IF all = {} THEN {Default} ELSE all
    BY <1>1 DEF Reference
  <2> HIDE DEF found, all
  <2> QED BY <1>1, <2>4, <2>5 DEF QuietStartIsExact
<1> QED BY <1>7, <1>8, <1>9, <1>10, <1>11 DEF TInv

\* A database that does not answer: the fallback.
LEMMA LoadRaisesKeeps == ASSUME TInv, LoadRaises PROVE TInv'
<1>1. /\ pc \in Loading /\ pc' = "up" /\ exRows' = {} /\ targets' = {Default}
      /\ UNCHANGED <<active, tracked, todo, cur, unknown, patched, before, patches, stops>>
      /\ failed' = failed \cup Exchanges /\ faults' \in 0 .. MaxFaults
  BY TargetsAssumption DEF LoadRaises, FailsFor, Loading, tables, TInv, TypeOK
<1>2. Default \in Pairs /\ failed' # {}
  BY <1>1, TargetsAssumption DEF Pairs
<1>3. TypeOK'
  BY <1>1, <1>2 DEF TInv, TypeOK, Loading
<1>4. Shape' /\ Checked' /\ Exact'
  BY <1>1, <1>2 DEF TInv, Shape, Checked, Exact, Quiet, Validating, Loading
<1>5. DisabledIsLeftAlone' /\ UnlistedIsExplained'
  BY <1>1, <1>2 DEF DisabledIsLeftAlone, UnlistedIsExplained
<1> QED BY <1>3, <1>4, <1>5 DEF TInv

LEMMA NextT == ASSUME TInv, [Next]_vars PROVE TInv'
<1>1. CASE Next
  BY <1>1, PatchKeeps, BootKeeps, ListKeeps, UpsertKeeps, FindKeeps, DeactivateKeeps,
     SyncRaisesKeeps, LoadExchangesKeeps, LoadPairsKeeps, LoadRaisesKeeps
     DEF Next, StartStep
<1>2. CASE UNCHANGED vars
  BY <1>2 DEF vars, tables, task, history, bounds, TInv, TypeOK, Shape, Checked, Exact,
     Quiet, Expected, Mine, DisabledIsLeftAlone, UnlistedIsExplained,
     QuietStartIsExact, Reference
<1> QED BY <1>1, <1>2

-----------------------------------------------------------------------------
THEOREM TInvCorrect == Spec => []TInv
BY InitT, NextT, PTL DEF Spec

\* Every reachable state of the start has its type (collector/main.py:46-163).
THEOREM TypeCorrect == Spec => []TypeOK
<1>1. TInv => TypeOK
  BY DEF TInv
<1> QED BY <1>1, TInvCorrect, PTL

\* A start nobody disturbs collects exactly what the tables and the markets
\* say (main.py:84-147, 46-72).
THEOREM QuietStartIsExactCorrect == Spec => []QuietStartIsExact
<1>1. TInv => QuietStartIsExact
  BY DEF TInv, Exact, Quiet, QuietStartIsExact
<1> QED BY <1>1, TInvCorrect, PTL

\* Only the fallback collects an exchange that was disabled (main.py:61, 72).
THEOREM DisabledIsLeftAloneCorrect == Spec => []DisabledIsLeftAlone
<1>1. TInv => DisabledIsLeftAlone
  BY DEF TInv
<1> QED BY <1>1, TInvCorrect, PTL

\* A symbol without a market is collected only after a failure or a PATCH, or
\* as the default (main.py:71, 126-147).
THEOREM UnlistedIsExplainedCorrect == Spec => []UnlistedIsExplained
<1>1. TInv => UnlistedIsExplained
  BY DEF TInv
<1> QED BY <1>1, TInvCorrect, PTL
=============================================================================
