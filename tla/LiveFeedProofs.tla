--------------------------- MODULE LiveFeedProofs ---------------------------
(***************************************************************************)
(* Proofs about LiveFeed, for every set of sockets, count of the XREAD,    *)
(* lengths of the list and of a page, and every number of trades, mounts,  *)
(* loads and faults.  The inductive invariant LiveInv adds to the type     *)
(* where the broadcaster is in its reply (ReaderShape), that each feed is  *)
(* of the stream and without a gap (FeedsFormed), where it ends (FeedsEnd) *)
(* and which sockets are still the page's (ChainShape).                    *)
(***************************************************************************)
EXTENDS LiveFeed, SequenceTheorems, FiniteSetTheorems, TLAPS

(***************************************************************************)
(* The invariants behind the theorems.                                     *)
(***************************************************************************)

(* A slot neither end uses carries nothing, one that the gateway holds was *)
(* accepted or closed by the page, and only the cleanup drops a socket.    *)
WireShape ==
    /\ \A k \in Sockets : state[k] = "off" => k \notin joined \cup dead \cup broken
    /\ \A k \in Sockets \ joined : feed[k] = <<>>
    /\ \A k \in active \cup targets : k \in joined \/ state[k] = "off"
    /\ dropped \subseteq {k \in Sockets : state[k] = "closing"}

(* Where the broadcaster is: the rest of a reply continues the entry it    *)
(* sends, and a call with an id continues the last one it sent.            *)
ReaderShape ==
    /\ gw = "send" => last > 0
    /\ gw \in {"down", "ask"} => last = 0
    /\ gw = "read" /\ last > 0 => from = last
    /\ gw # "send" => batch = <<>>
    /\ \A i \in DOMAIN batch : batch[i] = last + i
    /\ last + Len(batch) <= published

(* What was sent over a connection has no gap that trimming did not leave  *)
(* and is of the stream; and it ends where the broadcaster is, or, for a   *)
(* client the entry in flight is yet to be sent to, just before.           *)
FeedsFormed ==
    \A k \in Sockets :
        /\ \A i \in 1 .. Len(feed[k]) : feed[k][i] <= published
        /\ \A i \in 2 .. Len(feed[k]) : Follows(feed[k][i - 1], feed[k][i])

FeedsEnd ==
    \A k \in active \cup targets :
        ~Gone(k) /\ feed[k] # <<>>
            => IF k \in targets THEN Follows(Last(feed[k]), last)
               ELSE Last(feed[k]) = last

AnswersShape == \A l \in Loads : answers[l] <= published

(* The sockets that are still to close, or to stay, without the cleanup    *)
(* having asked for it: each is the page's connection or a late close's.   *)
Held == {k \in Sockets : state[k] # "off"} \ dropped

ChainShape ==
    /\ late \in Nat /\ IsFiniteSet(Held)
    /\ mounted => wsRef \in Sockets \ dropped /\ (state[wsRef] = "off" => armed)
    /\ Cardinality(Held) + timers <= late + IF mounted THEN 1 ELSE 0

ReaderType ==
    /\ published \in 0 .. MaxEntries /\ trimmed \in 0 .. published
    /\ gw \in {"down", "ask", "read", "send"}
    /\ last \in 0 .. published /\ from \in 0 .. published
    /\ batch \in Seq(Entries)
    /\ (gw = "send") <=> (targets # {})
    /\ targets \cup gone \cup active \subseteq Sockets

WireType ==
    /\ state \in [Sockets -> {"off", "connecting", "open", "closing"}]
    /\ joined \subseteq Sockets /\ dead \subseteq Sockets /\ broken \subseteq Sockets
    /\ feed \in [Sockets -> Seq(Entries)] /\ got \in [Sockets -> Nat]
    /\ \A k \in Sockets : got[k] <= Len(feed[k])

HookType ==
    /\ mounted \in BOOLEAN /\ armed \in BOOLEAN /\ timers \in Nat /\ (armed => timers > 0)
    /\ wsRef \in Sockets \cup {NoSocket} /\ pingRef \in Sockets \cup {NoSocket}
    /\ beating \subseteq {k \in Sockets : state[k] \in {"open", "closing"}}

ListType ==
    /\ shown \in Seq(Entries) /\ Len(shown) <= Cap
    /\ answers \in [Loads -> 0 .. MaxEntries \cup {NoAnswer}]
    /\ handled \subseteq 1 .. published

LiveInv ==
    /\ ReaderType /\ WireType /\ HookType /\ ListType
    /\ WireShape /\ ReaderShape /\ FeedsFormed /\ FeedsEnd
    /\ AnswersShape /\ ChainShape /\ ListIsExplained

LEMMA TypeParts == TypeOK <=> ReaderType /\ WireType /\ HookType /\ ListType
BY DEF TypeOK, ReaderType, WireType, HookType, ListType

----------------------------------------------------------------------------
(* Which steps touch which part of the state.                              *)
LEMMA ReaderSteps ==
    ASSUME [Next]_vars
    PROVE  \/ Announce \/ GatewayBoot \/ Ask \/ Read \/ ReadNothing \/ ReadRaises
           \/ GatewayStop
           \/ \E k \in Sockets : Send(k) \/ Accept(k) \/ Disconnect(k)
           \/ UNCHANGED <<stream, reader, active>>
<1>1. CASE UNCHANGED vars
  BY <1>1 DEF vars
<1>2. CASE Next
  <2>1. CASE Mount \/ Unmount \/ Load
    BY <2>1 DEF Mount, Unmount, Load
  <2>2. ASSUME NEW l \in Loads, Answer(l)
        PROVE  UNCHANGED <<stream, reader, active>>
    BY <2>2 DEF Answer
  <2>3. CASE Reconnect
    BY <2>3 DEF Reconnect
  <2>4. ASSUME NEW k \in Sockets,
               OnOpen(k) \/ OnClose(k) \/ Watchdog(k) \/ OnMessage(k) \/ Cut(k)
        PROVE  UNCHANGED <<stream, reader, active>>
    BY <2>4 DEF OnOpen, OnClose, Watchdog, OnMessage, Cut
  <2> QED
    BY <1>2, <2>1, <2>2, <2>3, <2>4 DEF Next, GatewayStep, PageStep, SocketStep
<1> QED  BY <1>1, <1>2

LEMMA WireSteps ==
    ASSUME [Next]_vars
    PROVE  \/ GatewayStop \/ Mount \/ Reconnect \/ Unmount
           \/ \E k \in Sockets : Send(k) \/ Accept(k) \/ OnOpen(k) \/ OnClose(k)
                                 \/ Watchdog(k) \/ Cut(k) \/ OnMessage(k)
           \/ UNCHANGED <<wire, ghosts>>
<1>1. CASE UNCHANGED vars
  BY <1>1 DEF vars
<1>2. CASE Next
  <2>1. CASE Announce \/ GatewayBoot \/ Ask \/ Read \/ ReadNothing \/ ReadRaises \/ Load
    BY <2>1 DEF Announce, GatewayBoot, Ask, Read, ReadNothing, ReadRaises, Load, wire
  <2>2. ASSUME NEW l \in Loads, Answer(l)
        PROVE  UNCHANGED <<wire, ghosts>>
    BY <2>2 DEF Answer
  <2>3. ASSUME NEW k \in Sockets, Disconnect(k)
        PROVE  UNCHANGED <<wire, ghosts>>
    BY <2>3 DEF Disconnect
  <2> QED
    BY <1>2, <2>1, <2>2, <2>3 DEF Next, GatewayStep, PageStep, SocketStep
<1> QED  BY <1>1, <1>2

LEMMA HookSteps ==
    ASSUME [Next]_vars
    PROVE  \/ Mount \/ Reconnect \/ Unmount
           \/ \E k \in Sockets : OnOpen(k) \/ OnClose(k) \/ Watchdog(k)
           \/ UNCHANGED <<state, hook, ghosts>>
<1>1. CASE UNCHANGED vars
  BY <1>1 DEF vars, wire
<1>2. CASE Next
  <2>1. CASE Announce \/ GatewayBoot \/ Ask \/ Read \/ ReadNothing \/ ReadRaises
             \/ Load \/ GatewayStop
    BY <2>1 DEF Announce, GatewayBoot, Ask, Read, ReadNothing, ReadRaises, Load,
                GatewayStop, wire
  <2>2. ASSUME NEW l \in Loads, Answer(l)
        PROVE  UNCHANGED <<state, hook, ghosts>>
    BY <2>2 DEF Answer, wire
  <2>3. ASSUME NEW k \in Sockets,
               Send(k) \/ Accept(k) \/ Disconnect(k) \/ Cut(k) \/ OnMessage(k)
        PROVE  UNCHANGED <<state, hook, ghosts>>
    BY <2>3 DEF Send, Accept, Disconnect, Cut, OnMessage, wire
  <2> QED
    BY <1>2, <2>1, <2>2, <2>3 DEF Next, GatewayStep, PageStep, SocketStep
<1> QED  BY <1>1, <1>2

LEMMA ListSteps ==
    ASSUME [Next]_vars
    PROVE  \/ Load /\ published' = published
           \/ \E l \in Loads : Answer(l)
           \/ \E k \in Sockets : OnMessage(k)
           \/ UNCHANGED list /\ published' = published
           \/ UNCHANGED list /\ Announce
<1>1. CASE UNCHANGED vars
  BY <1>1 DEF stream, vars
<1>2. CASE Next
  <2>1. CASE GatewayBoot \/ Ask \/ Read \/ ReadNothing \/ ReadRaises
             \/ GatewayStop \/ Mount \/ Unmount \/ Reconnect
    BY <2>1 DEF stream, GatewayBoot, Ask, Read, ReadNothing, ReadRaises, GatewayStop,
                Mount, Unmount, Reconnect
  <2>2. CASE Announce \/ Load
    BY <2>2 DEF stream, Announce, Load
  <2>3. ASSUME NEW k \in Sockets,
               Send(k) \/ Accept(k) \/ Disconnect(k) \/ OnOpen(k) \/ OnClose(k)
               \/ Watchdog(k) \/ Cut(k)
        PROVE  UNCHANGED list /\ published' = published
    BY <2>3 DEF stream, Send, Accept, Disconnect, OnOpen, OnClose, Watchdog, Cut
  <2> QED
    BY <1>2, <2>1, <2>2, <2>3 DEF Next, GatewayStep, PageStep, SocketStep
<1> QED  BY <1>1, <1>2

----------------------------------------------------------------------------
(* The broadcaster.  `rest` continues b: it is a reply to an XREAD from b, *)
(* or what is left of one after entry b.                                   *)
Continues(rest, b) ==
    /\ rest \in Seq(Entries) /\ b \in Nat /\ b + Len(rest) <= published
    /\ \A i \in 1 .. Len(rest) : rest[i] = b + i

(* An XREAD starts at its id or, behind what is trimmed, past that.         *)
LEMMA PastFacts ==
    ASSUME ReaderType, LiveFeedAssumption
    PROVE  Past \in Nat /\ from <= Past /\ from \in Nat /\ Past <= published
BY DEF Past, ReaderType, LiveFeedAssumption

LEMMA ReplyContinues ==
    ASSUME ReaderType, LiveFeedAssumption, NEW n \in Nat, Past < n, n <= published
    PROVE  Continues(Reply(n), Past) /\ Reply(n) # <<>>
<1>1. /\ Past \in Nat /\ n - Past \in Nat \ {0} /\ n <= MaxEntries
      /\ MaxEntries \in Nat
  BY PastFacts DEF ReaderType, LiveFeedAssumption
<1>2. Reply(n) \in [1 .. n - Past -> Entries]
  BY <1>1 DEF Reply, Entries
<1>3. Reply(n) \in Seq(Entries)
  BY <1>1, <1>2, SeqDef
<1>4. Len(Reply(n)) = n - Past
  BY <1>1, <1>2, <1>3, LenProperties DEF Reply
<1>5. \A i \in 1 .. n - Past : Reply(n)[i] = Past + i
  BY DEF Reply
<1> QED  BY <1>1, <1>3, <1>4, <1>5 DEF Continues

LEMMA HeadContinues ==
    ASSUME NEW rest, NEW b, Continues(rest, b), rest # <<>>
    PROVE  /\ Head(rest) = b + 1 /\ Last(rest) = b + Len(rest)
           /\ Len(rest) > 0
           /\ Continues(Tail(rest), b + 1)
<1>1. rest \in Seq(Entries) /\ Len(rest) \in Nat \ {0} /\ b \in Nat
  BY EmptySeq DEF Continues
<1>2. Head(rest) = rest[1] /\ Last(rest) = rest[Len(rest)]
  BY <1>1 DEF Last
<1>3. /\ Tail(rest) \in Seq(Entries) /\ Len(Tail(rest)) = Len(rest) - 1
      /\ \A i \in 1 .. Len(Tail(rest)) : Tail(rest)[i] = rest[i + 1]
  BY <1>1, HeadTailProperties
<1>4. \A i \in 1 .. Len(Tail(rest)) : Tail(rest)[i] = b + 1 + i
  BY <1>1, <1>3 DEF Continues
<1> QED  BY <1>1, <1>2, <1>3, <1>4 DEF Continues

(* What NextCall and Broadcast leave behind.                               *)
LEMMA NextCallShape ==
    ASSUME LiveFeedAssumption, ReaderType, NEW id \in 0 .. published, NextCall(id),
           published' = published, trimmed' \in {0, trimmed},
           gone' \cup active' \subseteq Sockets
    PROVE  ReaderType' /\ ReaderShape'
<1>1. /\ last' = id /\ batch' = <<>> /\ targets' = {} /\ from' = id
      /\ gw' = IF id = 0 THEN "ask" ELSE "read"
  BY DEF NextCall
<1>2. ReaderType'
  BY <1>1, EmptySeq DEF ReaderType
<1>3. ReaderShape'
  BY <1>1 DEF ReaderShape, ReaderType
<1> QED  BY <1>2, <1>3

LEMMA BroadcastShape ==
    ASSUME LiveFeedAssumption, ReaderType, NEW rest, NEW b, Continues(rest, b),
           rest = <<>> => b = last,
           NEW clients, Broadcast(rest, clients), published' = published,
           trimmed' \in {0, trimmed}, active' \cup clients \subseteq Sockets
    PROVE  ReaderType' /\ ReaderShape'
<1>1. CASE rest = <<>>
  <2>1. NextCall(last) /\ gone' = {} /\ last \in 0 .. published
    BY <1>1 DEF Broadcast, ReaderType
  <2>2. gone' \cup active' \subseteq Sockets
    BY <2>1
  <2> QED  BY <2>1, <2>2, NextCallShape
<1>2. CASE rest # <<>> /\ clients = {}
  <2>1. Last(rest) \in 0 .. published
    <3>1. Last(rest) = b + Len(rest) /\ Len(rest) > 0
      BY <1>2, HeadContinues
    <3>2. b \in Nat /\ Len(rest) \in Nat /\ b + Len(rest) <= published
      BY LenProperties DEF Continues
    <3> QED  BY <3>1, <3>2 DEF ReaderType
  <2> QED  BY <1>2, <2>1, NextCallShape DEF Broadcast, ReaderType
<1>3. CASE rest # <<>> /\ clients # {}
  <2>1. /\ gone' = {} /\ gw' = "send" /\ batch' = Tail(rest) /\ targets' = clients
        /\ last' = Head(rest) /\ from' = 0
    BY <1>3 DEF Broadcast
  <2>2. last' = b + 1 /\ Continues(batch', last') /\ Len(rest) > 0
    BY <1>3, <2>1, HeadContinues
  <2>3. b \in Nat /\ b + 1 <= published /\ published \in Nat
    BY <2>1, <2>2 DEF Continues, ReaderType
  <2>4. last' + Len(batch') <= published
    BY <2>2 DEF Continues
  <2>5. ReaderType'
    BY <1>3, <2>1, <2>2, <2>3 DEF ReaderType, Continues
  <2>6. DOMAIN batch' = 1 .. Len(batch')
    BY <2>2, LenProperties DEF Continues
  <2>7. ReaderShape'
    <3>1. \A i \in DOMAIN batch' : batch'[i] = last' + i
      BY <2>2, <2>6 DEF Continues
    <3> QED  BY <2>1, <2>2, <2>3, <2>4, <3>1 DEF ReaderShape
  <2> QED  BY <2>5, <2>7
<1> QED  BY <1>1, <1>2, <1>3

LEMMA BatchContinues ==
    ASSUME ReaderType, ReaderShape
    PROVE  Continues(batch, last)
<1>1. DOMAIN batch = 1 .. Len(batch)
  BY LenProperties DEF ReaderType
<1> QED  BY <1>1 DEF ReaderType, ReaderShape, Continues

LEMMA NextReaderShape ==
    ASSUME LiveFeedAssumption, ReaderType, ReaderShape, [Next]_vars
    PROVE  ReaderType' /\ ReaderShape'
<1>1. CASE Announce
  <2>1. /\ published' = published + 1 /\ published < MaxEntries
        /\ trimmed' \in trimmed .. published'
        /\ UNCHANGED <<gw, last, from, batch, targets, gone, active>>
    BY <1>1 DEF Announce, Trims, reader
  <2>2. ReaderType'
    BY <2>1 DEF ReaderType, LiveFeedAssumption
  <2>3. Len(batch) \in Nat /\ published \in Nat /\ last \in Nat
    BY LenProperties DEF ReaderType
  <2>4. last + Len(batch) <= published + 1
    BY <2>3 DEF ReaderShape
  <2> QED  BY <2>1, <2>2, <2>4 DEF ReaderShape
<1>2. CASE GatewayBoot
  BY <1>2 DEF stream, GatewayBoot, ReaderType, ReaderShape
<1>3. CASE Ask
  BY <1>3 DEF Ask, ReaderType, ReaderShape
<1>4. CASE Read
  <2>1. PICK n \in Past + 1 .. Past + Count :
            n <= published /\ Broadcast(Reply(n), active)
    BY <1>4 DEF Read
  <2>2. n \in Nat /\ Past < n
    BY <2>1, PastFacts DEF LiveFeedAssumption
  <2> QED
    BY <1>4, <2>1, <2>2, ReplyContinues, BroadcastShape DEF Read, ReaderType
<1>5. CASE ReadNothing \/ ReadRaises
  BY <1>5, NextCallShape DEF stream, ReadNothing, ReadRaises, ReaderType
<1>6. CASE GatewayStop
  BY <1>6, EmptySeq DEF GatewayStop, ReaderType, ReaderShape
<1>7. ASSUME NEW k \in Sockets, Send(k)
      PROVE  ReaderType' /\ ReaderShape'
  <2>1. PICK failed \in {gone, gone \cup {k}} :
            IF Remaining(k, failed) # {}
            THEN /\ targets' = Remaining(k, failed) /\ gone' = failed
                 /\ UNCHANGED <<gw, last, from, batch, active>>
            ELSE /\ active' = active \ failed
                 /\ Broadcast(batch, active \ failed)
    BY <1>7 DEF Send
  <2>2. gw = "send" /\ k \in targets /\ UNCHANGED <<published, trimmed>>
    BY <1>7 DEF stream, Send
  <2>3. CASE Remaining(k, failed) # {}
    BY <2>1, <2>2, <2>3 DEF Remaining, ReaderType, ReaderShape
  <2>4. CASE Remaining(k, failed) = {}
    <3>1. active' = active \ failed /\ Broadcast(batch, active \ failed)
      BY <2>1, <2>4
    <3> QED
      BY <3>1, <2>2, BatchContinues, BroadcastShape DEF ReaderType
  <2> QED  BY <2>3, <2>4
<1>8. ASSUME NEW k \in Sockets, Accept(k) \/ Disconnect(k)
      PROVE  ReaderType' /\ ReaderShape'
  BY <1>8 DEF stream, Accept, Disconnect, reader, ReaderType, ReaderShape
<1>9. CASE UNCHANGED <<stream, reader, active>>
  BY <1>9 DEF stream, reader, ReaderType, ReaderShape
<1> QED
  BY <1>1, <1>2, <1>3, <1>4, <1>5, <1>6, <1>7, <1>8, <1>9, ReaderSteps

----------------------------------------------------------------------------
(* The connections.                                                        *)
LEMMA ConnectTakesFree ==
    ASSUME Connect
    PROVE  \E k \in Sockets : /\ Free(k) /\ wsRef' = k
                              /\ state' = [state EXCEPT ![k] = "connecting"]
<1> DEFINE j == CHOOSE i \in Sockets : Free(i)
<1>1. j \in Sockets /\ Free(j)
  BY DEF Connect
<1>2. wsRef' = j /\ state' = [state EXCEPT ![j] = "connecting"]
  BY DEF Connect
<1> QED  BY <1>1, <1>2

(* Whom the gateway holds: it takes on a client only in a handshake.       *)
LEMMA BroadcastTargets ==
    ASSUME NEW rest, NEW clients, Broadcast(rest, clients)
    PROVE  targets' \subseteq clients
BY DEF Broadcast, NextCall

LEMMA GatewayHolds ==
    ASSUME [Next]_vars
    PROVE  \/ active' \cup targets' \subseteq active \cup targets
           \/ \E k \in Sockets : Accept(k)
<1>1. CASE Announce \/ GatewayBoot \/ Ask \/ ReadNothing \/ ReadRaises \/ GatewayStop
  BY <1>1 DEF Announce, GatewayBoot, Ask, ReadNothing, ReadRaises, GatewayStop,
              NextCall, reader
<1>2. CASE Read
  BY <1>2, BroadcastTargets DEF Read
<1>3. ASSUME NEW k \in Sockets, Send(k)
      PROVE  active' \cup targets' \subseteq active \cup targets
  <2>1. PICK failed \in {gone, gone \cup {k}} :
            IF Remaining(k, failed) # {}
            THEN targets' = Remaining(k, failed) /\ active' = active
            ELSE active' = active \ failed /\ Broadcast(batch, active \ failed)
    BY <1>3 DEF Send
  <2> QED  BY <2>1, BroadcastTargets DEF Remaining
<1>4. ASSUME NEW k \in Sockets, Disconnect(k)
      PROVE  active' \cup targets' \subseteq active \cup targets
  BY <1>4 DEF Disconnect, reader
<1>5. CASE UNCHANGED <<stream, reader, active>>
  BY <1>5 DEF reader
<1> QED  BY <1>1, <1>2, <1>3, <1>4, <1>5, ReaderSteps

(* Sending: only a connection that is not gone takes the entry.            *)
LEMMA SendFeed ==
    ASSUME WireType, ReaderType, NEW k \in Sockets, Send(k)
    PROVE  /\ UNCHANGED <<published, overrun, state, joined, dead, broken, got>>
           /\ k \in targets /\ gw = "send"
           /\ feed' = IF Gone(k) THEN feed
                      ELSE [feed EXCEPT ![k] = Append(@, last)]
           /\ dropped' = dropped
BY DEF stream, Send, ghosts

LEMMA NextWireType ==
    ASSUME LiveFeedAssumption, WireType, ReaderType, ReaderShape, ChainShape, [Next]_vars
    PROVE  WireType'
<1>1. CASE GatewayStop
  BY <1>1 DEF GatewayStop, WireType
<1>2. CASE Mount \/ Reconnect
  <2>1. PICK k \in Sockets : state' = [state EXCEPT ![k] = "connecting"]
    BY <1>2, ConnectTakesFree DEF Mount, Reconnect
  <2>2. UNCHANGED <<joined, dead, broken, feed, got>>
    BY <1>2 DEF Mount, Reconnect
  <2> QED  BY <2>1, <2>2 DEF WireType
<1>3. CASE Unmount
  <2>1. wsRef \in Sockets /\ UNCHANGED <<joined, dead, broken, feed, got>>
    BY <1>3 DEF Unmount, ChainShape
  <2>2. state' = state \/ state' = [state EXCEPT ![wsRef] = "closing"]
    BY <1>3 DEF Unmount
  <2> QED  BY <2>1, <2>2 DEF WireType
<1>4. ASSUME NEW k \in Sockets, Send(k)
      PROVE  WireType'
  <2>1. last \in Entries
    BY <1>4 DEF Send, ReaderType, ReaderShape, Entries, LiveFeedAssumption
  <2>2. /\ Append(feed[k], last) \in Seq(Entries)
        /\ Len(Append(feed[k], last)) = Len(feed[k]) + 1
        /\ Len(feed[k]) \in Nat
    BY <2>1, AppendProperties, LenProperties DEF WireType
  <2>3. /\ UNCHANGED <<state, joined, dead, broken, got>>
        /\ \/ feed' = feed
           \/ feed' = [feed EXCEPT ![k] = Append(@, last)]
    BY <1>4, SendFeed
  <2>4. CASE feed' = feed
    BY <2>3, <2>4 DEF WireType
  <2>5. CASE feed' = [feed EXCEPT ![k] = Append(@, last)]
    <3>1. feed' \in [Sockets -> Seq(Entries)]
      BY <2>2, <2>5 DEF WireType
    <3>2. ASSUME NEW j \in Sockets
          PROVE  got[j] <= Len(feed'[j])
      <4>1. got[j] <= Len(feed[j]) /\ got[j] \in Nat
        BY DEF WireType
      <4>2. Len(feed'[j]) = IF j = k THEN Len(feed[k]) + 1 ELSE Len(feed[j])
        BY <2>2, <2>5 DEF WireType
      <4> QED  BY <2>2, <4>1, <4>2
    <3> QED  BY <2>3, <3>1, <3>2 DEF WireType
  <2> QED  BY <2>3, <2>4, <2>5
<1>5. ASSUME NEW k \in Sockets, OnOpen(k) \/ Watchdog(k) \/ Cut(k) \/ Accept(k)
      PROVE  WireType'
  BY <1>5 DEF OnOpen, Watchdog, Cut, Accept, WireType
<1>6. ASSUME NEW k \in Sockets, OnClose(k)
      PROVE  WireType'
  BY <1>6, EmptySeq DEF OnClose, WireType
<1>7. ASSUME NEW k \in Sockets, OnMessage(k)
      PROVE  WireType'
  <2>1. Len(feed[k]) \in Nat /\ got[k] \in Nat /\ got[k] < Len(feed[k])
    BY <1>7, LenProperties DEF OnMessage, WireType
  <2>2. got' = [got EXCEPT ![k] = got[k] + 1]
        /\ UNCHANGED <<state, joined, dead, broken, feed>>
    BY <1>7 DEF OnMessage
  <2> QED  BY <2>1, <2>2 DEF WireType
<1>8. CASE UNCHANGED <<wire, ghosts>>
  BY <1>8 DEF wire, WireType
<1> QED
  BY <1>1, <1>2, <1>3, <1>4, <1>5, <1>6, <1>7, <1>8, WireSteps

LEMMA NextWireShape ==
    ASSUME WireType, WireShape, ReaderType, ChainShape, [Next]_vars
    PROVE  WireShape'
<1>1. \/ active' \cup targets' \subseteq active \cup targets
      \/ \E k \in Sockets : Accept(k)
  BY GatewayHolds
<1>2. CASE GatewayStop
  BY <1>2 DEF GatewayStop, ghosts, WireType, WireShape
<1>3. CASE Mount \/ Reconnect
  <2>1. PICK k \in Sockets : Free(k) /\ state' = [state EXCEPT ![k] = "connecting"]
    BY <1>3, ConnectTakesFree DEF Mount, Reconnect
  <2>2. UNCHANGED <<joined, dead, broken, feed, active, targets, dropped>>
    BY <1>3 DEF Mount, Reconnect, ghosts, reader
  <2>3. k \notin active \cup targets /\ state[k] = "off" /\ k \notin dropped
    BY <2>1 DEF Free, WireShape
  <2> QED  BY <2>1, <2>2, <2>3 DEF WireType, WireShape
<1>4. CASE Unmount
  <2>1. wsRef \in Sockets /\ UNCHANGED <<joined, dead, broken, feed, active, targets>>
    BY <1>4 DEF Unmount, ChainShape, reader
  <2>2. \/ state' = state /\ dropped' = dropped
        \/ /\ state[wsRef] # "off" /\ state' = [state EXCEPT ![wsRef] = "closing"]
           /\ dropped' = dropped \cup {wsRef}
    BY <1>4 DEF Unmount
  <2>3. CASE state' = state /\ dropped' = dropped
    BY <2>1, <2>3 DEF WireShape
  <2>4. CASE /\ state[wsRef] # "off" /\ state' = [state EXCEPT ![wsRef] = "closing"]
             /\ dropped' = dropped \cup {wsRef}
    <3>1. \A k \in Sockets : state'[k] = "off" <=> state[k] = "off"
      BY <2>1, <2>4 DEF WireType
    <3>2. \A k \in dropped' : k \in Sockets /\ state'[k] = "closing"
      BY <2>1, <2>4 DEF WireType, WireShape
    <3>3. \A k \in active \cup targets : k \in Sockets
      BY DEF ReaderType
    <3> QED  BY <2>1, <3>1, <3>2, <3>3 DEF WireShape
  <2> QED  BY <2>2, <2>3, <2>4
<1>5. ASSUME NEW k \in Sockets, Send(k)
      PROVE  WireShape'
  <2>1. Gone(k) \/ k \in joined
    BY <1>5 DEF Send, WireShape, Gone
  <2>2. active' \cup targets' \subseteq active \cup targets
    BY <1>1, <1>5 DEF Send, Accept, reader
  <2> QED  BY <1>5, <2>1, <2>2, SendFeed DEF WireType, WireShape
<1>6. ASSUME NEW k \in Sockets, OnOpen(k) \/ Watchdog(k) \/ Cut(k) \/ OnMessage(k)
      PROVE  WireShape'
  <2>1. /\ UNCHANGED <<joined, feed, active, targets, dropped>>
        /\ state[k] # "off"
        /\ state' = state \/ \E s \in {"open", "closing"} : state' = [state EXCEPT ![k] = s]
    BY <1>6 DEF OnOpen, Watchdog, Cut, OnMessage, reader, ghosts
  <2>2. /\ dead' \subseteq dead \cup {k} /\ broken' \subseteq broken \cup {k}
        /\ state' # state => state[k] # "closing"
    BY <1>6 DEF OnOpen, Watchdog, Cut, OnMessage
  <2>3. \A j \in Sockets : state'[j] = "off" <=> state[j] = "off"
    BY <2>1 DEF WireType
  <2>4. \A j \in dropped : j \in Sockets /\ state'[j] = "closing"
    BY <2>1, <2>2 DEF WireType, WireShape
  <2>5. \A j \in active \cup targets : j \in Sockets
    BY DEF ReaderType
  <2> QED  BY <2>1, <2>2, <2>3, <2>4, <2>5 DEF WireShape
<1>7. ASSUME NEW k \in Sockets, Accept(k)
      PROVE  WireShape'
  BY <1>7 DEF Accept, reader, ghosts, WireType, WireShape
<1>8. ASSUME NEW k \in Sockets, OnClose(k)
      PROVE  WireShape'
  BY <1>8 DEF OnClose, reader, WireType, WireShape
<1>9. CASE UNCHANGED <<wire, ghosts>>
  <2>1. ~ \E k \in Sockets : Accept(k) /\ k \notin joined'
    BY <1>9 DEF Accept
  <2>2. active' \cup targets' \subseteq active \cup targets
    BY <1>1, <1>9, <2>1 DEF Accept, wire
  <2> QED  BY <1>9, <2>2 DEF wire, ghosts, WireShape
<1> QED
  BY <1>2, <1>3, <1>4, <1>5, <1>6, <1>7, <1>8, <1>9, WireSteps

----------------------------------------------------------------------------
(* The feeds.                                                              *)
LEMMA NextFeedsFormed ==
    ASSUME LiveFeedAssumption, ReaderType, ReaderShape, WireType, WireShape,
           FeedsFormed, FeedsEnd, [Next]_vars
    PROVE  FeedsFormed'
<1>0. overrun \subseteq overrun'
  <2>1. CASE Announce \/ Read \/ GatewayStop \/ Ask
    BY <2>1 DEF Announce, Read, GatewayStop, Ask
  <2> QED
    BY <2>1, ReaderSteps DEF GatewayBoot, ReadNothing, ReadRaises, Send, Accept,
       Disconnect, stream
<1>1. published' >= published /\ published \in Nat /\ published' \in Nat
  <2>1. published' = published \/ published' = published + 1
    BY ListSteps DEF Announce, Answer, OnMessage, stream
  <2> QED  BY <2>1 DEF ReaderType, LiveFeedAssumption
<1>2. ASSUME feed' = feed
      PROVE  FeedsFormed'
  <2>1. \A j \in Sockets : \A i \in 1 .. Len(feed[j]) : feed[j][i] \in Nat
    BY ElementOfSeq DEF WireType, Entries
  <2> QED  BY <1>0, <1>1, <1>2, <2>1 DEF FeedsFormed, Follows
<1>3. CASE GatewayStop \/ Mount \/ Reconnect \/ Unmount
  BY <1>2, <1>3 DEF GatewayStop, Mount, Reconnect, Unmount
<1>4. ASSUME NEW k \in Sockets,
             Accept(k) \/ OnOpen(k) \/ Watchdog(k) \/ Cut(k) \/ OnMessage(k)
      PROVE  FeedsFormed'
  BY <1>2, <1>4 DEF Accept, OnOpen, Watchdog, Cut, OnMessage
<1>5. ASSUME NEW k \in Sockets, OnClose(k)
      PROVE  FeedsFormed'
  <2>1. feed' = [feed EXCEPT ![k] = <<>>] /\ UNCHANGED <<published, overrun>>
    BY <1>5 DEF stream, OnClose
  <2>2. /\ \A j \in Sockets \ {k} : feed'[j] = feed[j]
        /\ feed'[k] = <<>> /\ Len(feed'[k]) = 0
    BY <2>1 DEF WireType
  <2> QED  BY <2>1, <2>2 DEF FeedsFormed, Follows
<1>6. ASSUME NEW k \in Sockets, Send(k)
      PROVE  FeedsFormed'
  <2>1. CASE Gone(k)
    BY <1>2, <1>6, <2>1, SendFeed
  <2>2. CASE ~Gone(k)
    <3>1. /\ feed' = [feed EXCEPT ![k] = Append(@, last)]
          /\ UNCHANGED <<published, overrun>> /\ k \in targets
      BY <1>6, <2>2, SendFeed
    <3>2. last \in Entries /\ last <= published
      BY <1>6 DEF Send, ReaderType, ReaderShape, Entries, LiveFeedAssumption
    <3> DEFINE s == feed[k]
    <3>3. /\ s \in Seq(Entries) /\ Len(s) \in Nat
          /\ feed'[k] = Append(s, last) /\ Len(feed'[k]) = Len(s) + 1
          /\ \A i \in 1 .. Len(s) : feed'[k][i] = s[i]
          /\ feed'[k][Len(s) + 1] = last
      BY <3>1, <3>2, AppendProperties, LenProperties DEF WireType
    <3>4. Len(s) > 0 => Follows(s[Len(s)], last)
      <4>1. Len(s) > 0 => s # <<>> /\ Last(s) = s[Len(s)]
        BY EmptySeq DEF Last
      <4> QED  BY <2>2, <3>1, <4>1 DEF FeedsEnd
    <3>5. \A i \in 1 .. Len(feed'[k]) : feed'[k][i] <= published
      <4>1. \A i \in 1 .. Len(s) : s[i] <= published
        BY DEF FeedsFormed
      <4>2. \A i \in 1 .. Len(s) + 1 : i \in 1 .. Len(s) \/ i = Len(s) + 1
        BY <3>3
      <4> QED  BY <3>2, <3>3, <4>1, <4>2
    <3>6. \A i \in 2 .. Len(feed'[k]) : Follows(feed'[k][i - 1], feed'[k][i])
      <4>1. \A i \in 2 .. Len(s) : Follows(s[i - 1], s[i])
        BY DEF FeedsFormed
      <4>2. ASSUME NEW i \in 2 .. Len(s)
            PROVE  Follows(feed'[k][i - 1], feed'[k][i])
        <5>1. i \in 1 .. Len(s) /\ i - 1 \in 1 .. Len(s)
          BY <3>3
        <5>2. feed'[k][i - 1] = s[i - 1] /\ feed'[k][i] = s[i]
          BY <3>3, <5>1
        <5> QED  BY <4>1, <5>2
      <4>3. ASSUME Len(s) + 1 \in 2 .. Len(s) + 1
            PROVE  Follows(feed'[k][Len(s) + 1 - 1], feed'[k][Len(s) + 1])
        <5>1. Len(s) > 0 /\ Len(s) + 1 - 1 = Len(s) /\ Len(s) \in 1 .. Len(s)
          BY <3>3, <4>3
        <5>2. feed'[k][Len(s) + 1 - 1] = s[Len(s)] /\ feed'[k][Len(s) + 1] = last
          BY <3>3, <5>1
        <5> QED  BY <3>4, <5>1, <5>2
      <4>4. \A i \in 2 .. Len(s) + 1 : i \in 2 .. Len(s) \/ i = Len(s) + 1
        BY <3>3
      <4> QED  BY <3>3, <4>2, <4>3, <4>4
    <3>7. \A j \in Sockets \ {k} : feed'[j] = feed[j]
      BY <3>1 DEF WireType
    <3> QED  BY <3>1, <3>5, <3>6, <3>7 DEF FeedsFormed, Follows
  <2> QED  BY <2>1, <2>2
<1>7. CASE UNCHANGED <<wire, ghosts>>
  BY <1>2, <1>7 DEF wire
<1> QED  BY <1>3, <1>4, <1>5, <1>6, <1>7, WireSteps

(* Steps that do not touch the gateway: no connection comes back, and one  *)
(* that is not gone keeps what was sent over it.                           *)
KeepsFeeds ==
    \A k \in active \cup targets : ~Gone(k)' => ~Gone(k) /\ feed'[k] = feed[k]

LEMMA PageKeepsFeeds ==
    ASSUME ReaderType, WireType, ChainShape,
           \/ Mount \/ Reconnect \/ Unmount
           \/ \E k \in Sockets : OnOpen(k) \/ OnClose(k) \/ Watchdog(k) \/ Cut(k)
                                 \/ OnMessage(k)
           \/ UNCHANGED wire
    PROVE  KeepsFeeds
<1>1. \A k \in active \cup targets : k \in Sockets
  BY DEF ReaderType
<1>2. CASE Mount \/ Reconnect
  <2>1. PICK k \in Sockets : Free(k) /\ state' = [state EXCEPT ![k] = "connecting"]
    BY <1>2, ConnectTakesFree DEF Mount, Reconnect
  <2>2. UNCHANGED <<dead, broken, feed>> /\ k \notin active \cup targets
    BY <1>2, <2>1 DEF Mount, Reconnect, Free
  <2>3. \A j \in active \cup targets : state'[j] = state[j]
    BY <1>1, <2>1, <2>2 DEF WireType
  <2> QED  BY <2>2, <2>3 DEF KeepsFeeds, Gone
<1>3. CASE Unmount
  <2>1. wsRef \in Sockets /\ UNCHANGED <<dead, broken, feed>>
    BY <1>3 DEF Unmount, ChainShape
  <2>2. state' = state \/ state' = [state EXCEPT ![wsRef] = "closing"]
    BY <1>3 DEF Unmount
  <2>3. \A j \in Sockets : state'[j] = state[j] \/ state'[j] = "closing"
    BY <2>1, <2>2 DEF WireType
  <2> QED  BY <1>1, <2>1, <2>3 DEF KeepsFeeds, Gone
<1>4. ASSUME NEW k \in Sockets, OnOpen(k) \/ Watchdog(k) \/ Cut(k) \/ OnMessage(k)
      PROVE  KeepsFeeds
  <2>1. /\ feed' = feed /\ dead \subseteq dead' /\ broken \subseteq broken'
        /\ \/ state' = state \/ state' = [state EXCEPT ![k] = "closing"]
           \/ state[k] = "connecting" /\ state' = [state EXCEPT ![k] = "open"]
    BY <1>4 DEF OnOpen, Watchdog, Cut, OnMessage
  <2>2. \A j \in Sockets : \/ state'[j] = state[j] \/ state'[j] = "closing"
                           \/ state[j] = "connecting"
    BY <2>1 DEF WireType
  <2> QED  BY <1>1, <2>1, <2>2 DEF KeepsFeeds, Gone
<1>5. ASSUME NEW k \in Sockets, OnClose(k)
      PROVE  KeepsFeeds
  <2>1. /\ feed' = [feed EXCEPT ![k] = <<>>] /\ state' = [state EXCEPT ![k] = "off"]
        /\ dead' = dead \ {k} /\ broken' = broken \ {k}
    BY <1>5 DEF OnClose
  <2>2. state'[k] = "off" /\ \A j \in Sockets \ {k} : state'[j] = state[j] /\ feed'[j] = feed[j]
    BY <2>1 DEF WireType
  <2> QED  BY <1>1, <2>1, <2>2 DEF KeepsFeeds, Gone
<1>6. CASE UNCHANGED wire
  BY <1>6 DEF wire, KeepsFeeds, Gone
<1> QED  BY <1>2, <1>3, <1>4, <1>5, <1>6

(* A new broadcast: every client's feed ends at the last entry of the one  *)
(* before, and the entries to come continue it.                            *)
EndAt(clients, e) ==
    \A k \in clients : ~Gone(k)' /\ feed'[k] # <<>> => Last(feed'[k]) = e

LEMMA BroadcastEnds ==
    ASSUME ReaderType, NEW rest, NEW b, Continues(rest, b),
           NEW clients, Broadcast(rest, clients), active' = clients,
           EndAt(clients, last),
           \A k \in clients : ~Gone(k)' /\ feed'[k] # <<>> =>
              last <= b /\ last + 1 .. b \subseteq overrun'
    PROVE  FeedsEnd'
<1>1. last \in Nat
  BY DEF ReaderType
<1>2. CASE rest = <<>>
  BY <1>1, <1>2 DEF Broadcast, NextCall, FeedsEnd, EndAt
<1>3. CASE rest # <<>> /\ clients = {}
  BY <1>3 DEF Broadcast, NextCall, FeedsEnd
<1>4. CASE rest # <<>> /\ clients # {}
  <2>1. targets' = clients /\ last' = b + 1
    BY <1>4, HeadContinues DEF Broadcast
  <2>2. ASSUME NEW k \in clients, ~Gone(k)', feed'[k] # <<>>
        PROVE  Follows(Last(feed[k]), last)'
    <3>1. Last(feed'[k]) = last  BY <2>2 DEF EndAt
    <3>2. b \in Nat /\ last < b + 1 /\ last + 1 .. (b + 1) - 1 \subseteq overrun'
      BY <1>1, <2>2 DEF Continues
    <3> QED  BY <2>1, <3>1, <3>2 DEF Follows
  <2> QED  BY <2>1, <2>2 DEF FeedsEnd
<1> QED  BY <1>2, <1>3, <1>4

LEMMA FeedEndsAtEntry ==
    ASSUME WireType, NEW k \in Sockets, feed[k] # <<>>
    PROVE  Last(feed[k]) \in Nat \ {0}
<1>1. Len(feed[k]) \in 1 .. Len(feed[k])
  BY EmptySeq DEF WireType
<1>2. feed[k][Len(feed[k])] \in Entries
  BY <1>1, ElementOfSeq DEF WireType
<1> QED  BY <1>2 DEF Last, Entries

LEMMA NextFeedsEnd ==
    ASSUME LiveFeedAssumption, ReaderType, ReaderShape, WireType, WireShape,
           ChainShape, FeedsEnd, [Next]_vars
    PROVE  FeedsEnd'
<1>0. targets \cup active \subseteq Sockets
  BY DEF ReaderType
<1>1. CASE Announce \/ GatewayBoot \/ Ask
  BY <1>1 DEF Announce, GatewayBoot, Ask, stream, wire, reader, FeedsEnd, Follows,
              Gone
<1>2. CASE Read
  <2>1. PICK n \in Past + 1 .. Past + Count :
            n <= published /\ Broadcast(Reply(n), active)
    BY <1>2 DEF Read
  <2>2. n \in Nat /\ Past < n
    BY <2>1, PastFacts DEF LiveFeedAssumption
  <2>3. Continues(Reply(n), Past)
    BY <2>1, <2>2, ReplyContinues
  <2>4. UNCHANGED <<active, feed, dead, broken, state>> /\ gw = "read"
    BY <1>2 DEF Read, wire
  <2>5. EndAt(active, last)
    BY <2>4 DEF EndAt, FeedsEnd, Gone, ReaderType
  <2>6. \A k \in active : ~Gone(k)' /\ feed'[k] # <<>> =>
           last <= Past /\ last + 1 .. Past \subseteq overrun'
    <3> SUFFICES ASSUME NEW k \in active, ~Gone(k)', feed'[k] # <<>>
                 PROVE  last <= Past /\ last + 1 .. Past \subseteq overrun'
      OBVIOUS
    <3>1. from = last /\ last \in Nat \ {0}
      BY <1>0, <2>4, <2>5, FeedEndsAtEntry DEF EndAt, ReaderShape
    <3> QED  BY <1>2, <3>1, PastFacts DEF Read
  <2> QED  BY <2>1, <2>3, <2>4, <2>5, <2>6, BroadcastEnds
<1>3. CASE ReadNothing \/ ReadRaises
  BY <1>3 DEF ReadNothing, ReadRaises, NextCall, wire, FeedsEnd, Gone, ReaderType
<1>4. CASE GatewayStop
  BY <1>4 DEF GatewayStop, FeedsEnd
<1>5. ASSUME NEW k \in Sockets, Accept(k)
      PROVE  FeedsEnd'
  <2>1. /\ UNCHANGED <<overrun, last, targets, state, dead, broken, feed>>
        /\ active' = active \cup {k} /\ feed[k] = <<>>
    BY <1>5 DEF Accept, stream, reader, WireShape
  <2> QED  BY <2>1 DEF FeedsEnd, Follows, Gone
<1>6. ASSUME NEW k \in Sockets, Disconnect(k)
      PROVE  FeedsEnd'
  BY <1>6 DEF Disconnect, stream, reader, wire, FeedsEnd, Follows, Gone
<1>7. ASSUME NEW k \in Sockets, Send(k)
      PROVE  FeedsEnd'
  <2>1. PICK failed \in {gone, gone \cup {k}} :
            IF Remaining(k, failed) # {}
            THEN /\ targets' = Remaining(k, failed)
                 /\ UNCHANGED <<gw, last, from, batch, active>>
            ELSE active' = active \ failed /\ Broadcast(batch, active \ failed)
    BY <1>7 DEF Send
  <2>2. /\ UNCHANGED <<published, overrun, state, dead, broken>> /\ k \in targets
        /\ feed' = IF Gone(k) THEN feed ELSE [feed EXCEPT ![k] = Append(@, last)]
    BY <1>7, SendFeed
  <2>3. \A j \in Sockets : Gone(j)' <=> Gone(j)
    BY <2>2 DEF Gone
  <2>4. last \in Entries
    BY <1>7 DEF Send, ReaderType, ReaderShape, Entries, LiveFeedAssumption
  <2>5. ~Gone(k) => Last(feed'[k]) = last
    <3>1. feed[k] \in Seq(Entries) /\ (~Gone(k) => feed'[k] = Append(feed[k], last))
      BY <2>2 DEF WireType
    <3>2. /\ Len(Append(feed[k], last)) = Len(feed[k]) + 1
          /\ Append(feed[k], last)[Len(feed[k]) + 1] = last
      BY <2>4, <3>1, AppendProperties
    <3> QED  BY <3>1, <3>2 DEF Last
  <2>6. \A j \in Sockets \ {k} : feed'[j] = feed[j]
    BY <2>2 DEF WireType
  <2>7. \A j \in (active \cup {k}) \ (targets \ {k}) :
           ~Gone(j)' /\ feed'[j] # <<>> => Last(feed'[j]) = last
    BY <1>0, <2>3, <2>5, <2>6 DEF FeedsEnd
  <2>8. CASE Remaining(k, failed) # {}
    <3>1. targets' = targets \ {k} /\ active' = active /\ last' = last
      BY <2>1, <2>8 DEF Remaining
    <3>2. \A j \in targets \ {k} :
             ~Gone(j)' /\ feed'[j] # <<>> => Follows(Last(feed'[j]), last)
      BY <1>0, <2>3, <2>6 DEF FeedsEnd
    <3> QED  BY <2>2, <2>7, <3>1, <3>2 DEF FeedsEnd, Follows
  <2>9. CASE Remaining(k, failed) = {}
    <3>1. active' = active \ failed /\ Broadcast(batch, active') /\ targets \ {k} = {}
      BY <2>1, <2>9 DEF Remaining
    <3>2. EndAt(active', last)
      BY <2>7, <3>1 DEF EndAt
    <3>3. last <= last /\ last + 1 .. last \subseteq overrun'
      BY DEF ReaderType
    <3>4. Continues(batch, last)  BY BatchContinues
    <3> QED  BY <3>1, <3>2, <3>3, <3>4, BroadcastEnds
  <2> QED  BY <2>8, <2>9
<1>8. CASE UNCHANGED <<stream, reader, active>>
  <2>1. ASSUME KeepsFeeds
        PROVE  FeedsEnd'
    BY <1>8, <2>1 DEF KeepsFeeds, FeedsEnd, Follows, reader, stream
  <2> QED  BY <1>4, <1>5, <1>7, <2>1, PageKeepsFeeds, WireSteps
<1> QED
  BY <1>1, <1>2, <1>3, <1>4, <1>5, <1>6, <1>7, <1>8, ReaderSteps

----------------------------------------------------------------------------
(* The hook: its refs and timers, and the chain of its connections.        *)
LEMMA NextHookType ==
    ASSUME LiveFeedAssumption, WireType, HookType, ChainShape, [Next]_vars
    PROVE  HookType'
<1>1. CASE Mount \/ Reconnect
  <2>1. PICK k \in Sockets : /\ Free(k) /\ wsRef' = k
                             /\ state' = [state EXCEPT ![k] = "connecting"]
    BY <1>1, ConnectTakesFree DEF Mount, Reconnect
  <2>2. \A j \in beating : j \in Sockets /\ state'[j] = state[j]
    BY <2>1 DEF Free, WireType, HookType
  <2>3. CASE Mount
    BY <2>1, <2>2, <2>3 DEF Mount, HookType
  <2>4. CASE Reconnect
    <3>1. timers' = timers - 1 /\ timers > 0 /\ timers \in Nat
      BY <2>4 DEF Reconnect, HookType
    <3>2. \/ armed' = FALSE
          \/ armed' = armed /\ timers > IF armed THEN 1 ELSE 0
      BY <2>4 DEF Reconnect
    <3>3. timers' \in Nat /\ armed' \in BOOLEAN /\ (armed' => timers' > 0)
      <4>1. CASE armed' = FALSE
        <5>1. timers' \in Nat
          BY <3>1
        <5> QED  BY <4>1, <5>1
      <4>2. CASE armed = TRUE /\ armed' = armed /\ timers > IF armed THEN 1 ELSE 0
        BY <3>1, <4>2
      <4> QED  BY <3>2, <4>1, <4>2 DEF HookType
    <3>4. UNCHANGED <<mounted, beating, pingRef>>
      BY <2>4 DEF Reconnect
    <3> QED  BY <2>1, <2>2, <3>3, <3>4 DEF HookType
  <2> QED  BY <1>1, <2>3, <2>4
<1>2. CASE Unmount
  <2>1. wsRef \in Sockets
    BY <1>2 DEF Unmount, ChainShape
  <2>2. state' = state \/ state' = [state EXCEPT ![wsRef] = "closing"]
    BY <1>2 DEF Unmount
  <2>3. \A j \in beating : j \in Sockets /\ state'[j] \in {"open", "closing"}
    BY <2>1, <2>2 DEF WireType, HookType
  <2>4. timers' \in Nat
    <3>1. armed \in BOOLEAN /\ timers \in Nat /\ (armed => timers > 0)
      BY DEF HookType
    <3>2. timers' = IF armed THEN timers - 1 ELSE timers
      BY <1>2 DEF Unmount, TimersLeft
    <3> QED  BY <3>1, <3>2
  <2>5. /\ mounted' = FALSE /\ armed' = FALSE /\ wsRef' = wsRef
        /\ beating' \subseteq beating /\ pingRef' = NoSocket
    BY <1>2 DEF Unmount
  <2> QED  BY <2>3, <2>4, <2>5 DEF HookType
<1>3. ASSUME NEW k \in Sockets, OnOpen(k) \/ Watchdog(k)
      PROVE  HookType'
  BY <1>3 DEF OnOpen, Watchdog, Heartbeats, hook, WireType, HookType
<1>4. ASSUME NEW k \in Sockets, OnClose(k)
      PROVE  HookType'
  <2>1. \A j \in beating' : j \in Sockets /\ state'[j] = state[j] /\ j \in beating
    BY <1>4 DEF OnClose, WireType, HookType
  <2> QED  BY <1>4, <2>1 DEF OnClose, Reconnects, HookType
<1>5. CASE UNCHANGED <<state, hook, ghosts>>
  BY <1>5 DEF hook, HookType
<1> QED  BY <1>1, <1>2, <1>3, <1>4, <1>5, HookSteps

LEMMA NextChainShape ==
    ASSUME LiveFeedAssumption, WireType, WireShape, HookType, ChainShape, [Next]_vars
    PROVE  ChainShape'
<1> DEFINE Allowed == late + IF mounted THEN 1 ELSE 0
<1>1. /\ IsFiniteSet(Held) /\ Cardinality(Held) \in Nat /\ timers \in Nat /\ late \in Nat
      /\ Cardinality(Held) + timers <= Allowed
  BY FS_CardinalityType DEF ChainShape, HookType
<1>2. CASE Mount \/ Reconnect
  <2>1. PICK k \in Sockets : /\ Free(k) /\ wsRef' = k
                             /\ state' = [state EXCEPT ![k] = "connecting"]
    BY <1>2, ConnectTakesFree DEF Mount, Reconnect
  <2>2. dropped' = dropped /\ late' = late
    BY <1>2 DEF Mount, Reconnect, ghosts
  <2>3. state'[k] = "connecting" /\ k \notin dropped /\ k \notin Held
    BY <2>1 DEF Free, WireType, WireShape, Held
  <2>4. Held' = Held \cup {k}
    BY <2>1, <2>2, <2>3 DEF WireType, Held
  <2>5. IsFiniteSet(Held') /\ Cardinality(Held') = Cardinality(Held) + 1
    BY <1>1, <2>3, <2>4, FS_AddElement
  <2>6. CASE Mount
    BY <1>1, <2>1, <2>2, <2>3, <2>5, <2>6 DEF Mount, ChainShape
  <2>7. CASE Reconnect
    BY <1>1, <2>1, <2>2, <2>3, <2>5, <2>7 DEF Reconnect, ChainShape
  <2> QED  BY <1>2, <2>6, <2>7
<1>3. CASE Unmount
  <2>1. /\ mounted /\ ~mounted' /\ late' = late /\ timers' = TimersLeft
        /\ wsRef \in Sockets \ dropped /\ (state[wsRef] = "off" => armed)
    BY <1>3 DEF Unmount, ChainShape
  <2>2. /\ timers' \in Nat /\ timers' <= timers
        /\ state[wsRef] = "off" => timers' = timers - 1
    BY <1>1, <2>1 DEF TimersLeft, HookType
  <2>3. CASE state[wsRef] = "off"
    <3>1. Held' = Held
      BY <1>3, <2>3 DEF Unmount, Held
    <3> QED  BY <1>1, <2>1, <2>2, <2>3, <3>1 DEF ChainShape
  <2>4. CASE state[wsRef] # "off"
    <3>1. /\ state' = [state EXCEPT ![wsRef] = "closing"]
          /\ dropped' = dropped \cup {wsRef}
      BY <1>3, <2>4 DEF Unmount
    <3>2. wsRef \in Held
      BY <2>1, <2>4 DEF Held
    <3>3. Held' = Held \ {wsRef}
      BY <2>1, <3>1 DEF WireType, Held
    <3>4. IsFiniteSet(Held') /\ Cardinality(Held') = Cardinality(Held) - 1
      BY <1>1, <3>2, <3>3, FS_RemoveElement
    <3> QED  BY <1>1, <2>1, <2>2, <3>4 DEF ChainShape
  <2> QED  BY <2>3, <2>4
<1>4. ASSUME NEW k \in Sockets, OnOpen(k) \/ Watchdog(k)
      PROVE  ChainShape'
  <2>1. /\ UNCHANGED <<dropped, late, mounted, wsRef, timers, armed>> /\ state[k] # "off"
        /\ \E s \in {"open", "closing"} : state' = [state EXCEPT ![k] = s]
    BY <1>4 DEF OnOpen, Watchdog, hook, ghosts
  <2>2. \A j \in Sockets : state'[j] = "off" <=> state[j] = "off"
    BY <2>1 DEF WireType
  <2>3. Held' = Held
    BY <2>1, <2>2 DEF Held
  <2> QED  BY <2>1, <2>2, <2>3 DEF ChainShape
<1>5. ASSUME NEW k \in Sockets, OnClose(k)
      PROVE  ChainShape'
  <2>1. /\ state[k] # "off" /\ state' = [state EXCEPT ![k] = "off"]
        /\ dropped' = dropped \ {k} /\ UNCHANGED <<mounted, wsRef>>
        /\ timers' = IF mounted THEN timers + 1 ELSE timers
        /\ armed' = (armed \/ mounted)
        /\ late' = IF mounted /\ k \in dropped THEN late + 1 ELSE late
    BY <1>5 DEF OnClose, Refused, Reconnects
  <2>2. Held' = Held \ {k}
    BY <2>1 DEF WireType, Held
  <2>3. k \in Held <=> k \notin dropped
    BY <2>1 DEF Held
  <2>4. /\ IsFiniteSet(Held')
        /\ Cardinality(Held') = Cardinality(Held) - IF k \in Held THEN 1 ELSE 0
    BY <1>1, <2>2, FS_RemoveElement
  <2>5. /\ late' \in Nat
        /\ Cardinality(Held') + timers' <= late' + IF mounted THEN 1 ELSE 0
    BY <1>1, <2>1, <2>3, <2>4
  <2>6. mounted' => wsRef' \in Sockets \ dropped' /\ (state'[wsRef'] = "off" => armed')
    BY <2>1 DEF ChainShape
  <2> QED  BY <2>1, <2>4, <2>5, <2>6 DEF ChainShape
<1>6. CASE UNCHANGED <<state, hook, ghosts>>
  BY <1>6 DEF hook, ghosts, Held, ChainShape
<1> QED  BY <1>2, <1>3, <1>4, <1>5, <1>6, HookSteps

----------------------------------------------------------------------------
(* The list: what onmessage and an answer make of it.                      *)
Listed == IsInjective(shown) /\ shown \in Seq(Entries) /\ Len(shown) <= Cap

LEMMA AddedKeeps ==
    ASSUME LiveFeedAssumption, Listed, NEW e \in Entries,
           NEW s, s = Shortened(Added(e))
    PROVE  /\ s \in Seq(Entries) /\ Len(s) <= Cap /\ IsInjective(s)
           /\ Len(s) >= Len(shown)                 \* a full list stays full
           /\ \/ ToSet(shown) \cup {e} \subseteq ToSet(s)
              \/ Len(s) = Cap
<1>1. /\ shown \in Seq(Entries) /\ Len(shown) \in Nat /\ Len(shown) <= Cap /\ Cap \in Nat \ {0}
      /\ DOMAIN shown = 1 .. Len(shown)
      /\ \A a, b \in 1 .. Len(shown) : shown[a] = shown[b] => a = b
  BY LenProperties DEF Listed, IsInjective, LiveFeedAssumption
<1>2. CASE \E i \in DOMAIN shown : shown[i] = e
  <2>1. s = SubSeq(shown, 1, Len(shown))
    <3>1. Added(e) = shown
      BY <1>2 DEF Added
    <3>2. (IF Len(shown) < Cap THEN Len(shown) ELSE Cap) = Len(shown)
      <4>1. Len(shown) \in Nat /\ Cap \in Nat /\ Len(shown) <= Cap
        BY <1>1
      <4> QED  BY <4>1
    <3> QED  BY <3>1, <3>2 DEF Shortened
  <2>2. s = shown
    BY <1>1, <2>1, SubSeqFull
  <2>3. e \in ToSet(shown)
    BY <1>2 DEF ToSet
  <2>4. ToSet(shown) \cup {e} \subseteq ToSet(s) /\ IsInjective(s)
    BY <2>2, <2>3 DEF Listed
  <2>5. s \in Seq(Entries) /\ Len(s) <= Cap /\ Len(s) >= Len(shown)
    BY <1>1, <2>2
  <2> QED  BY <2>4, <2>5
<1>3. CASE \A i \in DOMAIN shown : shown[i] # e
  <2> DEFINE t == <<e>> \o shown
             n == IF Len(t) < Cap THEN Len(t) ELSE Cap
  <2>1. s = SubSeq(t, 1, n)
    BY <1>3 DEF Added, Shortened
  <2>2. /\ <<e>> \in Seq(Entries) /\ Len(<<e>>) = 1 /\ <<e>>[1] = e
    OBVIOUS
  <2>3. /\ t \in Seq(Entries) /\ Len(t) = 1 + Len(shown)
        /\ \A i \in 1 .. 1 + Len(shown) : t[i] = IF i <= 1 THEN <<e>>[i] ELSE shown[i - 1]
    BY <1>1, <2>2, ConcatProperties
  <2>4. /\ t[1] = e /\ \A i \in 1 .. Len(shown) : t[i + 1] = shown[i]
    <3>1. \A i \in 1 .. Len(shown) : i + 1 \in 1 .. 1 + Len(shown) /\ ~(i + 1 <= 1)
                                     /\ i + 1 - 1 = i
      BY <1>1
    <3>2. 1 \in 1 .. 1 + Len(shown)
      BY <1>1
    <3> HIDE DEF t
    <3> QED  BY <2>2, <2>3, <3>1, <3>2
  <2>5. \A a, b \in 1 .. Len(t) : t[a] = t[b] => a = b
    <3> HIDE DEF t
    <3>1. ASSUME NEW a \in 1 .. Len(t), NEW b \in 1 .. Len(t), t[a] = t[b]
          PROVE  a = b
      <4>1. a > 1 => a - 1 \in 1 .. Len(shown) /\ t[a] = shown[a - 1]
        BY <1>1, <2>3
      <4>2. b > 1 => b - 1 \in 1 .. Len(shown) /\ t[b] = shown[b - 1]
        BY <1>1, <2>3
      <4>3. a > 1 /\ b > 1 => a - 1 = b - 1
        BY <1>1, <3>1, <4>1, <4>2
      <4>4. a > 1 => t[a] # e
        BY <1>1, <1>3, <4>1
      <4>5. b > 1 => t[b] # e
        BY <1>1, <1>3, <4>2
      <4> QED  BY <1>1, <2>3, <2>4, <3>1, <4>3, <4>4, <4>5
    <3> QED  BY <3>1
  <2>6. n \in 1 .. Len(t) /\ n <= Cap /\ (n = Len(t) \/ n = Cap) /\ n >= Len(shown)
    BY <1>1, <2>3
  <2> HIDE DEF t, n
  <2>7. /\ s \in Seq(Entries) /\ Len(s) = n
        /\ \A i \in 1 .. n : s[i] = t[i]
    <3>1. \A i \in 1 .. n : t[i] \in Entries
      BY <1>1, <2>3, <2>6, ElementOfSeq
    <3>2. 1 \in Int /\ n \in Int /\ 1 <= n /\ n - 1 + 1 = n
      BY <2>6
    <3>3. /\ SubSeq(t, 1, n) \in Seq(Entries)
          /\ Len(SubSeq(t, 1, n)) = IF 1 <= n THEN n - 1 + 1 ELSE 0
          /\ \A i \in 1 .. n - 1 + 1 : SubSeq(t, 1, n)[i] = t[1 + i - 1]
      BY <3>1, <3>2, SubSeqProperties
    <3>4. \A i \in 1 .. n : 1 + i - 1 = i
      OBVIOUS
    <3> QED  BY <2>1, <3>2, <3>3, <3>4
  <2>8. DOMAIN s = 1 .. n
    BY <2>7, LenProperties
  <2>9. IsInjective(s)
    <3>1. ASSUME NEW a \in 1 .. n, NEW b \in 1 .. n, s[a] = s[b]
          PROVE  a = b
      <4>1. a \in 1 .. Len(t) /\ b \in 1 .. Len(t)
        BY <2>3, <2>6, <1>1
      <4> QED  BY <2>5, <2>7, <3>1, <4>1
    <3> QED  BY <2>8, <3>1 DEF IsInjective
  <2>10. n = Len(t) => ToSet(shown) \cup {e} \subseteq ToSet(s)
    <3>1. ASSUME n = Len(t), NEW x \in ToSet(shown)
          PROVE  x \in ToSet(s)
      <4>1. PICK i \in 1 .. Len(shown) : shown[i] = x
        BY <1>1, <3>1 DEF ToSet
      <4>2. i + 1 \in 1 .. n
        BY <1>1, <2>3, <3>1
      <4>3. s[i + 1] = x
        BY <2>4, <2>7, <4>1, <4>2
      <4> QED  BY <2>8, <4>2, <4>3 DEF ToSet
    <3>2. e \in ToSet(s)
      <4>1. 1 \in 1 .. n
        BY <2>6
      <4> QED  BY <2>4, <2>7, <2>8, <4>1 DEF ToSet
    <3> QED  BY <3>1, <3>2
  <2> QED  BY <2>6, <2>7, <2>9, <2>10
<1> QED  BY <1>2, <1>3

LEMMA PageListed ==
    ASSUME LiveFeedAssumption, NEW n \in 0 .. published, ReaderType
    PROVE  /\ PageOf(n) \in Seq(Entries) /\ Len(PageOf(n)) <= Cap
           /\ IsInjective(PageOf(n)) /\ ToSet(PageOf(n)) \subseteq 1 .. published
<1> DEFINE m == IF n < Page THEN n ELSE Page
<1>1. /\ n \in Nat /\ m \in 0 .. n /\ m <= Cap /\ Page \in Nat /\ Cap \in Nat
      /\ published \in Nat /\ n <= published /\ published <= MaxEntries
      /\ MaxEntries \in Nat
  BY DEF ReaderType, LiveFeedAssumption
<1>2. PageOf(n) = [i \in 1 .. m |-> n + 1 - i]
  BY DEF PageOf
<1> HIDE DEF m
<1>3. \A i \in 1 .. m : n + 1 - i \in 1 .. published /\ n + 1 - i \in Entries
  BY <1>1 DEF Entries
<1>4. PageOf(n) \in [1 .. m -> Entries]
  BY <1>2, <1>3
<1>5. PageOf(n) \in Seq(Entries)
  BY <1>1, <1>4, SeqDef
<1>6. Len(PageOf(n)) = m
  BY <1>1, <1>2, <1>5, LenProperties
<1>7. IsInjective(PageOf(n))
  BY <1>1, <1>2 DEF IsInjective
<1>8. ToSet(PageOf(n)) \subseteq 1 .. published
  BY <1>2, <1>3 DEF ToSet
<1> QED  BY <1>1, <1>5, <1>6, <1>7, <1>8

LEMMA NextList ==
    ASSUME LiveFeedAssumption, ReaderType, WireType, ListType, FeedsFormed,
           AnswersShape, ListIsExplained, [Next]_vars
    PROVE  ListType' /\ AnswersShape' /\ ListIsExplained'
<1>0. published \in Nat /\ published <= MaxEntries /\ MaxEntries \in Nat
  BY DEF ReaderType, LiveFeedAssumption
<1>1. ASSUME Load, published' = published
      PROVE  ListType' /\ AnswersShape' /\ ListIsExplained'
  <2>1. /\ answers' = [answers EXCEPT ![loads'] = published]
        /\ shown' = shown /\ handled' = handled
    BY <1>1 DEF Load
  <2>2. \A l \in Loads : answers'[l] = answers[l] \/ answers'[l] = published
    BY <2>1 DEF ListType
  <2>3. answers' \in [Loads -> 0 .. MaxEntries \cup {NoAnswer}]
    <3>1. DOMAIN answers' = Loads /\ answers' = [l \in Loads |-> answers'[l]]
      BY <2>1 DEF ListType
    <3>2. \A l \in Loads : answers'[l] \in 0 .. MaxEntries \cup {NoAnswer}
      BY <1>0, <2>2 DEF ListType
    <3> QED  BY <3>1, <3>2
  <2> QED  BY <1>0, <1>1, <2>1, <2>2, <2>3 DEF ListType, AnswersShape, ListIsExplained
<1>2. ASSUME NEW l \in Loads, Answer(l)
      PROVE  ListType' /\ AnswersShape' /\ ListIsExplained'
  <2>1. answers[l] \in 0 .. published
    BY <1>0, <1>2 DEF Answer, ListType, AnswersShape
  <2>2. /\ shown' = PageOf(answers[l]) /\ handled' = ToSet(shown')
        /\ answers' = [answers EXCEPT ![l] = NoAnswer] /\ published' = published
    BY <1>2 DEF stream, Answer
  <2>3. /\ shown' \in Seq(Entries) /\ Len(shown') <= Cap /\ IsInjective(shown')
        /\ handled' \subseteq 1 .. published
    BY <2>1, <2>2, PageListed
  <2>4. answers' \in [Loads -> 0 .. MaxEntries \cup {NoAnswer}]
    BY <2>2 DEF ListType
  <2>5. \A j \in Loads : answers'[j] <= published
    BY <1>0, <2>2 DEF ListType, AnswersShape, NoAnswer
  <2> QED  BY <2>2, <2>3, <2>4, <2>5 DEF ListType, AnswersShape, ListIsExplained
<1>3. ASSUME NEW k \in Sockets, OnMessage(k)
      PROVE  ListType' /\ AnswersShape' /\ ListIsExplained'
  <2> DEFINE e == feed[k][got[k] + 1]
  <2>1. /\ shown' = Shortened(Added(e)) /\ handled' = handled \cup {e}
        /\ answers' = answers /\ published' = published /\ got[k] < Len(feed[k])
    BY <1>3 DEF stream, OnMessage
  <2>2. got[k] + 1 \in 1 .. Len(feed[k])
    BY <2>1, LenProperties DEF WireType
  <2>3. e \in Entries /\ e <= published
    BY <2>2, ElementOfSeq DEF WireType, FeedsFormed
  <2>4. e \in 1 .. published
    BY <1>0, <2>3 DEF Entries
  <2>5. Listed
    BY DEF Listed, ListType, ListIsExplained
  <2> HIDE DEF e
  <2>6. /\ shown' \in Seq(Entries) /\ Len(shown') <= Cap /\ IsInjective(shown')
        /\ \/ ToSet(shown) \cup {e} \subseteq ToSet(shown')
           \/ Len(shown') = Cap
        /\ Len(shown') >= Len(shown)
    BY <2>1, <2>3, <2>5, AddedKeeps
  <2>7. ListType' /\ AnswersShape'
    BY <2>1, <2>4, <2>6 DEF ListType, AnswersShape
  <2>8. CASE handled \subseteq ToSet(shown)
    <3>1. handled' \subseteq ToSet(shown') \/ Len(shown') = Cap
      BY <2>1, <2>6, <2>8
    <3> QED  BY <2>6, <2>7, <3>1 DEF ListIsExplained, IsInjective, ToSet
  <2>9. CASE Len(shown) = Cap
    <3>1. Len(shown') \in Nat /\ Cap \in Nat
      BY <2>6, LenProperties DEF LiveFeedAssumption
    <3>2. Len(shown') = Cap
      BY <2>6, <2>9, <3>1
    <3> QED  BY <2>6, <2>7, <3>2 DEF ListIsExplained, IsInjective
  <2> QED  BY <2>7, <2>8, <2>9 DEF ListIsExplained
<1>4. CASE UNCHANGED list /\ (published' = published \/ Announce)
  <2>1. UNCHANGED <<shown, answers, handled>> /\ published' \in {published, published + 1}
    BY <1>4 DEF list, Announce
  <2>2. 1 .. published \subseteq 1 .. published' /\ \A i \in Int : i <= published => i <= published'
    BY <1>0, <2>1
  <2>3. \A l \in Loads : answers[l] \in Int
    BY DEF ListType, NoAnswer
  <2>4. ListIsExplained'
    BY <2>1 DEF ListIsExplained, IsInjective, ToSet
  <2> QED  BY <2>1, <2>2, <2>3, <2>4 DEF ListType, AnswersShape
<1> QED  BY <1>1, <1>2, <1>3, <1>4, ListSteps

----------------------------------------------------------------------------
LEMMA InitLive ==
    ASSUME LiveFeedAssumption, Init
    PROVE  LiveInv
<1> USE DEF Init
<1>1. ReaderType
  BY EmptySeq DEF ReaderType, LiveFeedAssumption
<1>2. WireType
  BY EmptySeq DEF WireType
<1>3. HookType
  BY DEF HookType
<1>4. ListType
  BY EmptySeq DEF ListType, NoAnswer, LiveFeedAssumption
<1>5. WireShape /\ FeedsEnd
  BY DEF WireShape, FeedsEnd
<1>6. ReaderShape
  BY EmptySeq, LenProperties DEF ReaderShape, ReaderType, LiveFeedAssumption
<1>7. FeedsFormed
  BY EmptySeq DEF FeedsFormed
<1>8. AnswersShape
  BY DEF AnswersShape, NoAnswer
<1>9. ChainShape
  <2>1. Held = {}
    BY DEF Held
  <2> QED  BY <2>1, FS_EmptySet DEF ChainShape
<1>10. ListIsExplained
  BY DEF ListIsExplained, IsInjective, ToSet
<1> QED
  BY <1>1, <1>2, <1>3, <1>4, <1>5, <1>6, <1>7, <1>8, <1>9, <1>10 DEF LiveInv

LEMMA NextLive ==
    ASSUME LiveFeedAssumption, LiveInv, [Next]_vars
    PROVE  LiveInv'
<1>1. ReaderType' /\ ReaderShape'
  BY NextReaderShape DEF LiveInv
<1>2. WireType' /\ WireShape'
  BY NextWireType, NextWireShape DEF LiveInv
<1>3. HookType' /\ ChainShape'
  BY NextHookType, NextChainShape DEF LiveInv
<1>4. FeedsFormed' /\ FeedsEnd'
  BY NextFeedsFormed, NextFeedsEnd DEF LiveInv
<1>5. ListType' /\ AnswersShape' /\ ListIsExplained'
  BY NextList DEF LiveInv
<1> QED  BY <1>1, <1>2, <1>3, <1>4, <1>5 DEF LiveInv

LEMMA LiveInvariant == Spec => []LiveInv
<1>1. Init => LiveInv
  BY InitLive, LiveFeedAssumption
<1>2. LiveInv /\ [Next]_vars => LiveInv'
  BY NextLive, LiveFeedAssumption
<1> QED  BY <1>1, <1>2, PTL DEF Spec

(* Every variable keeps its type: last and from stay within the stream,    *)
(* armed has a pending timer behind it, and a feed is read to its end at   *)
(* most (websocket.py:51-66, useWebSocket.ts:69-88).                       *)
THEOREM LiveFeedTypes == Spec => []TypeOK
<1>1. LiveInv => TypeOK
  BY TypeParts DEF LiveInv
<1> QED  BY <1>1, LiveInvariant, PTL

(* A page keeps one connection or pending reconnect alive and none after   *)
(* it is left, but for one per late close (useWebSocket.ts:69-76, 83-88).  *)
THEOREM OneConnectionPerPage == Spec => []OneChain
<1>1. LiveInv => OneChain
  <2> SUFFICES ASSUME LiveInv PROVE OneChain  OBVIOUS
  <2>1. Working \subseteq Held
    BY DEF LiveInv, WireShape, Working, Held
  <2>2. /\ IsFiniteSet(Held) /\ timers \in Nat /\ late \in Nat
        /\ Cardinality(Held) + timers <= late + IF mounted THEN 1 ELSE 0
    BY DEF LiveInv, ChainShape, HookType
  <2>3. /\ Cardinality(Working) <= Cardinality(Held)
        /\ Cardinality(Working) \in Nat /\ Cardinality(Held) \in Nat
    BY <2>1, <2>2, FS_Subset, FS_CardinalityType
  <2> QED  BY <2>2, <2>3 DEF OneChain
<1> QED  BY <1>1, LiveInvariant, PTL

(* What is sent over a connection has no gap and ends where the            *)
(* broadcaster is (websocket.py:33-41, 56-61).                             *)
THEOREM FeedsHaveNoGap == Spec => []FeedIsGapless
<1>1. LiveInv => FeedIsGapless
  BY DEF LiveInv, FeedsFormed, FeedsEnd, FeedIsGapless
<1> QED  BY <1>1, LiveInvariant, PTL

(* No trade is on the list twice, and what was put there leaves it only    *)
(* from the end of a full list (dashboardStore.ts:32-36).                  *)
THEOREM ListKeepsTrades == Spec => []ListIsExplained
<1>1. LiveInv => ListIsExplained
  BY DEF LiveInv
<1> QED  BY <1>1, LiveInvariant, PTL

=============================================================================
