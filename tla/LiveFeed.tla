------------------------------ MODULE LiveFeed ------------------------------
(***************************************************************************)
(* The events of the stream `trades` on their way to a page: the           *)
(* broadcaster of the API gateway (src/api-gateway/websocket.py), the hook *)
(* that keeps a WebSocket open (frontend/src/hooks/useWebSocket.ts) and    *)
(* the list of the dashboard, which the hook and the loads over REST both  *)
(* write (store/dashboardStore.ts, pages/Dashboard.tsx).                   *)
(*                                                                         *)
(* Entry e of the stream announces row e of the table.  A socket is a slot *)
(* that is taken again once both ends have given it up.  Of the heartbeat  *)
(* the model keeps which sockets have one; of the backoff nothing, delays  *)
(* have no duration.                                                       *)
(***************************************************************************)
EXTENDS Integers, Sequences, FiniteSets, SequencesExt

CONSTANTS
    Sockets,        \* slots for connections
    NoSocket,
    Count,          \* count of the XREAD
    Cap,            \* length of the list, slice(0, 50)
    Page,           \* page_size of the load
    MaxLen,         \* TRADES_MAXLEN: entries that trimming leaves at least
    MaxEntries,     \* bound: trades
    MaxMounts,      \* bound: mounts of the layout
    MaxLoads,       \* bound: loads of the dashboard
    MaxFaults       \* bound: failures of Redis, the network and the gateway

ASSUME LiveFeedAssumption ==
    /\ NoSocket \notin Sockets
    /\ Count \in Nat \ {0} /\ Cap \in Nat \ {0}
    /\ Page \in 1 .. Cap                   \* page_size=8, slice(0, 50)
    /\ MaxLen \in Nat \ {0} /\ MaxEntries \in Nat
    /\ MaxMounts \in Nat /\ MaxLoads \in Nat /\ MaxFaults \in Nat

Entries == 1 .. MaxEntries
Loads == 1 .. MaxLoads
NoAnswer == -1

VARIABLES
    published,          \* rows of the table, entries of the stream
    trimmed,            \* entries up to it went from the stream unread
    overrun,            \* history: such entries behind one the broadcaster had
    \* the broadcaster: its await, last (0 is "$"), where the XREAD in flight
    \* reads from, the entries left of the reply, the clients left of the broadcast
    gw, last, from, batch, targets, gone,
    active,             \* manager.active
    \* a socket as the page sees it, accepted, dead on the way, closed by the
    \* other end; what was sent over it and how much of that the page handled
    state, joined, dead, broken, feed, got,
    \* the hook: mounted, wsRef, the sockets with a heartbeat, pingRef, pending
    \* reconnects, whether timerRef is one of them
    mounted, wsRef, beating, pingRef, timers, armed,
    shown,              \* the list of trades, newest first
    answers,            \* per load, the rows its answer in flight has seen
    \* history: sockets closed by the cleanup, those of their closes that
    \* came after a new mount; the entries of the last applied answer and
    \* those handled since
    dropped, late, handled,
    mounts, loads, faults

stream  == <<published, trimmed, overrun>>
reader  == <<gw, last, from, batch, targets, gone>>
wire    == <<state, joined, dead, broken, feed, got>>
hook    == <<mounted, wsRef, beating, pingRef, timers, armed>>
list    == <<shown, answers, handled>>
ghosts  == <<dropped, late>>
bounds  == <<mounts, loads, faults>>
vars    == <<stream, reader, active, wire, hook, list, ghosts, bounds>>

Init ==
    /\ published = 0 /\ trimmed = 0 /\ overrun = {}
    /\ gw = "down" /\ last = 0 /\ from = 0 /\ batch = <<>>
    /\ targets = {} /\ gone = {} /\ active = {}
    /\ state = [k \in Sockets |-> "off"] /\ joined = {} /\ dead = {} /\ broken = {}
    /\ feed = [k \in Sockets |-> <<>>] /\ got = [k \in Sockets |-> 0]
    /\ mounted = FALSE /\ wsRef = NoSocket /\ beating = {} /\ pingRef = NoSocket
    /\ timers = 0 /\ armed = FALSE
    /\ shown = <<>> /\ answers = [l \in Loads |-> NoAnswer]
    /\ handled = {}
    /\ dropped = {} /\ late = 0
    /\ mounts = 0 /\ loads = 0 /\ faults = 0

Fault == faults < MaxFaults /\ faults' = faults + 1

----------------------------------------------------------------------------
(* The executor inserts a row and announces it; a load between the two     *)
(* sees what a load just after them sees.  XADD trims approximately: it    *)
(* may drop the oldest entries, read or not, and leaves at least MaxLen    *)
(* (those the broadcaster has been given, or starts behind, are nothing to *)
(* it).                                                                    *)
Given == CASE gw = "read" -> from
           [] gw = "send" -> last + Len(batch)
           [] OTHER -> published
Trims(n) == {t \in trimmed .. n : t = trimmed \/ (Given < t /\ t + MaxLen <= n)}

Announce ==
    /\ published < MaxEntries /\ published' = published + 1
    /\ trimmed' \in Trims(published')
    /\ UNCHANGED <<overrun, reader, active, wire, hook, list, ghosts, bounds>>

----------------------------------------------------------------------------
(* events_broadcaster.                                                     *)
GatewayBoot ==
    /\ gw = "down" /\ gw' = "ask"
    /\ UNCHANGED <<stream, last, from, batch, targets, gone, active,
                   wire, hook, list, ghosts, bounds>>

\* XREAD: "$" is the end of the stream when the call arrives
Ask ==
    /\ gw = "ask" /\ gw' = "read" /\ from' = published /\ trimmed' = 0
    /\ UNCHANGED <<published, overrun, last, batch, targets, gone, active,
                   wire, hook, list, ghosts, bounds>>

(* The next XREAD; with an id it misses nothing between two calls, so the  *)
(* model has it in flight at once.                                         *)
NextCall(id) ==
    /\ last' = id /\ batch' = <<>> /\ targets' = {}
    /\ gw' = IF id = 0 THEN "ask" ELSE "read"
    /\ from' = id

(* The next entry: without clients the loop runs through the rest.         *)
Broadcast(rest, clients) ==
    /\ gone' = {}
    /\ IF rest = <<>> THEN NextCall(last)
       ELSE IF clients = {} THEN NextCall(Last(rest))
       ELSE /\ gw' = "send" /\ batch' = Tail(rest) /\ targets' = clients
            /\ last' = Head(rest) /\ from' = 0

\* what the stream still holds past from
Past == IF trimmed > from THEN trimmed ELSE from
Reply(n) == [i \in 1 .. n - Past |-> Past + i]

Read ==
    /\ gw = "read"
    /\ \E n \in Past + 1 .. Past + Count :
        n <= published /\ Broadcast(Reply(n), active)
    /\ overrun' = overrun \cup IF last > 0 THEN last + 1 .. Past ELSE {}
    /\ trimmed' = 0
    /\ UNCHANGED <<published, active, wire, hook, list, ghosts, bounds>>

\* two seconds without an entry, or entries of the other stream only
ReadNothing ==
    /\ gw = "read" /\ published = from /\ NextCall(last)
    /\ UNCHANGED <<stream, gone, active, wire, hook, list, ghosts, bounds>>

\* after a second's sleep the loop asks again
ReadRaises ==
    /\ gw = "read" /\ Fault /\ NextCall(last)
    /\ UNCHANGED <<stream, gone, active, wire, hook, list, ghosts, mounts, loads>>

(* send_json to one client: a broken connection takes it or raises.        *)
Gone(k) == k \in dead \cup broken \/ state[k] \in {"closing", "off"}

StopsAtDead(k, failed) == IF k \in failed THEN {} ELSE targets \ {k}  \* mutant
Remaining(k, failed) == targets \ {k}

Send(k) ==
    /\ gw = "send" /\ k \in targets
    /\ \E failed \in {gone, gone \cup {k}} :
        /\ failed # gone => Gone(k)
        /\ feed' = IF Gone(k) THEN feed ELSE [feed EXCEPT ![k] = Append(@, last)]
        /\ IF Remaining(k, failed) # {}
           THEN /\ targets' = Remaining(k, failed) /\ gone' = failed
                /\ UNCHANGED <<gw, last, from, batch, active>>
           ELSE /\ active' = active \ failed
                /\ Broadcast(batch, active \ failed)
    /\ UNCHANGED <<stream, state, joined, dead, broken, got, hook, list,
                   ghosts, bounds>>

(* ws_endpoint: a handshake, and a receive that finds the peer gone.       *)
Accept(k) ==
    /\ gw # "down" /\ state[k] = "connecting" /\ k \notin joined \cup broken
    /\ joined' = joined \cup {k} /\ active' = active \cup {k}
    /\ UNCHANGED <<stream, reader, state, dead, broken, feed, got, hook, list,
                   ghosts, bounds>>

Disconnect(k) ==
    /\ k \in active /\ Gone(k)
    /\ active' = active \ {k}
    /\ UNCHANGED <<stream, reader, wire, hook, list, ghosts, bounds>>

\* a shutdown or a crash: every connection breaks
GatewayStop ==
    /\ gw # "down" /\ Fault
    /\ gw' = "down" /\ last' = 0 /\ from' = 0 /\ batch' = <<>>
    /\ targets' = {} /\ gone' = {} /\ active' = {} /\ trimmed' = 0
    /\ broken' = broken \cup {k \in joined : state[k] # "off"}
    /\ UNCHANGED <<published, overrun, state, joined, dead, feed, got, hook,
                   list, ghosts, mounts, loads>>

----------------------------------------------------------------------------
(* useWebSocket.                                                           *)
Free(k) == state[k] = "off" /\ k \notin active \cup targets \cup gone

Connect ==
    /\ \E k \in Sockets : Free(k)
    /\ LET k == CHOOSE j \in Sockets : Free(j) IN
        /\ state' = [state EXCEPT ![k] = "connecting"]
        /\ wsRef' = k

Mount ==
    /\ ~mounted /\ mounts < MaxMounts /\ mounts' = mounts + 1
    /\ mounted' = TRUE
    /\ Connect
    /\ UNCHANGED <<stream, reader, active, joined, dead, broken, feed, got,
                   beating, pingRef, timers, armed, list, ghosts, loads, faults>>

\* one of the pending reconnects is due
Reconnect ==
    /\ timers > 0 /\ timers' = timers - 1
    /\ \/ armed /\ armed' = FALSE
       \/ timers > (IF armed THEN 1 ELSE 0) /\ UNCHANGED armed
    /\ Connect
    /\ UNCHANGED <<stream, reader, active, joined, dead, broken, feed, got,
                   mounted, beating, pingRef, list, ghosts, bounds>>

\* onopen: one heartbeat more, and the refs forget the one before
NoHeartbeat(k) == beating                                       \* mutant
Heartbeats(k) == beating \cup {k}

OnOpen(k) ==
    /\ state[k] = "connecting" /\ k \in joined \ broken
    /\ state' = [state EXCEPT ![k] = "open"]
    /\ beating' = Heartbeats(k) /\ pingRef' = k
    /\ UNCHANGED <<stream, reader, active, joined, dead, broken, feed, got,
                   mounted, wsRef, timers, armed, list, ghosts, bounds>>

(* onclose: after close(), when the other end has closed, or when nobody   *)
(* answers the handshake.  It stops the heartbeat pingRef names and, while *)
(* a page is mounted, any page, arms a reconnect.                          *)
Refused(k) == state[k] = "connecting" /\ gw = "down" /\ k \notin joined

AlwaysReconnects == TRUE                                        \* mutant
Reconnects == mounted

OnClose(k) ==
    /\ \/ state[k] = "closing"
       \/ state[k] # "off" /\ k \in broken
       \/ Refused(k)
    /\ state' = [state EXCEPT ![k] = "off"]
    /\ feed' = [feed EXCEPT ![k] = <<>>] /\ got' = [got EXCEPT ![k] = 0]
    /\ joined' = joined \ {k} /\ dead' = dead \ {k} /\ broken' = broken \ {k}
    /\ beating' = beating \ {pingRef, k} /\ pingRef' = NoSocket
    /\ timers' = IF Reconnects THEN timers + 1 ELSE timers
    /\ armed' = (armed \/ Reconnects)
    /\ late' = IF mounted /\ k \in dropped THEN late + 1 ELSE late
    /\ dropped' = dropped \ {k}
    /\ UNCHANGED <<stream, reader, active, mounted, wsRef, list, bounds>>

\* the watchdog of k: no socket of the page has had any activity
Watchdog(k) ==
    /\ k \in beating \cap dead /\ state[k] = "open"
    /\ \A j \in Sockets : state[j] = "open" => j \in dead
    /\ state' = [state EXCEPT ![k] = "closing"]
    /\ UNCHANGED <<stream, reader, active, joined, dead, broken, feed, got, hook,
                   list, ghosts, bounds>>

\* the cleanup of the effect: the page is left; a timer that has fired
\* leaves nothing to clear
ClearsFired == timers - 1                                       \* mutant
TimersLeft == IF armed THEN timers - 1 ELSE timers

Unmount ==
    /\ mounted /\ mounted' = FALSE
    /\ beating' = beating \ {pingRef} /\ pingRef' = NoSocket
    /\ timers' = TimersLeft /\ armed' = FALSE
    /\ IF state[wsRef] = "off" THEN UNCHANGED <<state, dropped>>
       ELSE /\ state' = [state EXCEPT ![wsRef] = "closing"]
            /\ dropped' = dropped \cup {wsRef}
    /\ UNCHANGED <<stream, reader, active, joined, dead, broken, feed, got,
                   wsRef, list, late, bounds>>

(* The network closes a connection, or drops it without a word.            *)
Cut(k) ==
    /\ state[k] \in {"connecting", "open"} /\ k \notin broken /\ Fault
    /\ \/ broken' = broken \cup {k} /\ UNCHANGED dead
       \/ state[k] = "open" /\ k \notin dead /\ dead' = dead \cup {k} /\ UNCHANGED broken
    /\ UNCHANGED <<stream, reader, active, state, joined, feed, got, hook, list,
                   ghosts, mounts, loads>>

----------------------------------------------------------------------------
(* The list.  onmessage: an event that is not on the list goes in front.   *)
AddsAlways(e) == <<e>> \o shown                                 \* mutant
Added(e) == IF \E i \in DOMAIN shown : shown[i] = e THEN shown ELSE <<e>> \o shown
Shortened(s) == SubSeq(s, 1, IF Len(s) < Cap THEN Len(s) ELSE Cap)

OnMessage(k) ==
    /\ state[k] = "open" /\ k \notin dead /\ got[k] < Len(feed[k])
    /\ LET e == feed[k][got[k] + 1] IN
        /\ got' = [got EXCEPT ![k] = @ + 1]
        /\ shown' = Shortened(Added(e))
        /\ handled' = handled \cup {e}
    /\ UNCHANGED <<stream, reader, active, state, joined, dead, broken, feed,
                   hook, answers, ghosts, bounds>>

(* The dashboard asks for a page of the table; the answer replaces the     *)
(* list whenever it arrives.                                               *)
Load ==
    /\ mounted /\ loads < MaxLoads /\ loads' = loads + 1
    /\ answers' = [answers EXCEPT ![loads'] = published]
    /\ UNCHANGED <<stream, reader, active, wire, hook, shown, handled,
                   ghosts, mounts, faults>>

PageOf(n) == [i \in 1 .. (IF n < Page THEN n ELSE Page) |-> n + 1 - i]

Answer(l) ==
    /\ answers[l] # NoAnswer
    /\ shown' = PageOf(answers[l]) /\ handled' = ToSet(shown')
    /\ answers' = [answers EXCEPT ![l] = NoAnswer]
    /\ UNCHANGED <<stream, reader, active, wire, hook, ghosts, bounds>>

----------------------------------------------------------------------------
GatewayStep ==
    \/ GatewayBoot \/ Ask \/ Read
    \/ \E k \in Sockets : Send(k)

SocketStep(k) == Accept(k) \/ Disconnect(k) \/ OnOpen(k) \/ OnClose(k) \/ Watchdog(k)

PageStep == Reconnect \/ \E k \in Sockets : SocketStep(k) \/ OnMessage(k)

Next ==
    \/ Announce
    \/ GatewayStep \/ ReadNothing \/ ReadRaises \/ GatewayStop
    \/ Mount \/ Unmount \/ PageStep
    \/ \E k \in Sockets : Cut(k)
    \/ Load \/ \E l \in Loads : Answer(l)

(* The gateway is restarted and its broadcaster runs, and so does the rest:*)
(* timers fire, an intact network delivers, events are handled.  Nobody    *)
(* need trade, load or mount.                                              *)
Fairness == WF_vars(GatewayStep) /\ WF_vars(PageStep)

Spec == Init /\ [][Next]_vars /\ Fairness

----------------------------------------------------------------------------
TypeOK ==
    /\ published \in 0 .. MaxEntries /\ trimmed \in 0 .. published
    /\ gw \in {"down", "ask", "read", "send"}
    /\ last \in 0 .. published /\ from \in 0 .. published
    /\ batch \in Seq(Entries)
    /\ (gw = "send") <=> (targets # {})
    /\ targets \cup gone \cup active \subseteq Sockets
    /\ state \in [Sockets -> {"off", "connecting", "open", "closing"}]
    /\ joined \subseteq Sockets /\ dead \subseteq Sockets /\ broken \subseteq Sockets
    /\ feed \in [Sockets -> Seq(Entries)] /\ got \in [Sockets -> Nat]
    /\ \A k \in Sockets : got[k] <= Len(feed[k])
    /\ mounted \in BOOLEAN /\ armed \in BOOLEAN /\ timers \in Nat /\ (armed => timers > 0)
    /\ wsRef \in Sockets \cup {NoSocket} /\ pingRef \in Sockets \cup {NoSocket}
    /\ beating \subseteq {k \in Sockets : state[k] \in {"open", "closing"}}
    /\ shown \in Seq(Entries) /\ Len(shown) <= Cap
    /\ answers \in [Loads -> 0 .. MaxEntries \cup {NoAnswer}]
    /\ handled \subseteq 1 .. published

(* A page keeps one connection, or one pending reconnect, alive and none   *)
(* after it is left.  Each close of a former page's socket that is handled *)
(* after a new mount leaves one more: the effect shares closedRef with the *)
(* one before it (useWebSocket.ts:69-76, 83-88; Layout.tsx:10 has "single").*)
Working == {k \in Sockets : state[k] \in {"connecting", "open"}}
OneChain ==
    Cardinality(Working) + timers <= late + IF mounted THEN 1 ELSE 0

(* What is sent over one connection has no gap but for entries the stream  *)
(* had lost when the broadcaster came to read them, and ends where the     *)
(* broadcaster is: failing reads, failing clients and joining ones leave   *)
(* out no entry for the others (websocket.py:33-41, 56-61).                *)
Follows(d, e) == d < e /\ d + 1 .. e - 1 \subseteq overrun
FeedIsGapless ==
    \A k \in Sockets :
        /\ \A i \in 2 .. Len(feed[k]) : Follows(feed[k][i - 1], feed[k][i])
        /\ k \in active \ targets /\ ~Gone(k) /\ feed[k] # <<>> => Last(feed[k]) = last

(* No trade is on the list twice, whichever of the sockets and the loads   *)
(* brought it; and what a load or an event put there leaves it only from   *)
(* the end of a full list or by a newer answer (dashboardStore.ts:32-36).  *)
ListIsExplained ==
    /\ IsInjective(shown)
    /\ handled \subseteq ToSet(shown) \/ Len(shown) = Cap

Works(k) == k \in active \ (dead \cup broken) /\ state[k] = "open"

(* A mounted page gets a working connection back, a silent one replaced by *)
(* its watchdog (useWebSocket.ts:47-49, 73-75).                            *)
FeedComesBack ==
    mounted ~> (~mounted \/ \E k \in Sockets : Works(k))
=============================================================================
