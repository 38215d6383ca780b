---------------------------- MODULE EventDelivery ----------------------------
(***************************************************************************)
(* How an event reaches a viewer: the live spool of one operation and the  *)
(* committed ledger events are read into an index of delivery positions    *)
(* (FileEventStream); the dashboard's hub pages that index to its clients, *)
(* whose connections write to browsers that reconnect with the last event  *)
(* id they saw; `harness watch` pages an index of its own.                 *)
(***************************************************************************)
EXTENDS Naturals, Sequences, FiniteSets, SequencesExt

CONSTANTS
    Browsers,       \* dashboard pages showing the live stream
    Watchers,       \* `harness watch` processes
    Wanted,         \* the operations each page's connection asks for
    Commits,        \* the ledger events in commit order: [key, op, ts]; key 0 = no observation
    Heavy,          \* ids of events that take twice the bytes
    Oversize,       \* ids of ledger events whose frame exceeds MAX_SSE_FRAME_BYTES
    MaxLive,        \* bound: observations published
    MaxRecords,     \* observations the spool retains
    MaxBuffered,    \* HUB_MAX_BUFFERED_ITEMS
    MaxBytes,       \* HUB_MAX_BUFFERED_BYTES
    DrainTicks,     \* HUB_DRAIN_TIMEOUT_MS, in polls
    PageLimit,      \* items `harness watch` reads at once
    MaxFaults       \* bound: lost connections, unreadable sources and restarts

VARIABLES
    spool,          \* the spool file: its inode, its records, the writer's sequence
    committed,      \* how many of Commits are in the ledger
    stream,         \* the dashboard's FileEventStream
    running,        \* the hub's poll loop
    client,         \* per browser: its connection, hub registration and page
    watch,          \* per watcher: its own stream, cursor and what it saw
    faults
vars == <<spool, committed, stream, running, client, watch, faults>>

NoCursor == [gen |-> 0, pos |-> 0]
Live(n) == [src |-> "live", id |-> n, key |-> n, op |-> "o1", ts |-> n]
Fact(n) == [src |-> "ledger", id |-> n, key |-> Commits[n].key, op |-> Commits[n].op, ts |-> Commits[n].ts]
Items == {Live(n) : n \in 1..MaxLive} \cup {Fact(n) : n \in DOMAIN Commits}

-----------------------------------------------------------------------------
(* The spool: an append, and a rewrite into a new file once it is too long *)
Publish ==
    /\ spool.sequence < MaxLive /\ Len(spool.records) <= MaxRecords
    /\ spool' = [spool EXCEPT !.records = Append(@, Live(spool.sequence + 1)), !.sequence = @ + 1]
    /\ UNCHANGED <<committed, stream, running, client, watch, faults>>
Rotate ==
    /\ Len(spool.records) > MaxRecords
    /\ spool' = [spool EXCEPT !.inode = @ + 1,
                              !.records = SubSeq(@, Len(@) - MaxRecords + 1, Len(@))]
    /\ UNCHANGED <<committed, stream, running, client, watch, faults>>
(* An authoritative event follows the observation whose key it carries.    *)
Commit ==
    /\ committed < Len(Commits) /\ Commits[committed + 1].key <= spool.sequence
    /\ committed' = committed + 1
    /\ UNCHANGED <<spool, stream, running, client, watch, faults>>

-----------------------------------------------------------------------------
(* FileEventStream: what was read of the spool file, and the index.        *)
NewStream(gen) == [inode |-> 0, live |-> <<>>, gen |-> gen, entries |-> <<>>]
ReadLive(s) ==
    IF s.inode = spool.inode /\ Len(spool.records) > Len(s.live)
    THEN s.live \o SubSeq(spool.records, Len(s.live) + 1, Len(spool.records))
    ELSE spool.records

Before(x, y) ==
    \/ x.ts < y.ts
    \/ x.ts = y.ts /\ x.src = "ledger" /\ y.src = "live"
    \/ x.ts = y.ts /\ x.src = y.src /\ x.id < y.id
AddEntries(entries, additions) == entries \o SortSeq(additions, Before)

Superseded(e, keys) == [e EXCEPT !.src = IF e.src = "live" /\ e.key \in keys THEN "gone" ELSE @]
RemoveEntries(entries, keys) == [p \in DOMAIN entries |-> Superseded(entries[p], keys)]

KeysOf(facts) == {f.key : f \in facts} \ {0}
RefreshView(s) ==
    LET live == ReadLive(s)
        facts == [n \in 1..committed |-> Fact(n)]
        keys == KeysOf(ToSet(facts))
        all == facts \o SelectSeq(live, LAMBDA r : r.key \notin keys)
        previous == {e \in ToSet(s.entries) : e.src # "gone"}
        reset == \E e \in previous \ ToSet(all) : ~(e.src = "live" /\ e.key \in keys)
        kept == IF reset THEN <<>> ELSE RemoveEntries(s.entries, keys)
    IN  [inode |-> spool.inode, live |-> live, gen |-> IF reset THEN s.gen + 1 ELSE s.gen,
         entries |-> AddEntries(kept, SelectSeq(all, LAMBDA e : e \notin ToSet(kept)))]

HeadCursor(s) == [gen |-> s.gen, pos |-> Len(s.entries)]
ValidCursor(s, c) == c.gen = s.gen /\ c.pos <= Len(s.entries)
(* The positions of one page, or a reset when a cursor is of another       *)
(* generation.                                                             *)
ReadPage(s, wanted, after, until, limit) ==
    IF ~ValidCursor(s, until) \/ (after # NoCursor /\ ~ValidCursor(s, after))
    THEN [reset |-> TRUE, positions |-> <<>>]
    ELSE LET span == [i \in 1..(until.pos - after.pos) |-> after.pos + i]
             found == SelectSeq(span, LAMBDA p : s.entries[p].src # "gone" /\ s.entries[p].op \in wanted)
         IN  [reset |-> FALSE, positions |-> SubSeq(found, 1, IF limit < Len(found) THEN limit ELSE Len(found))]

-----------------------------------------------------------------------------
(* The hub. A delivery is an item with its cursor, a reset or an error.    *)
Notice(kind) == [kind |-> kind, item |-> Live(1), cursor |-> NoCursor]
Delivery(s, p) == [kind |-> "item", item |-> s.entries[p], cursor |-> [gen |-> s.gen, pos |-> p]]
Bytes(d) == IF d.item.id \in Heavy THEN 2 ELSE 1
QueuedBytes(q) == FoldLeft(LAMBDA sum, d : sum + Bytes(d), 0, q)

(* terminate: the queue is dropped; a parked reader gets the final notice. *)
Terminate(c, final) ==
    [c EXCEPT !.state = "done", !.parked = FALSE,
              !.queue = IF c.parked THEN <<>> ELSE final,
              !.hand = IF c.parked THEN final ELSE @]

Offer(c, d) ==
    IF c.parked THEN [c EXCEPT !.parked = FALSE, !.hand = <<d>>, !.cursor = d.cursor, !.emptied = TRUE]
    ELSE IF Len(c.queue) + 1 > MaxBuffered \/ QueuedBytes(c.queue) + Bytes(d) > MaxBytes THEN Terminate(c, <<>>)
    ELSE [c EXCEPT !.queue = Append(@, d), !.cursor = d.cursor]
DeliverPage(c, s, positions) ==
    FoldLeft(LAMBDA d, p : IF d.state = "done" THEN d ELSE Offer(d, Delivery(s, p)), c, positions)

Capacity(c) == MaxBuffered - Len(c.queue)
PumpCatchUpOnce(c, s, wanted) ==
    LET page == ReadPage(s, wanted, c.cursor, c.head, Capacity(c))
        sent == DeliverPage(c, s, page.positions)
    IN  IF page.reset THEN Terminate(c, <<Notice("reset")>>)
        ELSE IF sent.state # "done" THEN [sent EXCEPT !.cursor = c.head, !.head = NoCursor, !.state = "live"]
        ELSE sent
PumpCatchUp(c, s, wanted) ==
    LET page == ReadPage(s, wanted, c.cursor, c.head, Capacity(c))
        sent == DeliverPage(c, s, page.positions)
    IN  IF Capacity(c) = 0 THEN c
        ELSE IF page.reset THEN Terminate(c, <<Notice("reset")>>)
        ELSE IF sent.state # "done" /\ Len(page.positions) < Capacity(c)
        THEN [sent EXCEPT !.cursor = c.head, !.head = NoCursor, !.state = "live"]
        ELSE sent
PumpLive(c, s, wanted) ==
    LET page == ReadPage(s, wanted, c.cursor, HeadCursor(s), Capacity(c))
        sent == DeliverPage(c, s, page.positions)
    IN  IF Capacity(c) = 0 THEN c
        ELSE IF page.reset THEN Terminate(c, <<Notice("reset")>>)
        ELSE IF page.positions = <<>> THEN [sent EXCEPT !.cursor = HeadCursor(s)]
        ELSE sent
(* Only a queue seen empty right after it was filled ends a stall;         *)
(* `emptied` and `cut` record that a client cut off as stalled had read    *)
(* its whole queue since.                                                  *)
CheckStall(c) ==
    IF c.state = "done" THEN c
    ELSE IF c.queue = <<>> THEN [c EXCEPT !.blocked = 0]
    ELSE IF c.blocked = 0 THEN [c EXCEPT !.blocked = 1, !.emptied = FALSE]
    ELSE IF c.blocked >= DrainTicks THEN [Terminate(c, <<>>) EXCEPT !.cut = c.emptied]
    ELSE [c EXCEPT !.blocked = @ + 1]

Registered(c) == c.conn = "open" /\ c.state # "done"
ServeClient(c, s, wanted) ==
    LET opened == IF c.state = "pending" THEN [c EXCEPT !.state = "catching-up", !.head = HeadCursor(s)] ELSE c
        caught == IF opened.state = "catching-up" THEN PumpCatchUp(opened, s, wanted) ELSE opened
    IN  CheckStall(IF caught.state = "live" THEN PumpLive(caught, s, wanted) ELSE caught)

(* The loop ends with its last client.                                     *)
LoopOver(clients) == running /\ \E b \in Browsers : Registered(clients[b])
Tick ==
    /\ running
    /\ stream' = RefreshView(stream)
    /\ client' = [b \in Browsers |->
                    IF Registered(client[b]) THEN ServeClient(client[b], stream', Wanted[b]) ELSE client[b]]
    /\ running' = LoopOver(client')
    /\ UNCHANGED <<spool, committed, watch, faults>>
(* refreshView throws: the stream is cleared and every client told.        *)
SourceFails ==
    /\ running /\ faults < MaxFaults
    /\ stream' = NewStream(stream.gen + 1)
    /\ client' = [b \in Browsers |->
                    IF Registered(client[b]) THEN Terminate(client[b], <<Notice("error")>>) ELSE client[b]]
    /\ running' = FALSE
    /\ faults' = faults + 1
    /\ UNCHANGED <<spool, committed, watch>>
-----------------------------------------------------------------------------
(* A connection: its writer asks for a delivery at once, and again after   *)
(* every write. The browser keeps the last event id and what it shows.     *)
Closed(c) == [Terminate(c, <<>>) EXCEPT !.conn = "off", !.queue = <<>>, !.hand = <<>>]
Opened(c) ==
    [c EXCEPT !.conn = "open", !.state = "pending", !.cursor = c.last, !.head = NoCursor, !.queue = <<>>,
              !.blocked = 0, !.parked = TRUE, !.hand = <<>>]

EnsureLoop(clients) == TRUE
Connect(b) ==
    /\ client[b].conn = "off"
    /\ client' = [client EXCEPT ![b] = Opened(@)]
    /\ running' = EnsureLoop(client')
    /\ UNCHANGED <<spool, committed, stream, watch, faults>>

Pulled(c) ==
    IF c.queue # <<>> THEN [c EXCEPT !.hand = <<Head(c.queue)>>, !.queue = Tail(@), !.emptied = @ \/ Len(c.queue) = 1]
    ELSE IF c.state = "done" THEN Closed(c)
    ELSE [c EXCEPT !.parked = TRUE]
Take(b) ==
    /\ client[b].conn = "open" /\ ~client[b].parked /\ client[b].hand = <<>>
    /\ client' = [client EXCEPT ![b] = Pulled(@)]
    /\ UNCHANGED <<spool, committed, stream, running, watch, faults>>

(* A reset clears the page, which then connects without an event id; a     *)
(* frame too large ends the page's stream for good.                        *)
Written(c, d) ==
    CASE d.kind = "item" /\ ~(d.item.src = "ledger" /\ d.item.id \in Oversize) ->
             [c EXCEPT !.hand = <<>>, !.last = d.cursor, !.shown = Append(@, d.item)]
      [] d.kind = "item" -> [Closed(c) EXCEPT !.conn = "halted"]
      [] d.kind = "reset" -> [Closed(c) EXCEPT !.last = NoCursor, !.shown = <<>>]
      [] OTHER -> Closed(c)
Write(b) ==
    /\ client[b].hand # <<>>
    /\ client' = [client EXCEPT ![b] = Written(@, Head(@.hand))]
    /\ running' = LoopOver(client')
    /\ UNCHANGED <<spool, committed, stream, watch, faults>>
(* The socket does not drain in time, the network drops or the page is     *)
(* suspended: the browser reconnects with the last id it received.         *)
Disconnect(b) ==
    /\ client[b].conn = "open" /\ faults < MaxFaults
    /\ client' = [client EXCEPT ![b] = Closed(@)]
    /\ running' = LoopOver(client')
    /\ faults' = faults + 1
    /\ UNCHANGED <<spool, committed, stream, watch>>
(* `harness serve` stops and is started again: a new index.                *)
Restart ==
    /\ faults < MaxFaults
    /\ stream' = NewStream(stream.gen + 1)
    /\ client' = [b \in Browsers |-> IF client[b].conn = "open" THEN Closed(client[b]) ELSE client[b]]
    /\ running' = FALSE
    /\ faults' = faults + 1
    /\ UNCHANGED <<spool, committed, watch>>

-----------------------------------------------------------------------------
(* `harness watch --follow`: page to the head, then poll. On a reset the   *)
(* page already is the fresh read.                                         *)
ResumeAt(s, w, reset, positions) ==
    IF positions # <<>> THEN [gen |-> s.gen, pos |-> Last(positions)]
    ELSE IF reset /\ w.following THEN HeadCursor(s)
    ELSE w.cursor
WatchRead(w) ==
    LET s == RefreshView(w.stream)
        from == IF w.following THEN w.cursor ELSE w.next
        page == ReadPage(s, {"o1", "o2"}, from, HeadCursor(s), PageLimit)
        got == IF page.reset THEN ReadPage(s, {"o1", "o2"}, NoCursor, HeadCursor(s), PageLimit) ELSE page
        at == ResumeAt(s, w, page.reset, got.positions)
        more == got.positions # <<>> /\ \E p \in (at.pos + 1)..Len(s.entries) : s.entries[p].src # "gone"
    IN  [stream |-> s, cursor |-> at, next |-> IF more THEN at ELSE NoCursor, following |-> w.following \/ ~more,
         seen |-> (IF page.reset THEN {} ELSE w.seen) \cup {s.entries[p] : p \in ToSet(got.positions)}]
Watch(w) ==
    /\ watch' = [watch EXCEPT ![w] = WatchRead(@)]
    /\ UNCHANGED <<spool, committed, stream, running, client, faults>>

Init ==
    /\ spool = [inode |-> 1, records |-> <<>>, sequence |-> 0]
    /\ committed = 0
    /\ stream = NewStream(1)
    /\ running = FALSE
    /\ client = [b \in Browsers |->
                    [conn |-> "off", state |-> "done", cursor |-> NoCursor, head |-> NoCursor, queue |-> <<>>,
                     blocked |-> 0, parked |-> FALSE, hand |-> <<>>, last |-> NoCursor, shown |-> <<>>,
                     emptied |-> FALSE, cut |-> FALSE]]
    /\ watch = [w \in Watchers |->
                   [stream |-> NewStream(1), cursor |-> NoCursor, next |-> NoCursor, following |-> FALSE, seen |-> {}]]
    /\ faults = 0
(* Every page was told to read a version over REST and waits for its user. *)
Idle == (\A b \in Browsers : client[b].conn = "halted") /\ UNCHANGED vars
Next ==
    \/ Idle \/ Publish \/ Rotate \/ Commit \/ Tick \/ SourceFails \/ Restart
    \/ \E w \in Watchers : Watch(w)
    \/ \E b \in Browsers : Connect(b) \/ Take(b) \/ Write(b) \/ Disconnect(b)
(* Polls repeat on a timer and the browser reconnects by itself. A socket  *)
(* that is written to again and again drains at some point. TickDue is     *)
(* ENABLED <<Tick>>_vars, so the first conjunct is WF_vars(Tick).          *)
TickDue ==
    /\ running
    /\ \/ RefreshView(stream) # stream
       \/ \E b \in Browsers : /\ Registered(client[b])
                               /\ ServeClient(client[b], RefreshView(stream), Wanted[b]) # client[b]
Fairness ==
    /\ []<>~TickDue \/ []<><<Tick>>_vars
    /\ \A b \in Browsers : WF_vars(Connect(b)) /\ WF_vars(Take(b)) /\ SF_vars(Write(b))
Spec == Init /\ [][Next]_vars /\ Fairness

-----------------------------------------------------------------------------
TypeOK ==
    /\ ToSet(spool.records) \subseteq {Live(n) : n \in 1..spool.sequence} /\ spool.sequence \in 0..MaxLive
    /\ committed \in 0..Len(Commits) /\ faults \in 0..MaxFaults /\ running \in BOOLEAN
    /\ \A b \in Browsers : LET c == client[b] IN
         /\ c.conn \in {"off", "open", "halted"} /\ c.state \in {"pending", "catching-up", "live", "done"}
         /\ Len(c.queue) <= MaxBuffered /\ Len(c.hand) <= 1 /\ ToSet(c.shown) \subseteq Items
         /\ c.parked => c.queue = <<>> /\ c.hand = <<>>
    /\ \A w \in Watchers : watch[w].seen \subseteq Items

(* What a page shows or is about to be sent.                               *)
ItemsOf(deliveries) == [i \in DOMAIN deliveries |-> deliveries[i].item]
Sent(c) == c.shown \o ItemsOf(SelectSeq(c.hand \o c.queue, LAMBDA d : d.kind = "item"))
Covers(s, cursor, wanted, items) ==
    cursor.gen = s.gen => \A p \in 1..cursor.pos :
        s.entries[p].src # "gone" /\ s.entries[p].op \in wanted => s.entries[p] \in items

(* A connection's cursor never runs past an event the client was not sent, *)
(* and the id a browser reconnects with never past one it did not receive: *)
(* not when events arrive with an earlier timestamp, while it catches up,  *)
(* when the catch-up hands over to live delivery, or when an observation   *)
(* is replaced by its ledger event (event-hub pumpCatchUp/pumpLive,        *)
(* event-index add/remove).                                                *)
NoEventSkipped ==
    \A b \in Browsers :
        /\ Covers(stream, client[b].last, Wanted[b], ToSet(client[b].shown))
        /\ Registered(client[b]) => Covers(stream, client[b].cursor, Wanted[b], ToSet(Sent(client[b])))
(* Nothing is sent to a page twice between two resets, across any number   *)
(* of reconnections (event-hub deliver, router lastEventCursor).           *)
NoEventRepeated ==
    \A b \in Browsers : IsInjective(Sent(client[b]))
(* Once a page has the ledger event of an observation, the observation     *)
(* itself is not delivered any more (event-stream refreshView).            *)
AuthoritativeIsLast ==
    \A b \in Browsers : LET sent == Sent(client[b]) IN
        \A i, j \in DOMAIN sent :
            i < j /\ sent[i].src = "ledger" /\ sent[i].key # 0 => ~(sent[j].src = "live" /\ sent[j].key = sent[i].key)
(* `harness watch` has seen everything up to its cursor (watch.ts).        *)
WatchMissesNothing ==
    \A w \in Watchers : Covers(watch[w].stream, watch[w].cursor, {"o1", "o2"}, watch[w].seen)
UpToDate ==
    \A b \in Browsers :
        \/ client[b].conn = "halted"
        \/ \A n \in 1..committed : Fact(n).op \in Wanted[b] => Fact(n) \in ToSet(client[b].shown)
(* Whatever is lost or restarted on the way, a page that keeps             *)
(* reconnecting ends up showing every ledger event of the operations it    *)
(* asked for, unless it was told that one is too large (sse.ts, dashboard  *)
(* startLive).                                                             *)
PagesCatchUp == <>[]UpToDate
(* "A backlog that stops draining for the drain budget closes this client  *)
(* only" (event-hub checkStall): a client that reads its whole queue       *)
(* between the polls is not cut off as stalled.                            *)
DrainingClientsStay ==
    \A b \in Browsers : ~client[b].cut
=============================================================================
