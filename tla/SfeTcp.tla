------------------------------- MODULE SfeTcp -------------------------------
(***************************************************************************)
(* The TCP windows of one accelerated connection.  The forwarding engine   *)
(* (sfe_ipv4.c) tests each segment against the windows it keeps for the    *)
(* two directions and advances them; conntrack keeps windows of its own    *)
(* for the segments that take the slow path.  The two exchange what they   *)
(* know: a rule starts from conntrack's windows, a request for a rule that *)
(* exists refreshes them (create_rule), and a sync message takes the       *)
(* engine's windows to conntrack (sfe_cm_sync_rule).                       *)
(*                                                                         *)
(* A client sends data through the router in the original direction, a     *)
(* server acknowledges it in the reply direction.  Both keep to the        *)
(* protocol; the network before the router loses, repeats and reorders.    *)
(* Sequence numbers are numbers modulo M.                                  *)
(***************************************************************************)
EXTENDS Integers, FiniteSets, FiniteSetsExt

CONSTANTS
    M,          \* size of the sequence space (2^32 in the code)
    Len,        \* length of a segment
    MaxWindow,  \* largest window the server offers
    AckWindow,  \* SFE_IPV4_TCP_MAX_ACK_WINDOW
    Cpus,       \* how many segments the router handles at the same time
    Wire,       \* how many segments travel to the router at the same time
    Start,      \* where the client is in the sequence space
    Stream,     \* how much it goes on to send
    Skips,      \* may post_routing leave a segment out of its checks
    DropInvalid, \* does the firewall drop what conntrack finds invalid
    Dsack,      \* does the server report duplicates (RFC 2883)
    None

\* Everything alive spans less than half of the sequence space.
ASSUME SpaceAssumption ==
    /\ {M, Len, MaxWindow, AckWindow} \subseteq Nat \ {0}
    /\ Start \in 0 .. M - 1
    /\ Stream \in Nat
    /\ Stream + 4 * MaxWindow + AckWindow < M \div 2

Dirs     == {"original", "reply"}
Other(d) == IF d = "original" THEN "reply" ELSE "original"
Seqs     == 0 .. M - 1
Windows  == [Dirs -> [end : Seqs, max_end : Seqs, max_win : Seqs]]
Segments == [dir : Dirs, seq : Seqs, len : {0, Len}, ack : Seqs, win : Seqs, sack : SUBSET Seqs]

ASSUME NoneAssumption == None \notin Windows \cup Segments

VARIABLES
    client,     \* una, nxt and the right edge of the window it may use
    server,     \* rcv, the ends of segments out of order, duplicates to report, right edge
    wire,       \* segments on their way to the router
    rule,       \* the windows of the rule, or None
    seen,       \* the windows of the conntrack entry
    slow,       \* segments in the stack, with the request post_routing filled in
    flushes,    \* removed windows not yet delivered, with the segment that removed them
    sis         \* the windows the timer is about to deliver, or None

vars == <<client, server, wire, rule, seen, slow, flushes, sis>>

-----------------------------------------------------------------------------
(* Serial numbers.                                                         *)

\* (s32)(a - b)
Diff(a, b) == LET d == (a - b) % M IN IF d < M \div 2 THEN d ELSE d - M

Later(a, b) == IF Diff(a, b) >= 0 THEN a ELSE b

Plus(a, n) == (a + n) % M

-----------------------------------------------------------------------------
(* Window tracking.                                                        *)

End(p) == Plus(p.seq, p.len)

\* process_tcp_option_sack compares the right edges of the blocks as numbers.
SackEdge(p) == Max({p.ack} \cup p.sack)

\* conntrack compares them as serial numbers.
SerialSackEdge(p) ==
    CHOOSE s \in {p.ack} \cup p.sack : \A x \in {p.ack} \cup p.sack : Diff(s, x) >= 0

\* The four tests of recv_tcp.
Fits(w, p, sack) ==
    LET cm == w[p.dir]  counter == w[Other(p.dir)]
    IN  /\ Diff(p.seq, cm.max_end + 1) <= 0
        /\ Diff(End(p), cm.end - counter.max_win - 1) >= 0
        /\ Diff(sack, counter.end + 1) <= 0
        /\ Diff(sack, counter.end - cm.max_win - AckWindow - 1) >= 0

\* Wrong: the other direction's right edge is left alone.
AdvanceEnd(w, p, sack) ==
    LET scaled_win == Plus(p.win, sack - p.ack)
    IN  [w EXCEPT ![p.dir].max_win = Max({@, scaled_win}),
                  ![p.dir].end = Later(End(p), @)]

\* Wrong: the right edge is computed in more than 32 bits.
AdvanceWide(w, p, sack) ==
    LET scaled_win == Plus(p.win, sack - p.ack)
    IN  [w EXCEPT ![p.dir].max_win = Max({@, scaled_win}),
                  ![p.dir].end = Later(End(p), @),
                  ![Other(p.dir)].max_end = Later(sack + scaled_win, @)]

\* What the segment p, whose SACK reaches to sack, teaches the windows w.
Advance(w, p, sack) ==
    LET scaled_win == Plus(p.win, sack - p.ack)
    IN  [w EXCEPT ![p.dir].max_win = Max({@, scaled_win}),
                  ![p.dir].end = Later(End(p), @),
                  ![Other(p.dir)].max_end = Later(Plus(sack, scaled_win), @)]

\* Wrong: the right edges are not exchanged.
MergeEnds(w, v) ==
    [d \in Dirs |-> [w[d] EXCEPT !.end = Later(@, v[d].end), !.max_win = Max({@, v[d].max_win})]]

\* update_tcp_state and sync_rule: what w learns from v.
Merge(w, v) ==
    [d \in Dirs |-> [end     |-> Later(w[d].end, v[d].end),
                     max_end |-> Later(w[d].max_end, v[d].max_end),
                     max_win |-> Max({w[d].max_win, v[d].max_win})]]

\* A window of zero is taken as one.
FromRequest(sic) == [d \in Dirs |-> [sic[d] EXCEPT !.max_win = Max({@, 1})]]

-----------------------------------------------------------------------------
(* The two endpoints.                                                      *)

Segment(s) == [dir |-> "original", seq |-> s, len |-> Len, ack |-> 0, win |-> MaxWindow, sack |-> {}]

Transmit(p) ==
    /\ Cardinality(wire \cup {p}) <= Wire
    /\ wire' = wire \cup {p}
    /\ UNCHANGED <<rule, seen, slow, flushes, sis>>

SendData ==
    /\ Diff(client.right, client.nxt) >= Len
    /\ Diff(Plus(Start, Stream), client.nxt) >= Len
    /\ Transmit(Segment(client.nxt))
    /\ client' = [client EXCEPT !.nxt = Plus(@, Len)]
    /\ UNCHANGED server

Retransmit ==
    /\ client.una # client.nxt
    /\ Transmit(Segment(client.una))
    /\ UNCHANGED <<client, server>>

\* The right edge of the window never moves back.
SendAck ==
    \E r \in {server.right, Plus(server.rcv, MaxWindow)} :
        /\ Transmit([dir |-> "reply", seq |-> 0, len |-> 0, ack |-> server.rcv,
                     win |-> Diff(r, server.rcv), sack |-> server.early \cup server.dups])
        /\ server' = [server EXCEPT !.right = r, !.dups = {}]
        /\ UNCHANGED client

ReceiveData(p) ==
    LET early == server.early \cup {End(p)}
        Reached(n) == \A k \in 1 .. n : Plus(server.rcv, k * Len) \in early
        rcv == Plus(server.rcv, Len * Max({n \in 0 .. Cardinality(early) : Reached(n)}))
    IN  /\ server' = IF Diff(End(p), server.rcv) > 0
                     THEN [server EXCEPT !.rcv = rcv,
                                         !.early = {e \in early : Diff(e, rcv) > 0}]
                     ELSE [server EXCEPT !.dups = IF Dsack THEN {End(p)} ELSE {}]
        /\ UNCHANGED client

ReceiveAck(p) ==
    /\ client' = [client EXCEPT !.una = Later(p.ack, @),
                                !.right = Later(Plus(p.ack, p.win), @)]
    /\ UNCHANGED server

\* The segment leaves the router and arrives, or is lost.
Leave(p) ==
    \/ UNCHANGED <<client, server>>
    \/ p.dir = "original" /\ ReceiveData(p)
    \/ p.dir = "reply" /\ ReceiveAck(p)

-----------------------------------------------------------------------------
(* The router.                                                             *)

Busy == Cardinality(slow) + Cardinality(flushes)

\* recv_tcp forwards the segment.
FastPath(p) ==
    /\ rule # None
    /\ Fits(rule, p, SackEdge(p))
    /\ rule' = Advance(rule, p, SackEdge(p))
    /\ wire' = wire \ {p}
    /\ Leave(p)
    /\ UNCHANGED <<seen, slow, flushes, sis>>

\* recv_tcp removes the connection; its last message is delivered later.
Flush(p) ==
    /\ rule # None
    /\ ~Fits(rule, p, SackEdge(p))
    /\ Busy < Cpus
    /\ rule' = None
    /\ flushes' = flushes \cup {[windows |-> rule, pkt |-> p]}
    /\ wire' = wire \ {p}
    /\ UNCHANGED <<client, server, seen, slow, sis>>

\* conntrack, which has the windows w, sees p in the slow path.  A segment that
\* does not fit goes on without a conntrack entry, and post_routing ignores it.
Conntrack(p, w) ==
    IF Fits(w, p, SerialSackEdge(p))
    THEN /\ seen' = Advance(w, p, SerialSackEdge(p))
         /\ slow' = slow \cup {[pkt |-> p, sic |-> None]}
         /\ UNCHANGED <<client, server>>
    ELSE /\ seen' = w
         /\ IF DropInvalid THEN UNCHANGED <<client, server>> ELSE Leave(p)
         /\ UNCHANGED slow

SlowPath(p) ==
    /\ rule = None
    /\ Busy < Cpus
    /\ wire' = wire \ {p}
    /\ Conntrack(p, seen)
    /\ UNCHANGED <<rule, flushes, sis>>

\* post_routing copies the windows of the conntrack entry into a request, one
\* direction after the other and without conntrack's lock.
FillInRequest(s) ==
    /\ \/ /\ s.sic = None
          /\ slow' = (slow \ {s}) \cup {[s EXCEPT !.sic = [original |-> seen.original]]}
       \/ /\ s.sic # None
          /\ DOMAIN s.sic = {"original"}
          /\ slow' = (slow \ {s}) \cup
                 {[s EXCEPT !.sic = [original |-> s.sic.original, reply |-> seen.reply]]}
    /\ UNCHANGED <<client, server, wire, rule, seen, flushes, sis>>

\* post_routing leaves alone a segment of a connection with many slow ones.
Skip(s) ==
    /\ Skips
    /\ s.sic = None
    /\ slow' = slow \ {s}
    /\ Leave(s.pkt)
    /\ UNCHANGED <<wire, rule, seen, flushes, sis>>

Filled(s) == s.sic # None /\ DOMAIN s.sic = Dirs

\* Wrong: a request replaces the windows of the rule that exists.
CreateRuleReplaces(s) ==
    /\ Filled(s)
    /\ rule' \in IF rule = None THEN {FromRequest(s.sic), None} ELSE {FromRequest(s.sic)}
    /\ slow' = slow \ {s}
    /\ Leave(s.pkt)
    /\ UNCHANGED <<wire, seen, flushes, sis>>

\* create_rule makes the rule, gives up, or refreshes the rule that exists.
CreateRule(s) ==
    /\ Filled(s)
    /\ rule' \in IF rule = None THEN {FromRequest(s.sic), None} ELSE {Merge(rule, s.sic)}
    /\ slow' = slow \ {s}
    /\ Leave(s.pkt)
    /\ UNCHANGED <<wire, seen, flushes, sis>>

\* periodic_sync takes the windows and drops the lock.
PeriodicSync ==
    /\ rule # None
    /\ sis = None
    /\ sis' = rule
    /\ UNCHANGED <<client, server, wire, rule, seen, slow, flushes>>

DeliverSync ==
    /\ sis # None
    /\ seen' = Merge(seen, sis)
    /\ sis' = None
    /\ UNCHANGED <<client, server, wire, rule, slow, flushes>>

\* Wrong: no message tells conntrack of the windows.
DestroyRuleSilent ==
    /\ rule # None
    /\ rule' = None
    /\ UNCHANGED <<client, server, wire, seen, slow, flushes, sis>>

\* The rule is removed for another reason than its windows.
DestroyRule ==
    /\ rule # None
    /\ Busy < Cpus
    /\ rule' = None
    /\ flushes' = flushes \cup {[windows |-> rule, pkt |-> None]}
    /\ UNCHANGED <<client, server, wire, seen, slow, sis>>

\* A segment that flushed goes up the stack when its message is delivered.
DeliverFlush(f) ==
    LET w == Merge(seen, f.windows)
    IN  /\ flushes' = flushes \ {f}
        /\ IF f.pkt = None
           THEN seen' = w /\ UNCHANGED <<client, server, slow>>
           ELSE Conntrack(f.pkt, w)
        /\ UNCHANGED <<wire, rule, sis>>

Lose(p) ==
    /\ wire' = wire \ {p}
    /\ UNCHANGED <<client, server, rule, seen, slow, flushes, sis>>

Init ==
    /\ client = [una |-> Start, nxt |-> Start, right |-> Plus(Start, MaxWindow)]
    /\ server = [rcv |-> Start, early |-> {}, dups |-> {}, right |-> Plus(Start, MaxWindow)]
    /\ wire = {}
    /\ rule = None
    /\ seen = [d \in Dirs |-> LET s == IF d = "original" THEN Start ELSE 0
                              IN  [end |-> s, max_end |-> Plus(s, MaxWindow), max_win |-> MaxWindow]]
    /\ slow = {}
    /\ flushes = {}
    /\ sis = None

Next ==
    \/ SendData \/ Retransmit \/ SendAck
    \/ \E p \in wire : FastPath(p) \/ Flush(p) \/ SlowPath(p) \/ Lose(p)
    \/ \E s \in slow : FillInRequest(s) \/ Skip(s) \/ CreateRule(s)
    \/ PeriodicSync \/ DeliverSync \/ DestroyRule
    \/ \E f \in flushes : DeliverFlush(f)

Spec == Init /\ [][Next]_vars

-----------------------------------------------------------------------------
(* Properties.                                                             *)

\* The three holders of windows only hold 32-bit values, and a segment in the
\* stack carries at most one request.
TypeOK ==
    /\ client \in [una : Seqs, nxt : Seqs, right : Seqs]
    /\ server \in [rcv : Seqs, early : SUBSET Seqs, dups : SUBSET Seqs, right : Seqs]
    /\ wire \subseteq Segments
    /\ rule \in Windows \cup {None}
    /\ seen \in Windows
    /\ \A s \in slow : s.pkt \in Segments /\ (Filled(s) => s.sic \in Windows)
    /\ \A f \in flushes : f.pkt \in Segments \cup {None} /\ f.windows \in Windows
    /\ sis \in Windows \cup {None}

\* A segment that still tells its receiver something.
Useful(p) == IF p.dir = "original" THEN Diff(End(p), server.rcv) > 0
                                   ELSE Diff(p.ack, client.una) >= 0

\* The tests of recv_tcp remove no rule because of a segment that the protocol
\* allows and that still tells its receiver something, however segments were
\* lost, repeated or overtaken, whichever of them took the slow path before,
\* and wherever the sequence numbers wrap.
UsefulSegmentsFit ==
    rule # None => \A p \in wire : Useful(p) => Fits(rule, p, SackEdge(p))

\* With the rule gone and its last message delivered (sync_rule), conntrack
\* knows enough of what the fast path let pass to find no useful segment
\* invalid: the flow goes on in the slow path.
HandedBack ==
    rule = None /\ flushes = {} =>
        \A p \in wire : Useful(p) => Fits(seen, p, SerialSackEdge(p))

Known == {seen} \cup ({rule, sis} \ {None}) \cup {f.windows : f \in flushes}

\* What passed the router is never forgotten, not even while windows travel
\* between rule and conntrack: whatever data reached the server and whatever
\* window reached the client, somebody who keeps or carries the windows knows.
NothingForgotten ==
    /\ \A e \in {server.rcv} \cup server.early :
          \E w \in Known : Diff(w["original"].end, e) >= 0
    /\ \E w \in Known : Diff(w["original"].max_end, client.right) >= 0

\* The edges of a rule never move back, and its windows never shrink, although
\* a request may hold what conntrack knew long ago (update_tcp_state) and
\* segments arrive in any order (recv_tcp).
EdgesAdvance ==
    [][rule # None /\ rule' # None =>
          \A d \in Dirs : /\ Diff(rule'[d].end, rule[d].end) >= 0
                          /\ Diff(rule'[d].max_end, rule[d].max_end) >= 0
                          /\ rule'[d].max_win >= rule[d].max_win]_vars

\* "Maximum window size seen" (sfe_ipv4.c:153): max_win is a window that an
\* endpoint announced, enlarged at most by the data reported ahead of an
\* acknowledgement, which fits a window too.
LargestWindow ==
    rule # None => \A d \in Dirs : rule[d].max_win <= 2 * MaxWindow
=============================================================================
