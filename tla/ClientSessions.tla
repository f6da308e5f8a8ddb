-------------------------- MODULE ClientSessions --------------------------
(* The encrypted listeners (dot.rs, doh.rs, doq.rs): how many connections     *)
(* they hold, whom for, and how a connection lets go.  One listener is        *)
(* modelled; csKind says which.  A connection takes a session permit when it  *)
(* is accepted, learns its client from a PROXY header when a trusted balancer *)
(* sent it, takes one of the client's slots, shakes hands and serves queries. *)
EXTENDS Integers, FiniteSets, FiniteSetsExt

CONSTANTS
    CsIds,          \* connections that may be open at once
    CsClients,      \* client addresses, an IPv6 /64 counting as one
    CsPrivate,      \* those of private networks
    CsBalancer,     \* the load balancer whose PROXY header is trusted
    CsMax,          \* max_connections
    CsClientFloor,  \* what a client may hold at least (4)
    CsInFlight,     \* MAX_IN_FLIGHT
    CsQueue,        \* WRITE_QUEUE
    CsStreams,      \* max_concurrent_streams
    CsMaxRebuilds   \* bound: times the listener is rebuilt

ASSUME CsAssumption ==
    /\ CsPrivate \subseteq CsClients /\ CsBalancer \in CsClients /\ IsFiniteSet(CsIds)
    /\ {CsMax, CsClientFloor, CsInFlight, CsQueue, CsStreams} \subseteq Nat \ {0}

VARIABLES
    csKind,      \* the listener's protocol: "dot", "doh" or "doq"
    csConns,     \* what each connection is doing
    csFree,      \* free session permits
    csSlots,     \* ClientSlots.open: connections counted per client
    csStreams,   \* free stream permits of the whole DoQ listener
    csOrphans,   \* DoQ stream tasks whose connection has ended
    csRebuilds
csVars == <<csKind, csConns, csFree, csSlots, csStreams, csOrphans, csRebuilds>>

NoConn ==
    [stage |-> "none", client |-> CsBalancer, slot |-> FALSE, busy |-> 0, queue |-> 0, writer |-> TRUE, held |-> FALSE,
     stuck |-> 0, pings |-> FALSE]

PerClientLimit == Max({CsMax \div 8, CsClientFloor})
StreamLimit == CsMax * CsStreams

CsInit ==
    /\ csKind \in {"dot", "doh", "doq"}
    /\ csConns = [i \in CsIds |-> NoConn]
    /\ csFree = CsMax
    /\ csSlots = [c \in CsClients |-> 0]
    /\ csStreams = StreamLimit
    /\ csOrphans = 0
    /\ csRebuilds = 0

Stage(i) == csConns[i].stage
Live(i) == Stage(i) # "none"
Conn(i, conn) == csConns' = [csConns EXCEPT ![i] = conn]
Quiet == UNCHANGED <<csKind, csRebuilds>>

(* The connection's task returns: its guards give back what it holds.  The    *)
(* streams of a DoQ connection are tasks of their own and keep theirs.        *)
End(i) ==
    /\ Conn(i, NoConn)
    /\ csFree' = csFree + 1
    /\ csSlots' = IF csConns[i].slot
                  THEN [csSlots EXCEPT ![csConns[i].client] = @ - 1]
                  ELSE csSlots
    /\ csOrphans' = csOrphans + (IF csKind = "doq" THEN csConns[i].busy ELSE 0)
    /\ UNCHANGED csStreams

(* ClientSlots::acquire for a connection of c that holds a session permit:    *)
(* the slots, and whether the connection goes on.                             *)
Acquire(c) ==
    IF c \in CsPrivate THEN [ok |-> TRUE, capped |-> FALSE, slots |-> csSlots]
    ELSE IF csSlots[c] >= PerClientLimit THEN [ok |-> FALSE, capped |-> TRUE, slots |-> csSlots]
    ELSE [ok |-> TRUE, capped |-> TRUE, slots |-> [csSlots EXCEPT ![c] = @ + 1]]

(* A connection past its address check, or refused; `had` says whether it     *)
(* already holds its session permit.                                          *)
Admit(i, c, had) ==
    LET got == Acquire(c) IN
    /\ Conn(i, IF got.ok THEN [NoConn EXCEPT !.stage = "tls", !.client = c, !.slot = got.capped] ELSE NoConn)
    /\ csSlots' = got.slots
    /\ csFree' = csFree - (IF got.ok THEN 1 ELSE 0) + (IF had THEN 1 ELSE 0)

(* serve_dot and serve_doh accept a connection; one past max_connections is   *)
(* dropped, which changes nothing.                                            *)
CsAccept(i, peer) ==
    /\ csKind # "doq" /\ ~Live(i) /\ csFree > 0
    /\ \/ /\ peer = CsBalancer
          /\ Conn(i, [NoConn EXCEPT !.stage = "proxy"])
          /\ csFree' = csFree - 1
          /\ UNCHANGED csSlots
       \/ peer # CsBalancer /\ Admit(i, peer, FALSE)
    /\ UNCHANGED <<csStreams, csOrphans>> /\ Quiet

(* serve_doq counts connections, not clients. *)
CsIncoming(i, peer) ==
    /\ csKind = "doq" /\ ~Live(i) /\ csFree > 0
    /\ Conn(i, [NoConn EXCEPT !.stage = "tls", !.client = peer])
    /\ csFree' = csFree - 1
    /\ UNCHANGED <<csSlots, csStreams, csOrphans>> /\ Quiet

(* The PROXY header names the client, or none: then it is the balancer's own  *)
(* connection.                                                                *)
CsProxyHeader(i, c) ==
    /\ Stage(i) = "proxy"
    /\ Admit(i, c, TRUE)
    /\ UNCHANGED <<csStreams, csOrphans>> /\ Quiet

(* A bad header, or none within PROXY_HEADER_TIMEOUT. *)
CsProxyFails(i) == Stage(i) = "proxy" /\ End(i) /\ Quiet

CsHandshake(i) ==
    /\ Stage(i) = "tls"
    /\ Conn(i, [csConns[i] EXCEPT !.stage = IF csKind = "doh" THEN "preface" ELSE "open"])
    /\ UNCHANGED <<csFree, csSlots, csStreams, csOrphans>> /\ Quiet

(* It fails, or takes longer than `timeout`: DoQ's is the idle timeout, which  *)
(* any packet of the client's starts again.                                   *)
HandshakeMayFail(i) == Stage(i) = "tls" /\ ~csConns[i].pings
CsHandshakeFails(i) == HandshakeMayFail(i) /\ End(i) /\ Quiet

(* DoH: the HTTP/2 preface arrives, or the client closes without one.  There  *)
(* is no timeout on it.                                                       *)
CsPreface(i) ==
    /\ Stage(i) = "preface"
    /\ \/ /\ Conn(i, [csConns[i] EXCEPT !.stage = "open"])
          /\ UNCHANGED <<csFree, csSlots, csStreams, csOrphans>>
       \/ End(i)
    /\ Quiet

----------------------------------------------------------------------------
(* DoT: a reader, at most CsInFlight queries and a writer with a queue. *)
Session(i, conn) == Conn(i, conn) /\ UNCHANGED <<csFree, csSlots, csStreams, csOrphans>> /\ Quiet

(* A query is read whole; without a permit for it the reader waits. *)
CsRead(i) ==
    /\ csKind = "dot" /\ Stage(i) = "open" /\ ~csConns[i].held
    /\ Session(i, IF csConns[i].busy < CsInFlight
                  THEN [csConns[i] EXCEPT !.busy = @ + 1]
                  ELSE [csConns[i] EXCEPT !.held = TRUE])

(* A query's task ends; a waiting reader gets its permit. *)
Freed(conn) == IF conn.held THEN [conn EXCEPT !.held = FALSE] ELSE [conn EXCEPT !.busy = @ - 1]

(* Its answer is queued once the queue has room, or refused because the       *)
(* writer is gone.                                                            *)
AnswerMayGo(i) ==
    csKind = "dot" /\ csConns[i].busy > 0 /\ (csConns[i].writer => csConns[i].queue < CsQueue)
CsAnswered(i) ==
    /\ AnswerMayGo(i)
    /\ \/ /\ csConns[i].writer
          /\ Session(i, [Freed(csConns[i]) EXCEPT !.queue = @ + 1])
       \/ ~csConns[i].writer /\ Session(i, Freed(csConns[i]))

(* The message was no query: it gets no answer. *)
CsIgnored(i) == csKind = "dot" /\ csConns[i].busy > 0 /\ Session(i, Freed(csConns[i]))

CsWrite(i) ==
    /\ csConns[i].writer /\ csConns[i].queue > 0
    /\ Session(i, [csConns[i] EXCEPT !.queue = @ - 1])

(* A write fails, or takes longer than `idle`: the writer stops, and its      *)
(* queue with it.                                                             *)
\* Mutant of WriteMayFail: only the flush of an empty queue is bounded.
WriteMayFailFlush(i) == Live(i) /\ csConns[i].writer /\ csConns[i].queue = 0
WriteMayFail(i) == Live(i) /\ csConns[i].writer /\ csConns[i].queue > 0
CsWriteFails(i) ==
    /\ WriteMayFail(i)
    /\ Session(i, [csConns[i] EXCEPT !.writer = FALSE, !.queue = 0])

(* The reader learns that the writer stopped, also while it waits. *)
CsWriterGone(i) ==
    /\ Stage(i) = "open" /\ ~csConns[i].writer
    /\ Session(i, [csConns[i] EXCEPT !.stage = "closing", !.held = FALSE])

(* Closed by the client, idle, or out of step: what was asked is finished.    *)
(* DoH and DoQ drop the connection.  A DoQ connection is not idle while its   *)
(* client sends packets, of whatever kind.                                    *)
ReadMayEnd(i) == Stage(i) = "open" /\ ~csConns[i].held /\ ~csConns[i].pings
CsReadEnds(i) ==
    /\ ReadMayEnd(i)
    /\ \/ csKind = "dot" /\ Session(i, [csConns[i] EXCEPT !.stage = "closing"])
       \/ csKind # "dot" /\ End(i) /\ Quiet

(* Every query is done and every answer written. *)
Drained(i) == Stage(i) = "closing" /\ csConns[i].busy = 0 /\ csConns[i].queue = 0
CsDrained(i) == Drained(i) /\ End(i) /\ Quiet

----------------------------------------------------------------------------
(* DoQ: a stream needs a permit of its connection and one of the listener. *)
CsStream(i) ==
    /\ csKind = "doq" /\ Stage(i) = "open"
    /\ csConns[i].busy < CsStreams /\ csStreams > 0
    /\ Conn(i, [csConns[i] EXCEPT !.busy = @ + 1])
    /\ csStreams' = csStreams - 1
    /\ UNCHANGED <<csFree, csSlots, csOrphans>> /\ Quiet

(* The client begins to send packets that keep the connection from being      *)
(* idle, or stops (which it also does by closing it).                         *)
CsPings(i) ==
    /\ csKind = "doq" /\ Live(i)
    /\ Session(i, [csConns[i] EXCEPT !.pings = ~@])

(* Rejected, nothing sent within REQUEST_READ_TIMEOUT, or answered within what *)
(* the client lets the server send.                                           *)
UnderWay(i) == csKind = "doq" /\ csConns[i].busy > csConns[i].stuck
CsStreamEnds(i) ==
    /\ UnderWay(i)
    /\ Conn(i, [csConns[i] EXCEPT !.busy = @ - 1])
    /\ csStreams' = csStreams + 1
    /\ UNCHANGED <<csFree, csSlots, csOrphans>> /\ Quiet

(* The answer is longer than the client lets the server send: write_framed    *)
(* waits for the client, and nothing bounds that wait.                        *)
CsStreamWaits(i) == UnderWay(i) /\ Session(i, [csConns[i] EXCEPT !.stuck = @ + 1])

(* The client takes the answer, or stops the stream. *)
CsStreamTaken(i) ==
    /\ csConns[i].stuck > 0
    /\ Conn(i, [csConns[i] EXCEPT !.busy = @ - 1, !.stuck = @ - 1])
    /\ csStreams' = csStreams + 1
    /\ UNCHANGED <<csFree, csSlots, csOrphans>> /\ Quiet

(* A stream whose connection has ended fails to read or to write. *)
CsOrphanEnds ==
    /\ csOrphans > 0
    /\ csOrphans' = csOrphans - 1 /\ csStreams' = csStreams + 1
    /\ UNCHANGED <<csConns, csFree, csSlots>> /\ Quiet

(* Shutdown aborts every session; the next listener counts from nothing, and  *)
(* streams still running hold permits nobody counts any more.                 *)
CsRebuild ==
    /\ csRebuilds < CsMaxRebuilds
    /\ csRebuilds' = csRebuilds + 1
    /\ csConns' = [i \in CsIds |-> NoConn]
    /\ csFree' = CsMax /\ csSlots' = [c \in CsClients |-> 0]
    /\ csStreams' = StreamLimit /\ csOrphans' = 0
    /\ UNCHANGED csKind

(* What a connection can do whatever its client does: time out or go on.  Each *)
(* of these steps is possible when its guard holds.                           *)
CsOwnStep(i) ==
    \/ CsProxyFails(i) \/ CsHandshakeFails(i)
    \/ CsAnswered(i) \/ CsWriteFails(i) \/ CsWriterGone(i)
    \/ CsReadEnds(i) \/ CsDrained(i) \/ CsStreamEnds(i) \/ CsStreamWaits(i)
OwnStepDue(i) ==
    \/ Stage(i) = "proxy" \/ HandshakeMayFail(i)
    \/ AnswerMayGo(i) \/ WriteMayFail(i) \/ ReadMayEnd(i) \/ Drained(i)
    \/ Stage(i) = "open" /\ ~csConns[i].writer
    \/ UnderWay(i)

CsNext ==
    \/ \E i \in CsIds :
        \/ \E c \in CsClients : CsAccept(i, c) \/ CsIncoming(i, c) \/ CsProxyHeader(i, c)
        \/ CsHandshake(i) \/ CsPreface(i) \/ CsRead(i) \/ CsIgnored(i) \/ CsWrite(i) \/ CsStream(i)
        \/ CsPings(i) \/ CsStreamTaken(i) \/ CsOwnStep(i)
    \/ CsOrphanEnds \/ CsRebuild

CsSpec == CsInit /\ [][CsNext]_csVars

----------------------------------------------------------------------------
(* Whatever order connections are refused, fail, stall and end in, nothing a  *)
(* connection took is lost or given back twice: the free session permits, the *)
(* count kept for each public client and the free stream permits are exactly  *)
(* what the live connections (and the DoQ streams left behind) do not hold,   *)
(* and no public client has more than its share.                              *)
OpenStreams == {s \in CsIds \X (1 .. CsStreams) : s[2] <= csConns[s[1]].busy}
SessionsAccounted ==
    /\ csFree + Cardinality({i \in CsIds : Live(i)}) = CsMax
    /\ \A c \in CsClients : csSlots[c] = Cardinality({i \in CsIds : csConns[i].slot /\ csConns[i].client = c})
    /\ \A c \in CsClients \ CsPrivate : csSlots[c] <= PerClientLimit
    /\ csKind = "doq" =>
        /\ \A i \in CsIds : csConns[i].busy <= CsStreams
        /\ csStreams + csOrphans + Cardinality(OpenStreams) = StreamLimit

(* A client that stops reading or sending cannot hold a connection for ever:  *)
(* in every state a step of its own is due.  (Without the bounded writes a    *)
(* full queue, and the permits waiting on it, held it: the comment at         *)
(* dot.rs:328-331.)  Two waits are left out, as nothing bounds them: DoH's for *)
(* the HTTP/2 preface, and DoQ's for a client that keeps its connection alive *)
(* while every stream on it, if any, waits for that client to take an answer  *)
(* (doq.rs:361-373).  A DoQ client that falls silent altogether is let go.    *)
KeptByClient(i) == csKind = "doq" /\ csConns[i].pings /\ csConns[i].busy = csConns[i].stuck
SilentClientsLetGo ==
    \A i \in CsIds : Live(i) /\ Stage(i) # "preface" /\ ~KeptByClient(i) => OwnStepDue(i)

(* What such DoQ clients keep is their own: a connection with fewer streams   *)
(* than it may have finds a stream slot, "shared by every connection"         *)
(* (doq.rs:248), or slots are held by streams of ended connections, which end *)
(* by themselves.                                                             *)
StreamsLeftForOthers ==
    \A i \in CsIds :
        csKind = "doq" /\ Stage(i) = "open" /\ csConns[i].busy < CsStreams => csStreams > 0 \/ csOrphans > 0

(* What a connection takes is given back, once; the client cannot prevent it  *)
(* but in the two ways named above, and then keeps no stream slot that is     *)
(* another connection's (dot.rs, doh.rs, doq.rs: the session, client and      *)
(* stream permits).                                                           *)
SessionsHold == SessionsAccounted /\ SilentClientsLetGo /\ StreamsLeftForOthers
=============================================================================
