------------------------------ MODULE SerialTcp ------------------------------
(***************************************************************************)
(* One firmware UART over TCP (drivers/serial_tcp.c) and the dyad event    *)
(* loop under it.  Two threads share it: the sim thread, which runs the    *)
(* firmware (reads a command byte, prints the answer, reboots on `save`),  *)
(* and the worker of pw_sitl.c, which runs dyad_update() and its           *)
(* callbacks.  pwDyadMutex guards the streams, rxLock the receive ring;    *)
(* txLock is only ever taken by the sim thread, so it is never contended   *)
(* and is not a variable.                                                  *)
(*                                                                         *)
(* A stream is named by the client at its other end.  A command byte is a  *)
(* record of who sent it and what it asks for; a byte of the answer is the *)
(* client it answers.  serial.c and the socket layer are external.         *)
(***************************************************************************)
EXTENDS Naturals, Sequences, FiniteSets

CONSTANTS
    Clients,        \* TCP connections a process ever sees on this UART
    Nobody,         \* the NULL stream; what an untouched slot of a ring holds
    Size,           \* RX_BUFFER_SIZE and TX_BUFFER_SIZE
    MaxSends        \* bound: command bytes and resets sent in a behaviour

ASSUME SizeAssumption == Size \in Nat /\ Size > 1
ASSUME SendsAssumption == MaxSends \in Nat

Commands == {"ask", "save"}
Bytes == [from : Clients, cmd : Commands]

\* The NULL stream is no client, and the NUL of an untouched ring no command.
ASSUME NobodyAssumption == Nobody \notin Clients \cup Bytes

VARIABLES
    stream,     \* state of each client's dyad_Stream
    backlog,    \* connections the kernel holds and dyad has not accepted
    peer,       \* the far end: "here", "left" (FIN) or "aborted" (RST)
    inbox,      \* bytes in flight to the core, per client
    wbuf,       \* dyad's writeBuffer, per stream
    conn,       \* s->conn
    joining,    \* e->remote, while onAccept runs
    started,    \* tcpInit.portInitialized
    dyadLock,   \* owner of pwDyadMutex
    rxLock,     \* owner of s->rxLock
    worker,     \* where the worker is in dyad_update
    rx, tx,     \* the two rings
    simPc,      \* where the sim thread is
    job,        \* the command byte it is executing, or Nobody
    sends,      \* command bytes and PW_CMD_RESETs still to be sent
    unread,     \* history: bytes that arrived and were not read yet
    overrun     \* history: the receive ring was lapped since its last reset

net == <<backlog, peer, inbox, sends>>
ghost == <<unread, overrun>>
simVars == <<simPc, job>>
dyad == <<stream, wbuf, conn>>
vars == <<stream, backlog, peer, inbox, wbuf, conn, joining, started, dyadLock,
          rxLock, worker, rx, tx, simPc, job, sends, unread, overrun>>

Live == {c \in Clients : stream[c] \in {"connected", "closing"}}

-----------------------------------------------------------------------------
\* The rings: a buffer with a head the writer moves and a tail the reader moves.

Slots == 0 .. Size - 1
Empty(buf) == [buf |-> buf, head |-> 0, tail |-> 0]

Bump(i) == IF i + 1 >= Size THEN 0 ELSE i + 1

\* tcpTotalRxBytesWaiting; the transmit ring's free space follows from it
Used(ring) == IF ring.head >= ring.tail THEN ring.head - ring.tail
              ELSE Size + ring.head - ring.tail
Free(ring) == (Size - 1) - Used(ring)

Push(ring, b) == [buf  |-> [ring.buf EXCEPT ![ring.head] = b],
                  head |-> Bump(ring.head),
                  tail |-> ring.tail]
Pop(ring) == [ring EXCEPT !.tail = Bump(@)]

\* serTcpOpen empties a ring: what a reboot finds in it is nobody's any more.
ReopenedAsIs(ring) == ring                                     \* mutant
Reopened(ring) == [ring EXCEPT !.head = 0, !.tail = 0]

\* What a reader that keeps popping would get.
Contents(ring) == [i \in 1 .. Used(ring) |-> ring.buf[(ring.tail + i - 1) % Size]]

TypeOK ==
    /\ stream \in [Clients -> {"none", "backlog", "connected", "closing", "closed", "freed"}]
    /\ backlog \in Seq(Clients)
    /\ peer \in [Clients -> {"here", "left", "aborted"}]
    /\ inbox \in [Clients -> Seq(Bytes)]
    /\ wbuf \in [Clients -> Seq(Clients \cup {Nobody})]
    /\ conn \in Clients \cup {Nobody}
    /\ joining \in Clients \cup {Nobody}
    /\ started \in BOOLEAN
    /\ dyadLock \in {"free", "sim", "worker"}
    /\ rxLock \in {"free", "sim", "worker"}
    /\ worker \in {"idle", "serve", "data", "flush", "listen", "take"}
    /\ rx \in [buf : [Slots -> Bytes \cup {Nobody}], head : Slots, tail : Slots]
    /\ tx \in [buf : [Slots -> Clients \cup {Nobody}], head : Slots, tail : Slots]
    /\ simPc \in {"run", "poll", "read", "print", "out", "lock", "write", "drain",
                  "cfg", "cfglock", "end", "reset", "reset2", "crashed"}
    /\ job \in Bytes \cup {Nobody}
    /\ sends \in 0 .. MaxSends
    /\ unread \in Seq(Bytes)
    /\ overrun \in BOOLEAN

Init ==
    /\ stream = [c \in Clients |-> "none"]
    /\ backlog = <<>>
    /\ peer = [c \in Clients |-> "here"]
    /\ inbox = [c \in Clients |-> <<>>]
    /\ wbuf = [c \in Clients |-> <<>>]
    /\ conn = Nobody
    /\ joining = Nobody
    /\ started = FALSE
    /\ dyadLock = "free"
    /\ rxLock = "free"
    /\ worker = "idle"
    /\ rx = Empty([i \in Slots |-> Nobody])
    /\ tx = Empty([i \in Slots |-> Nobody])
    /\ simPc = "cfg"
    /\ job = Nobody
    /\ sends = MaxSends
    /\ unread = <<>>
    /\ overrun = FALSE

Alive == simPc # "crashed"

-----------------------------------------------------------------------------
\* The clients and the kernel between them and the core.

Connect(c) ==
    /\ Alive
    /\ started
    /\ stream[c] = "none"
    /\ stream' = [stream EXCEPT ![c] = "backlog"]
    /\ backlog' = Append(backlog, c)
    /\ UNCHANGED <<peer, inbox, wbuf, conn, joining, started, dyadLock, rxLock,
                   worker, rx, tx, simPc, job, sends, unread, overrun>>

Send(c, cmd) ==
    /\ Alive
    /\ sends > 0
    /\ peer[c] = "here"
    /\ stream[c] \in {"backlog", "connected", "closing"}
    /\ inbox' = [inbox EXCEPT ![c] = Append(@, [from |-> c, cmd |-> cmd])]
    /\ sends' = sends - 1
    /\ UNCHANGED <<stream, backlog, peer, wbuf, conn, joining, started, dyadLock,
                   rxLock, worker, rx, tx, simPc, job, unread, overrun>>

Leave(c, how) ==
    /\ Alive
    /\ peer[c] = "here"
    /\ stream[c] \in {"backlog", "connected", "closing"}
    /\ peer' = [peer EXCEPT ![c] = how]
    /\ UNCHANGED <<stream, backlog, inbox, wbuf, conn, joining, started, dyadLock,
                   rxLock, worker, rx, tx, simPc, job, sends, unread, overrun>>

-----------------------------------------------------------------------------
\* dyad_close and the onClose it calls before it returns, for a set of streams.

OnClose(closed) == IF conn \in closed THEN Nobody ELSE conn

Close(closed) ==
    /\ stream' = [c \in Clients |-> IF c \in closed THEN "closed" ELSE stream[c]]
    /\ conn' = OnClose(closed)
    /\ wbuf' = [c \in Clients |-> IF c \in closed THEN <<>> ELSE wbuf[c]]

\* dyad_update takes the mutex, frees what was closed before, and closes the
\* streams that were silent for 120 s; the rest of the round follows.
BeginUpdate ==
    /\ Alive
    /\ worker = "idle"
    /\ dyadLock = "free"
    /\ dyadLock' = "worker"
    /\ worker' = "serve"
    /\ \E timedOut \in SUBSET Live :
         /\ stream' = [c \in Clients |-> IF stream[c] = "closed" THEN "freed"
                                         ELSE IF c \in timedOut THEN "closed"
                                         ELSE stream[c]]
         /\ conn' = OnClose(timedOut)
         /\ wbuf' = [c \in Clients |-> IF c \in timedOut THEN <<>> ELSE wbuf[c]]
    /\ UNCHANGED <<backlog, peer, inbox, joining, started, rxLock, rx, tx, simPc,
                   job, sends, unread, overrun>>

Receive(c) ==
    /\ Alive
    /\ worker = "serve"
    /\ stream[c] = "connected"
    /\ inbox[c] # <<>>
    /\ rxLock = "free"
    /\ rxLock' = "worker"
    /\ worker' = "data"
    /\ UNCHANGED <<dyad, net, joining, started, dyadLock, rx, tx, simPc, job, ghost>>

\* one iteration of tcpDataIn: nothing looks whether the ring is full
DataIn(c) ==
    /\ Alive
    /\ worker = "data"
    /\ inbox[c] # <<>>
    /\ stream[c] = "connected"
    /\ rx' = Push(rx, Head(inbox[c]))
    /\ inbox' = [inbox EXCEPT ![c] = Tail(@)]
    /\ unread' = Append(unread, Head(inbox[c]))
    /\ overrun' = (overrun \/ Free(rx) = 0)
    /\ UNCHANGED <<dyad, backlog, peer, sends, joining, started, dyadLock, rxLock,
                   worker, tx, simPc, job>>

DataDone ==
    /\ Alive
    /\ worker = "data"
    /\ \A c \in Clients : stream[c] = "connected" => inbox[c] = <<>>
    /\ rxLock' = "free"
    /\ worker' = "serve"
    /\ UNCHANGED <<dyad, net, joining, started, dyadLock, rx, tx, simPc, job, ghost>>

\* recv() returns 0 or an error
EndOfStream(c) ==
    /\ Alive
    /\ worker = "serve"
    /\ stream[c] = "connected"
    /\ peer[c] = "aborted" \/ (peer[c] = "left" /\ inbox[c] = <<>>)
    /\ Close({c})
    /\ worker' = "flush"
    /\ UNCHANGED <<net, joining, started, dyadLock, rxLock, rx, tx, simPc, job, ghost>>

NothingToRead ==
    /\ Alive
    /\ worker = "serve"
    /\ \A c \in Clients : stream[c] = "connected" =>
                             inbox[c] = <<>> /\ peer[c] = "here"
    /\ worker' = "flush"
    /\ UNCHANGED <<dyad, net, joining, started, dyadLock, rxLock, rx, tx, simPc,
                   job, ghost>>

\* stream_flushWriteBuffer of the live stream: the socket takes some of the
\* bytes, or fails; a closing stream is closed once all of them are out.
FlushWrites(c) ==
    /\ stream[c] \in {"connected", "closing"}
    /\ wbuf[c] # <<>> \/ stream[c] = "closing"
    /\ \/ stream[c] = "closing" /\ Close({c})
       \/ \E k \in 0 .. Len(wbuf[c]) :
            /\ k = Len(wbuf[c]) => stream[c] = "connected"
            /\ wbuf' = [wbuf EXCEPT ![c] = SubSeq(@, k + 1, Len(@))]
            /\ UNCHANGED <<stream, conn>>
       \/ peer[c] # "here" /\ Close({c})

Flush ==
    /\ Alive
    /\ worker = "flush"
    /\ worker' = "listen"
    /\ \/ \E c \in Clients : FlushWrites(c)
       \/ /\ \A c \in Live : wbuf[c] = <<>> /\ stream[c] = "connected"
          /\ UNCHANGED dyad
    /\ UNCHANGED <<net, joining, started, dyadLock, rxLock, rx, tx, simPc, job, ghost>>

\* stream_acceptPendingConnections and onAccept: the newest client wins.
DropNobody == UNCHANGED dyad                                   \* mutant
DropStale == Close({conn} \cap Clients)

CorpseAccepted ==                                              \* mutant
    /\ peer[Head(backlog)] = "aborted"
    /\ DropStale
    /\ joining' = Head(backlog)
    /\ worker' = "take"

AcceptCorpse ==
    /\ peer[Head(backlog)] = "aborted"
    /\ stream' = [stream EXCEPT ![Head(backlog)] = "freed"]
    /\ UNCHANGED <<conn, wbuf, joining, worker>>

AcceptClient ==
    /\ peer[Head(backlog)] # "aborted"
    /\ DropStale
    /\ joining' = Head(backlog)
    /\ worker' = "take"

Accept ==
    /\ Alive
    /\ worker = "listen"
    /\ backlog # <<>>
    /\ backlog' = Tail(backlog)
    /\ AcceptCorpse \/ AcceptClient
    /\ UNCHANGED <<peer, inbox, sends, started, dyadLock, rxLock, rx, tx, simPc,
                   job, ghost>>

TakeClient ==
    /\ Alive
    /\ worker = "take"
    /\ conn' = joining
    /\ stream' = [stream EXCEPT ![joining] = "connected"]
    /\ joining' = Nobody
    /\ worker' = "listen"
    /\ UNCHANGED <<net, wbuf, started, dyadLock, rxLock, rx, tx, simPc, job, ghost>>

EndUpdate ==
    /\ Alive
    /\ worker = "listen"
    /\ backlog = <<>>
    /\ dyadLock' = "free"
    /\ worker' = "idle"
    /\ UNCHANGED <<dyad, net, joining, started, rxLock, rx, tx, simPc, job, ghost>>

Worker ==
    \/ BeginUpdate \/ DataDone \/ NothingToRead \/ Flush
    \/ Accept \/ TakeClient \/ EndUpdate
    \/ \E c \in Clients : Receive(c) \/ DataIn(c) \/ EndOfStream(c)

-----------------------------------------------------------------------------
\* The sim thread.

\* cliProcess: while (serialRxBytesWaiting(cliPort)) serialRead(cliPort)
Poll ==
    /\ simPc = "run"
    /\ rxLock = "free"
    /\ Used(rx) > 0
    /\ simPc' = "poll"
    /\ UNCHANGED <<dyad, net, joining, started, dyadLock, rxLock, worker, rx, tx,
                   job, ghost>>

LockRx ==
    /\ simPc = "poll"
    /\ rxLock = "free"
    /\ rxLock' = "sim"
    /\ simPc' = "read"
    /\ UNCHANGED <<dyad, net, joining, started, dyadLock, worker, rx, tx, job, ghost>>

ForgetUnlock == UNCHANGED rxLock                               \* mutant
UnlockRx == rxLock' = "free"

Read ==
    /\ simPc = "read"
    /\ job' = rx.buf[rx.tail]
    /\ rx' = Pop(rx)
    /\ unread' = IF unread = <<>> THEN <<>> ELSE Tail(unread)
    /\ UnlockRx
    /\ simPc' = IF job' = Nobody THEN "run" ELSE "print"
    /\ UNCHANGED <<dyad, net, joining, started, dyadLock, worker, tx, overrun>>

\* serialWriteBufBlocking spins until the ring has room, then calls tcpWrite
Write ==
    /\ simPc = "print"
    /\ Free(tx) > 0
    /\ tx' = Push(tx, job.from)
    /\ simPc' = "out"
    /\ UNCHANGED <<dyad, net, joining, started, dyadLock, rxLock, worker, rx, job,
                   ghost>>

\* `save` waits for the answer to leave before it resets
Printed == IF job.cmd = "save" THEN "drain" ELSE "run"

\* tcpDataOut's unlocked test
CheckConn ==
    /\ simPc = "out"
    /\ simPc' = IF conn = Nobody THEN Printed ELSE "lock"
    /\ UNCHANGED <<dyad, net, joining, started, dyadLock, rxLock, worker, rx, tx,
                   job, ghost>>

LockDyad ==
    /\ \/ simPc = "lock" /\ simPc' = "write"
       \/ simPc = "cfglock" /\ simPc' = "end"
    /\ dyadLock = "free"
    /\ dyadLock' = "sim"
    /\ UNCHANGED <<dyad, net, joining, started, rxLock, worker, rx, tx, job, ghost>>

\* tcpDataOut under the lock; dyad_write(NULL, ...) ends the process
DataOut ==
    /\ simPc = "write"
    /\ conn # Nobody
    /\ wbuf' = [wbuf EXCEPT ![conn] = @ \o Contents(tx)]
    /\ tx' = [tx EXCEPT !.tail = tx.head]
    /\ dyadLock' = "free"
    /\ simPc' = Printed
    /\ UNCHANGED <<stream, conn, net, joining, started, rxLock, worker, rx, job, ghost>>

DataOutToNull ==
    /\ simPc = "write"
    /\ conn = Nobody
    /\ simPc' = "crashed"
    /\ UNCHANGED <<dyad, net, joining, started, dyadLock, rxLock, worker, rx, tx,
                   job, ghost>>

\* waitForSerialPortToFinishTransmitting, then systemReset -> init -> serTcpOpen
Drained ==
    /\ simPc = "drain"
    /\ tx.head = tx.tail
    /\ simPc' = "cfg"
    /\ UNCHANGED <<dyad, net, joining, started, dyadLock, rxLock, worker, rx, tx,
                   job, ghost>>

\* tcpReconfigure: the first open listens, a later one ends the old client
Listen ==
    /\ simPc = "cfg"
    /\ ~started
    /\ dyadLock = "free"
    /\ started' = TRUE
    /\ conn' = Nobody
    /\ simPc' = "reset"
    /\ UNCHANGED <<stream, wbuf, net, joining, dyadLock, rxLock, worker, rx, tx, job,
                   ghost>>

Reconfigure ==
    /\ simPc = "cfg"
    /\ started
    /\ simPc' = IF conn = Nobody THEN "reset" ELSE "cfglock"
    /\ UNCHANGED <<dyad, net, joining, started, dyadLock, rxLock, worker, rx, tx,
                   job, ghost>>

CloseAtOnce(c) == Close({c})                                   \* mutant
DyadEnd(c) ==
    IF wbuf[c] # <<>>
    THEN stream' = [stream EXCEPT ![c] = "closing"] /\ UNCHANGED <<conn, wbuf>>
    ELSE Close({c})

EndOldClient ==
    /\ simPc = "end"
    /\ IF conn = Nobody THEN UNCHANGED dyad ELSE DyadEnd(conn)
    /\ dyadLock' = "free"
    /\ simPc' = "reset"
    /\ UNCHANGED <<net, joining, started, rxLock, worker, rx, tx, job, ghost>>

\* serTcpOpen: each ring's indexes under its own lock
ResetRx ==
    /\ simPc = "reset"
    /\ rxLock = "free"
    /\ rx' = Reopened(rx)
    /\ unread' = <<>>
    /\ overrun' = FALSE
    /\ simPc' = "reset2"
    /\ UNCHANGED <<dyad, net, joining, started, dyadLock, rxLock, worker, tx, job>>

ResetTx ==
    /\ simPc = "reset2"
    /\ tx' = Reopened(tx)
    /\ job' = Nobody
    /\ simPc' = "run"
    /\ UNCHANGED <<dyad, net, joining, started, dyadLock, rxLock, worker, rx, ghost>>

(* PW_CMD_RESET, under a port that may be open: the statics are rewound under
   pwDyadMutex, except for this file's (pw_serial_tcp_state_range); init()
   then opens the port again, as a reboot does. *)
ConnRewound == Nobody                                          \* mutant
ConnExcluded == conn

Rewind ==
    /\ simPc = "run"
    /\ sends > 0
    /\ sends' = sends - 1
    /\ dyadLock = "free"
    /\ conn' = ConnExcluded
    /\ simPc' = "cfg"
    /\ UNCHANGED <<stream, wbuf, backlog, peer, inbox, joining, started, dyadLock,
                   rxLock, worker, rx, tx, job, ghost>>

Sim ==
    \/ Poll \/ LockRx \/ Read \/ Write \/ CheckConn \/ LockDyad \/ DataOut
    \/ DataOutToNull \/ Drained \/ Listen \/ Reconfigure \/ EndOldClient
    \/ ResetRx \/ ResetTx

Dead == simPc = "crashed" /\ UNCHANGED vars

Environment ==
    \E c \in Clients :
        \/ Connect(c)
        \/ \E cmd \in Commands : Send(c, cmd)
        \/ \E how \in {"left", "aborted"} : Leave(c, how)

Next == Environment \/ Worker \/ Sim \/ Rewind \/ Dead

Spec == Init /\ [][Next]_vars
FairSpec == Spec /\ WF_vars(Worker) /\ WF_vars(Sim)

-----------------------------------------------------------------------------
(* The port's slot is the one live stream, except inside onAccept between
   the close of the old client and the assignment of the new one: no client
   is left connected and unanswered (newest client wins), and s->conn never
   names a stream dyad has closed or freed. *)
OneLiveClient == Live = {conn} \cap Clients

(* As long as the ring was not lapped, the firmware reads exactly what
   arrived, in order. *)
RingIsFifo == ~overrun => Contents(rx) = unread

(* Two threads, two rings and an event loop are a UART with one client at a
   time: only the connected one is heard, in order, every command is answered
   once, nobody is replaced without a close, an answer leaves only while
   somebody is connected and is lost only when the port is opened again, which
   finds empty rings. *)
Unopened ==
    CASE simPc \in {"cfg", "cfglock", "end", "reset"} -> {"in", "out"}
      [] simPc = "reset2" -> {"out"}
      [] OTHER -> {}

Contract == INSTANCE UartContract
                WITH Room    <- Size - 1,
                     owner   <- conn,
                     input   <- Contents(rx),
                     lapped  <- overrun,
                     owed    <- IF simPc = "print" THEN job.from ELSE Nobody,
                     output  <- Contents(tx),
                     opening <- Unopened

UartSpec == Contract!Spec

(* No thread waits for ever: a round of dyad_update the worker has begun
   ends, whatever the sim thread does with its own locks. *)
RoundEnds == (worker # "idle") ~> (worker = "idle" \/ ~Alive)

(* A connection the kernel holds is accepted, so the newest client's CLI
   answers even on a port that never got the old client's close. *)
ClientAccepted ==
    \A c \in Clients : (stream[c] = "backlog") ~> (stream[c] # "backlog" \/ ~Alive)

(* Neither the in-process reboot nor a reset cuts an answer already handed to
   dyad. *)
RebootCutsNoReply ==
    [][\A c \in Clients : simPc = "end" /\ wbuf[c] # <<>> => wbuf'[c] = wbuf[c]]_vars

(* Accepting only ever costs the connected client its port when there is a
   connection to give it to: a corpse in the backlog drops nobody. *)
CorpseDropsNobody ==
    [][\A c \in Live : worker = "listen" /\ conn' = Nobody
                         => peer[Head(backlog)] # "aborted"]_vars

(* VIOLATED.  Every dyad_write has a stream (serial_tcp.c and pw_sitl.c say
   that pwDyadMutex serialises every dyad call). *)
WriteHasStream == simPc # "crashed"

(* VIOLATED.  A reboot asked for comes back to the firmware's main loop. *)
RebootReturns == (simPc = "drain") ~> (simPc = "run" \/ ~Alive)
=============================================================================
