-------------------------- MODULE SerialTcpProofs --------------------------
(***************************************************************************)
(* Proofs about the UART over TCP, for any set of clients and any ring.    *)
(***************************************************************************)
EXTENDS SerialTcp, TLAPS

-----------------------------------------------------------------------------
(* The rings *)

\* The wrapped index of serial_tcp.c stays inside the buffer.
LEMMA BumpInSlots == ASSUME NEW i \in Slots PROVE Bump(i) \in Slots
BY SizeAssumption DEF Bump, Slots

\* tcpTotalRxBytesWaiting and tcpTotalTxBytesFree never underflow.
LEMMA UsedInSlots ==
    ASSUME NEW ring, ring.head \in Slots, ring.tail \in Slots
    PROVE  Used(ring) \in Slots /\ Free(ring) \in Slots
BY SizeAssumption DEF Used, Free, Slots

LEMMA ModInSlots == ASSUME NEW n \in Nat PROVE n % Size \in Slots
BY SizeAssumption DEF Slots

\* What tcpDataOut hands to dyad is a sequence of the ring's bytes.
LEMMA ContentsAreBytes ==
    ASSUME NEW B, NEW ring \in [buf : [Slots -> B], head : Slots, tail : Slots]
    PROVE  Contents(ring) \in Seq(B)
<1>1. Used(ring) \in Nat
  BY UsedInSlots, SizeAssumption DEF Slots
<1>2. ASSUME NEW i \in 1 .. Used(ring)
      PROVE  ring.buf[(ring.tail + i - 1) % Size] \in B
  <2>1. ring.tail + i - 1 \in Nat
    BY <1>1, SizeAssumption DEF Slots
  <2> QED BY <2>1, ModInSlots
<1> QED BY <1>1, <1>2 DEF Contents

LEMMA PushIsRing ==
    ASSUME NEW B, NEW ring \in [buf : [Slots -> B], head : Slots, tail : Slots],
           NEW b \in B
    PROVE  Push(ring, b) \in [buf : [Slots -> B], head : Slots, tail : Slots]
BY BumpInSlots DEF Push

LEMMA PopIsRing ==
    ASSUME NEW B, NEW ring \in [buf : [Slots -> B], head : Slots, tail : Slots]
    PROVE  Pop(ring) \in [buf : [Slots -> B], head : Slots, tail : Slots]
BY BumpInSlots DEF Pop

-----------------------------------------------------------------------------
(* Types *)

(* The sim thread prints, and decides whether to reboot, for a byte it read. *)
JobInHand ==
    simPc \in {"print", "out", "lock", "write"} => job \in Bytes

Typed == TypeOK /\ JobInHand

DyadTypes ==
    /\ stream \in [Clients -> {"none", "backlog", "connected", "closing", "closed", "freed"}]
    /\ conn \in Clients \cup {Nobody}
    /\ wbuf \in [Clients -> Seq(Clients \cup {Nobody})]

LEMMA CloseTypes ==
    ASSUME TypeOK, NEW closed \in SUBSET Clients, Close(closed)
    PROVE  DyadTypes'
BY DEF TypeOK, DyadTypes, Close, OnClose

LEMMA TypesFromTheNetwork == Typed /\ Environment => TypeOK'
<1> SUFFICES ASSUME TypeOK, JobInHand, Environment PROVE TypeOK'
  BY DEF Typed
<1>1. PICK c \in Clients : \/ Connect(c)
                           \/ \E cmd \in Commands : Send(c, cmd)
                           \/ \E how \in {"left", "aborted"} : Leave(c, how)
  BY DEF Environment
<1>2. CASE Connect(c)
  BY <1>2 DEF TypeOK, Connect
<1>3. ASSUME NEW cmd \in Commands, Send(c, cmd)
      PROVE  TypeOK'
  <2>1. [from |-> c, cmd |-> cmd] \in Bytes
    BY <1>3 DEF Bytes
  <2>2. inbox' \in [Clients -> Seq(Bytes)]
    BY <1>3, <2>1 DEF TypeOK, Send
  <2>3. sends' \in 0 .. MaxSends
    BY <1>3, SendsAssumption DEF TypeOK, Send
  <2> QED BY <1>3, <2>2, <2>3 DEF TypeOK, Send
<1>4. ASSUME NEW how \in {"left", "aborted"}, Leave(c, how)
      PROVE  TypeOK'
  BY <1>4, SMTT(30) DEF TypeOK, Leave
<1> QED BY <1>1, <1>2, <1>3, <1>4

LEMMA TypesFromTheWorker == Typed /\ Worker => TypeOK'
<1> SUFFICES ASSUME TypeOK, JobInHand, Worker PROVE TypeOK'
  BY DEF Typed
<1>1. CASE BeginUpdate
  BY <1>1 DEF TypeOK, BeginUpdate, OnClose
<1>2. CASE DataDone
  BY <1>2 DEF TypeOK, DataDone, dyad, net, ghost
<1>3. CASE NothingToRead
  BY <1>3 DEF TypeOK, NothingToRead, dyad, net, ghost
<1>4. CASE EndUpdate
  BY <1>4 DEF TypeOK, EndUpdate, dyad, net, ghost
<1>5. CASE Flush
  <2>1. CASE \E c \in Clients : FlushWrites(c)
    <3>1. PICK c \in Clients : FlushWrites(c)
      BY <2>1
    <3>2. CASE Close({c})
      <4>1. DyadTypes'
        BY <3>2, CloseTypes
      <4>2. worker' = "listen" /\ UNCHANGED <<backlog, peer, inbox, sends, joining,
                started, dyadLock, rxLock, rx, tx, simPc, job, unread, overrun>>
        BY <1>5 DEF Flush, net, ghost
      <4> QED BY SMTT(40), <4>1, <4>2 DEF TypeOK, DyadTypes
    <3>3. ASSUME NEW k \in 0 .. Len(wbuf[c]),
                 wbuf' = [wbuf EXCEPT ![c] = SubSeq(@, k + 1, Len(@))],
                 UNCHANGED <<stream, conn>>
          PROVE  TypeOK'
      <4>1. SubSeq(wbuf[c], k + 1, Len(wbuf[c])) \in Seq(Clients \cup {Nobody})
        BY DEF TypeOK
      <4>2. wbuf' \in [Clients -> Seq(Clients \cup {Nobody})]
        BY <3>3, <4>1 DEF TypeOK
      <4> QED BY <1>5, <3>3, <4>2 DEF TypeOK, Flush, net, ghost
    <3> QED BY <3>1, <3>2, <3>3 DEF FlushWrites
  <2>2. CASE UNCHANGED dyad
    BY <1>5, <2>2 DEF TypeOK, Flush, dyad, net, ghost
  <2> QED BY <1>5, <2>1, <2>2 DEF Flush
<1>6. CASE Accept
  <2>1. Head(backlog) \in Clients /\ Tail(backlog) \in Seq(Clients)
    BY <1>6 DEF TypeOK, Accept
  <2>2. CASE AcceptCorpse
    BY <1>6, <2>1, <2>2 DEF TypeOK, Accept, AcceptCorpse, ghost
  <2>3. CASE AcceptClient
    <3>1. DyadTypes'
      BY <2>3, CloseTypes DEF AcceptClient, DropStale
    <3> QED BY <1>6, <2>1, <2>3, <3>1, SMTT(30)
            DEF TypeOK, DyadTypes, Accept, AcceptClient, ghost
  <2> QED BY <1>6, <2>2, <2>3 DEF Accept
<1>7. CASE TakeClient
  <2>1. stream' \in [Clients -> {"none", "backlog", "connected", "closing",
                                  "closed", "freed"}]
    BY <1>7 DEF TypeOK, TakeClient
  <2>2. conn' \in Clients \cup {Nobody} /\ joining' \in Clients \cup {Nobody}
    BY <1>7 DEF TypeOK, TakeClient
  <2> QED BY <1>7, <2>1, <2>2 DEF TypeOK, TakeClient, net, ghost
<1>8. ASSUME NEW c \in Clients, Receive(c)
      PROVE  TypeOK'
  BY <1>8 DEF TypeOK, Receive, dyad, net, ghost
<1>9. ASSUME NEW c \in Clients, DataIn(c)
      PROVE  TypeOK'
  <2>1. Head(inbox[c]) \in Bytes /\ Tail(inbox[c]) \in Seq(Bytes)
    BY <1>9 DEF TypeOK, DataIn
  <2>2. rx' \in [buf : [Slots -> Bytes \cup {Nobody}], head : Slots, tail : Slots]
    BY <1>9, <2>1, PushIsRing DEF TypeOK, DataIn
  <2>3. inbox' \in [Clients -> Seq(Bytes)] /\ unread' \in Seq(Bytes)
    BY <1>9, <2>1 DEF TypeOK, DataIn
  <2>4. overrun' \in BOOLEAN
    BY <1>9, Zenon DEF TypeOK, DataIn
  <2> QED BY <1>9, <2>2, <2>3, <2>4, SMTT(30) DEF TypeOK, DataIn, dyad
<1>10. ASSUME NEW c \in Clients, EndOfStream(c)
       PROVE  TypeOK'
  <2>1. DyadTypes'
    BY <1>10, CloseTypes DEF EndOfStream
  <2>2. worker' = "flush" /\ UNCHANGED <<backlog, peer, inbox, sends, joining,
            started, dyadLock, rxLock, rx, tx, simPc, job, unread, overrun>>
    BY <1>10 DEF EndOfStream, net, ghost
  <2> QED BY SMTT(40), <2>1, <2>2 DEF TypeOK, DyadTypes
<1> QED BY <1>1, <1>2, <1>3, <1>4, <1>5, <1>6, <1>7, <1>8, <1>9, <1>10 DEF Worker

LEMMA TypesFromTheSim == Typed /\ Sim => TypeOK'
<1> SUFFICES ASSUME TypeOK, JobInHand, Sim PROVE TypeOK'
  BY DEF Typed
<1>1. CASE Poll \/ LockRx \/ CheckConn \/ LockDyad \/ DataOutToNull \/ Drained
                \/ Reconfigure
  BY <1>1 DEF TypeOK, Poll, LockRx, CheckConn, LockDyad, DataOutToNull, Drained,
              Reconfigure, Printed, dyad, net, ghost
<1>2. CASE Read
  <2>1. job' \in Bytes \cup {Nobody}
    BY <1>2 DEF TypeOK, Read
  <2>2. rx' \in [buf : [Slots -> Bytes \cup {Nobody}], head : Slots, tail : Slots]
    BY <1>2, PopIsRing DEF TypeOK, Read
  <2>3. unread' \in Seq(Bytes)
    BY <1>2 DEF TypeOK, Read
  <2> QED BY <1>2, <2>1, <2>2, <2>3 DEF TypeOK, Read, UnlockRx, dyad, net
<1>3. CASE Write
  <2>1. job.from \in Clients \cup {Nobody}
    BY <1>3 DEF JobInHand, Write, Bytes
  <2>2. tx' \in [buf : [Slots -> Clients \cup {Nobody}], head : Slots, tail : Slots]
    BY <1>3, <2>1, PushIsRing DEF TypeOK, Write
  <2> QED BY <1>3, <2>2 DEF TypeOK, Write, dyad, net, ghost
<1>4. CASE DataOut
  <2>1. Contents(tx) \in Seq(Clients \cup {Nobody})
    BY ContentsAreBytes DEF TypeOK
  <2>2. wbuf' \in [Clients -> Seq(Clients \cup {Nobody})]
    BY <1>4, <2>1 DEF TypeOK, DataOut
  <2>3. tx' \in [buf : [Slots -> Clients \cup {Nobody}], head : Slots, tail : Slots]
    BY <1>4 DEF TypeOK, DataOut
  <2> QED BY <1>4, <2>2, <2>3 DEF TypeOK, DataOut, Printed, net, ghost
<1>5. CASE Listen
  BY <1>5 DEF TypeOK, Listen, net, ghost
<1>6. CASE EndOldClient
  <2>1. DyadTypes'
    <3>1. CASE conn = Nobody
      BY <1>6, <3>1 DEF TypeOK, DyadTypes, EndOldClient, dyad
    <3>2. CASE conn # Nobody
      <4>1. conn \in Clients /\ DyadEnd(conn)
        BY <1>6, <3>2 DEF TypeOK, EndOldClient
      <4>2. CASE wbuf[conn] # <<>>
        BY <4>1, <4>2 DEF TypeOK, DyadTypes, DyadEnd
      <4>3. CASE wbuf[conn] = <<>>
        BY <4>1, <4>3, CloseTypes DEF DyadEnd
      <4> QED BY <4>2, <4>3
    <3> QED BY <3>1, <3>2
  <2> QED BY <1>6, <2>1 DEF TypeOK, DyadTypes, EndOldClient, net, ghost
<1>7. CASE ResetRx
  <2>1. 0 \in Slots
    BY SizeAssumption DEF Slots
  <2>2. rx' \in [buf : [Slots -> Bytes \cup {Nobody}], head : Slots, tail : Slots]
    BY <1>7, <2>1 DEF TypeOK, ResetRx, Reopened
  <2>3. <<>> \in Seq(Bytes)
    OBVIOUS
  <2>4. unread' \in Seq(Bytes)
    BY <1>7, <2>3, Zenon DEF ResetRx
  <2>5. overrun' \in BOOLEAN
    BY <1>7, Zenon DEF ResetRx
  <2> QED BY <1>7, <2>2, <2>4, <2>5 DEF TypeOK, ResetRx, dyad, net
<1>8. CASE ResetTx
  <2>1. 0 \in Slots
    BY SizeAssumption DEF Slots
  <2>2. tx' \in [buf : [Slots -> Clients \cup {Nobody}], head : Slots, tail : Slots]
    BY <1>8, <2>1 DEF TypeOK, ResetTx, Reopened
  <2> QED BY <1>8, <2>2 DEF TypeOK, ResetTx, dyad, net, ghost
<1> QED BY <1>1, <1>2, <1>3, <1>4, <1>5, <1>6, <1>7, <1>8 DEF Sim

LEMMA JobStaysInHand == Typed /\ [Next]_vars => JobInHand'
<1> SUFFICES ASSUME TypeOK, JobInHand, [Next]_vars PROVE JobInHand'
  BY DEF Typed
<1>1. CASE UNCHANGED vars
  BY <1>1 DEF JobInHand, vars
<1>2. CASE Environment
  BY <1>2 DEF JobInHand, Environment, Connect, Send, Leave
<1>3. CASE Worker
  BY <1>3 DEF JobInHand, Worker, BeginUpdate, DataDone, NothingToRead, Flush,
              Accept, TakeClient, EndUpdate, Receive, DataIn, EndOfStream
<1>4. CASE Sim
  <2>1. CASE Read
    BY <2>1 DEF TypeOK, JobInHand, Read
  <2>2. CASE ~ Read
    BY <1>4, <2>2 DEF JobInHand, Sim, Poll, LockRx, Write, CheckConn, Printed,
                      LockDyad, DataOut, DataOutToNull, Drained, Listen,
                      Reconfigure, EndOldClient, ResetRx, ResetTx
  <2> QED BY <2>1, <2>2
<1>5. CASE Rewind
  BY <1>5 DEF JobInHand, Rewind
<1> QED BY <1>1, <1>2, <1>3, <1>4, <1>5 DEF Next, Dead

LEMMA InitTyped == Init => Typed
<1>1. 0 \in Slots /\ MaxSends \in 0 .. MaxSends
    BY SizeAssumption, SendsAssumption DEF Slots
<1> SUFFICES ASSUME Init PROVE TypeOK /\ JobInHand
    BY DEF Typed
<1>2. /\ rx \in [buf : [Slots -> Bytes \cup {Nobody}], head : Slots, tail : Slots]
        /\ tx \in [buf : [Slots -> Clients \cup {Nobody}], head : Slots, tail : Slots]
    BY <1>1 DEF Init, Empty
<1>3. overrun \in BOOLEAN /\ started \in BOOLEAN
    BY DEF Init
<1>4. JobInHand
    BY DEF Init, JobInHand
<1> QED BY <1>1, <1>2, <1>3, <1>4 DEF Init, TypeOK

LEMMA TypedIsInductive == Spec => []Typed
<1>1. Init => Typed
  BY InitTyped
<1>2. Typed /\ [Next]_vars => Typed'
  <2> SUFFICES ASSUME Typed, [Next]_vars PROVE TypeOK'
    BY JobStaysInHand DEF Typed
  <2>1. CASE UNCHANGED vars
    BY <2>1 DEF Typed, TypeOK, vars
  <2>2. CASE Dead
    BY <2>2 DEF Dead, Typed, TypeOK, vars
  <2>3. CASE Environment \/ Worker \/ Sim
    BY <2>3, TypesFromTheNetwork, TypesFromTheWorker, TypesFromTheSim
  <2>4. CASE Rewind
    <3>1. sends' \in 0 .. MaxSends
      BY <2>4, SendsAssumption DEF Rewind, Typed, TypeOK
    <3> QED BY <2>4, <3>1 DEF Rewind, ConnExcluded, Typed, TypeOK, ghost
  <2> QED BY <2>1, <2>2, <2>3, <2>4 DEF Next
<1> QED BY <1>1, <1>2, PTL DEF Spec

\* The rings' indexes stay inside their buffers, a lapped ring included, and
\* every thread is at one of its places.
THEOREM PortTypes == Spec => []TypeOK
BY TypedIsInductive, PTL DEF Typed

-----------------------------------------------------------------------------
(* One live client.  The slot and the streams agree because every thread
   that changes them holds pwDyadMutex, and because a client waiting in the
   backlog, or being accepted, has no other stream. *)

MutexHeld ==
    /\ simPc \in {"write", "end"} => dyadLock = "sim"
    /\ worker # "idle" <=> dyadLock = "worker"

BacklogWaits ==
    /\ \A i \in 1 .. Len(backlog) : /\ stream[backlog[i]] = "backlog"
                                    /\ backlog[i] # joining
    /\ \A i, j \in 1 .. Len(backlog) : backlog[i] = backlog[j] => i = j

Taking == worker = "take" => joining \in Clients /\ conn = Nobody
                             /\ stream[joining] = "backlog"

NotTaking == worker # "take" => joining = Nobody

NobodyYet == ~started => conn = Nobody /\ worker # "take" /\ backlog = <<>>

PortInv == TypeOK /\ MutexHeld /\ BacklogWaits /\ Taking /\ NotTaking /\ NobodyYet
           /\ OneLiveClient

(* dyad_close with its onClose keeps the slot and the live stream together. *)
LEMMA CloseKeepsSlot ==
    ASSUME TypeOK, OneLiveClient, NEW closed \in SUBSET Clients, Close(closed),
           closed \subseteq Live
    PROVE  /\ OneLiveClient'
           /\ \A c \in Clients : stream[c] = "backlog" => stream'[c] = "backlog"
           /\ conn' = conn \/ conn' = Nobody
<1>1. Live' = Live \ closed
  BY DEF TypeOK, Close, Live
<1>2. OneLiveClient'
  BY <1>1, NobodyAssumption DEF TypeOK, OneLiveClient, Close, OnClose
<1>3. ASSUME NEW c \in Clients, stream[c] = "backlog"
      PROVE  stream'[c] = "backlog"
  BY <1>3 DEF Close, Live
<1>4. conn' = conn \/ conn' = Nobody
  BY DEF Close, OnClose
<1> QED BY <1>2, <1>3, <1>4

(* The backlog's elements are clients, and waiting ones stay so. *)
LEMMA BacklogOfClients ==
    ASSUME TypeOK, NEW i \in 1 .. Len(backlog)
    PROVE  backlog[i] \in Clients
BY DEF TypeOK

LEMMA BacklogKept ==
    ASSUME TypeOK, BacklogWaits, UNCHANGED <<backlog, joining>>,
           \A c \in Clients : stream[c] = "backlog" => stream'[c] = "backlog"
    PROVE  BacklogWaits'
<1>1. backlog' = backlog /\ joining' = joining
  OBVIOUS
<1>2. ASSUME NEW i \in 1 .. Len(backlog)
      PROVE  stream'[backlog[i]] = "backlog" /\ backlog[i] # joining
  BY BacklogOfClients DEF BacklogWaits
<1> QED BY <1>1, <1>2 DEF BacklogWaits

LEMMA PortInvFromTheNetwork == PortInv /\ TypeOK' /\ Environment => PortInv'
<1> SUFFICES ASSUME PortInv, TypeOK', Environment PROVE PortInv'
  OBVIOUS
<1>1. PICK c \in Clients : \/ Connect(c)
                           \/ \E cmd \in Commands : Send(c, cmd)
                           \/ \E how \in {"left", "aborted"} : Leave(c, how)
  BY DEF Environment
<1>2. CASE Connect(c)
  <2>1. Live' = Live
    BY <1>2 DEF PortInv, TypeOK, Connect, Live
  <2>2. BacklogWaits'
    <3>1. \A i \in 1 .. Len(backlog) : backlog[i] # c
      BY <1>2 DEF PortInv, BacklogWaits, Connect
    <3>2. c # joining
      BY <1>2, NobodyAssumption DEF PortInv, Taking, NotTaking, Connect
    <3>3. /\ Len(backlog') = Len(backlog) + 1
          /\ \A i \in 1 .. Len(backlog) : backlog'[i] = backlog[i]
          /\ backlog'[Len(backlog) + 1] = c
      BY <1>2 DEF PortInv, TypeOK, Connect
    <3>4. stream'[c] = "backlog" /\ \A d \in Clients : d # c => stream'[d] = stream[d]
      BY <1>2 DEF PortInv, TypeOK, Connect
    <3>5. \A i \in 1 .. Len(backlog) : backlog[i] \in Clients
      BY DEF PortInv, TypeOK
    <3>6. joining' = joining /\ Len(backlog) \in Nat
      BY <1>2 DEF PortInv, TypeOK, Connect
    <3>7. ASSUME NEW i \in 1 .. Len(backlog')
          PROVE  i \in 1 .. Len(backlog) \/ i = Len(backlog) + 1
      BY <3>3, <3>6
    <3> QED BY <3>1, <3>2, <3>3, <3>4, <3>5, <3>6, <3>7 DEF PortInv, BacklogWaits
  <2>3. Taking'
    BY <1>2 DEF PortInv, TypeOK, Taking, Connect
  <2> QED BY <1>2, <2>1, <2>2, <2>3
          DEF PortInv, MutexHeld, NotTaking, NobodyYet, OneLiveClient, Connect
<1>3. CASE \/ \E cmd \in Commands : Send(c, cmd)
           \/ \E how \in {"left", "aborted"} : Leave(c, how)
  <2>1. UNCHANGED <<stream, conn, backlog, joining, worker, dyadLock, started, simPc>>
    BY <1>3 DEF Send, Leave
  <2> QED BY <2>1 DEF PortInv, MutexHeld, BacklogWaits, Taking, NotTaking, NobodyYet,
                      OneLiveClient, Live
<1> QED BY <1>1, <1>2, <1>3

LEMMA PortInvFromTheWorker == PortInv /\ TypeOK' /\ Worker => PortInv'
<1> SUFFICES ASSUME PortInv, TypeOK', Worker PROVE PortInv'
  OBVIOUS
<1> USE DEF PortInv
<1>1. CASE BeginUpdate
  <2>1. PICK timedOut \in SUBSET Live :
           /\ stream' = [c \in Clients |-> IF stream[c] = "closed" THEN "freed"
                                           ELSE IF c \in timedOut THEN "closed"
                                           ELSE stream[c]]
           /\ conn' = OnClose(timedOut)
    BY <1>1 DEF BeginUpdate
  <2>2. Live' = Live \ timedOut
    BY <2>1 DEF TypeOK, Live
  <2>3. OneLiveClient'
    BY <2>1, <2>2, NobodyAssumption, SMTT(30) DEF TypeOK, OneLiveClient, OnClose, Live
  <2>4. \A c \in Clients : stream[c] = "backlog" => stream'[c] = "backlog"
    BY <2>1 DEF Live
  <2>5. BacklogWaits'
    BY <1>1, <2>4 DEF BeginUpdate, BacklogWaits, TypeOK
  <2>6. MutexHeld' /\ Taking' /\ NotTaking' /\ NobodyYet'
    BY <1>1, <2>1 DEF BeginUpdate, MutexHeld, Taking, NotTaking, NobodyYet, OnClose
  <2> QED BY <2>3, <2>5, <2>6
<1>2. CASE DataDone \/ NothingToRead \/ EndUpdate \/ \E c \in Clients : Receive(c) \/ DataIn(c)
  <2>1. UNCHANGED <<stream, conn, backlog, joining, started, simPc>>
    BY <1>2 DEF DataDone, NothingToRead, EndUpdate, Receive, DataIn, dyad, net
  <2>2. MutexHeld' /\ worker # "take" /\ worker' # "take"
    BY <1>2 DEF DataDone, NothingToRead, EndUpdate, Receive, DataIn, MutexHeld
  <2> QED BY <2>1, <2>2 DEF BacklogWaits, Taking, NotTaking, NobodyYet, OneLiveClient, Live
<1>3. CASE Flush \/ \E c \in Clients : EndOfStream(c)
  <2>1. /\ UNCHANGED <<backlog, joining, started, simPc, dyadLock>>
        /\ worker \in {"serve", "flush"} /\ worker' \in {"flush", "listen"}
    BY <1>3 DEF Flush, EndOfStream, net
  <2>2. \/ UNCHANGED <<stream, conn>>
        \/ \E c \in Live : Close({c})
    BY <1>3 DEF Flush, FlushWrites, EndOfStream, dyad, Live
  <2>3. /\ OneLiveClient'
        /\ \A c \in Clients : stream[c] = "backlog" => stream'[c] = "backlog"
        /\ conn' = conn \/ conn' = Nobody
    <3>1. CASE UNCHANGED <<stream, conn>>
      BY <3>1 DEF OneLiveClient, Live
    <3>2. CASE \E c \in Live : Close({c})
      <4>1. PICK c \in Live : Close({c})
        BY <3>2
      <4>2. {c} \in SUBSET Clients /\ {c} \subseteq Live
        BY DEF Live
      <4> QED BY <4>1, <4>2, CloseKeepsSlot
    <3> QED BY <2>2, <3>1, <3>2
  <2>4. BacklogWaits'
    BY <2>1, <2>3, BacklogKept
  <2>5. MutexHeld' /\ Taking' /\ NotTaking' /\ NobodyYet'
    BY <2>1, <2>3 DEF MutexHeld, Taking, NotTaking, NobodyYet
  <2> QED BY <2>3, <2>4, <2>5
<1>4. CASE Accept
  <2>1. /\ Len(backlog) \in Nat \ {0}
        /\ Len(backlog') = Len(backlog) - 1
        /\ Head(backlog) = backlog[1]
        /\ \A i \in 1 .. Len(backlog') : backlog'[i] = backlog[i + 1]
        /\ \A i \in 1 .. Len(backlog) : backlog[i] \in Clients
        /\ Head(backlog) \in Clients
        /\ stream[Head(backlog)] = "backlog"
    <3>1. backlog \in Seq(Clients) /\ backlog # <<>> /\ backlog' = Tail(backlog)
      BY <1>4 DEF Accept, TypeOK
    <3>2. /\ Len(backlog) \in Nat \ {0}
          /\ Len(backlog') = Len(backlog) - 1
          /\ Head(backlog) = backlog[1]
          /\ \A i \in 1 .. Len(backlog') : backlog'[i] = backlog[i + 1]
      BY <3>1
    <3>3. 1 \in 1 .. Len(backlog)
      BY <3>2
    <3> QED BY <3>2, <3>3, BacklogOfClients DEF BacklogWaits
  <2>2. \A i \in 1 .. Len(backlog') : backlog'[i] # Head(backlog)
    BY <2>1 DEF BacklogWaits
  <2>3. UNCHANGED <<started, simPc, dyadLock>> /\ worker = "listen"
    BY <1>4 DEF Accept
  <2>4. ASSUME \A c \in Clients : stream[c] = "backlog" /\ c # Head(backlog)
                                     => stream'[c] = "backlog",
               joining' \in {joining, Head(backlog)}
        PROVE  BacklogWaits'
    <3>1. \A i \in 1 .. Len(backlog') : /\ i + 1 \in 1 .. Len(backlog)
                                        /\ backlog'[i] \in Clients
      BY <2>1
    <3> QED BY <2>1, <2>2, <2>4, <3>1 DEF BacklogWaits
  <2>5. CASE AcceptCorpse
    <3>1. Live' = Live
      BY <2>1, <2>5 DEF AcceptCorpse, TypeOK, Live
    <3>2. \A c \in Clients : stream[c] = "backlog" /\ c # Head(backlog)
                                     => stream'[c] = "backlog"
      BY <2>5 DEF AcceptCorpse, TypeOK
    <3> QED BY <2>3, <2>4, <2>5, <3>1, <3>2, <1>4
            DEF AcceptCorpse, MutexHeld, Taking, NotTaking, NobodyYet, OneLiveClient, Accept
  <2>6. CASE AcceptClient
    <3>1. {conn} \cap Clients \in SUBSET Clients /\ {conn} \cap Clients \subseteq Live
      BY DEF OneLiveClient
    <3>2. /\ OneLiveClient'
          /\ \A c \in Clients : stream[c] = "backlog" => stream'[c] = "backlog"
      BY <2>6, <3>1, CloseKeepsSlot DEF AcceptClient, DropStale
    <3>3. conn' = Nobody
      BY <2>6 DEF AcceptClient, DropStale, Close, OnClose, TypeOK
    <3> QED BY <1>4, <2>1, <2>3, <2>4, <2>6, <3>2, <3>3
            DEF Accept, AcceptClient, MutexHeld, Taking, NotTaking, NobodyYet
  <2> QED BY <1>4, <2>5, <2>6 DEF Accept
<1>5. CASE TakeClient
  <2>1. joining \in Clients /\ conn = Nobody
    BY <1>5 DEF TakeClient, Taking
  <2>2. Live = {}
    BY <2>1, NobodyAssumption DEF OneLiveClient
  <2>3. Live' = {joining}
    BY <1>5, <2>1, <2>2 DEF TakeClient, TypeOK, Live
  <2>4. BacklogWaits'
    <3>1. \A i \in 1 .. Len(backlog) : backlog[i] \in Clients /\ backlog[i] # joining
      BY BacklogOfClients DEF BacklogWaits
    <3>2. \A c \in Clients : c # joining => stream'[c] = stream[c]
      BY <1>5 DEF TakeClient, TypeOK
    <3>3. backlog' = backlog /\ joining' = Nobody
      BY <1>5 DEF TakeClient, net
    <3> QED BY <3>1, <3>2, <3>3, NobodyAssumption DEF BacklogWaits
  <2> QED BY <1>5, <2>1, <2>3, <2>4
          DEF TakeClient, net, MutexHeld, Taking, NotTaking, NobodyYet, OneLiveClient
<1> QED BY <1>1, <1>2, <1>3, <1>4, <1>5 DEF Worker

LEMMA PortInvFromTheSim == PortInv /\ TypeOK' /\ Sim => PortInv'
<1> SUFFICES ASSUME PortInv, TypeOK', Sim PROVE PortInv'
  OBVIOUS
<1> USE DEF PortInv
<1>1. UNCHANGED <<backlog, joining, worker>>
  BY DEF Sim, Poll, LockRx, Read, Write, CheckConn, LockDyad, DataOut, DataOutToNull,
         Drained, Listen, Reconfigure, EndOldClient, ResetRx, ResetTx, net
<1>2. MutexHeld'
  BY <1>1 DEF MutexHeld, Printed, Sim, Poll, LockRx, Read, Write, CheckConn, LockDyad,
         DataOut, DataOutToNull, Drained, Listen, Reconfigure, EndOldClient, ResetRx,
         ResetTx
<1>3. /\ OneLiveClient'
      /\ \A c \in Clients : stream[c] = "backlog" => stream'[c] = "backlog"
      /\ conn' = conn \/ conn' = Nobody
      /\ started => started'
  <2>1. CASE EndOldClient
    <3>1. CASE conn = Nobody
      BY <2>1, <3>1 DEF EndOldClient, dyad, OneLiveClient, Live
    <3>2. CASE conn # Nobody /\ wbuf[conn] # <<>>
      <4>1. conn \in Live
        BY <3>2 DEF OneLiveClient, TypeOK
      <4>2. stream' = [stream EXCEPT ![conn] = "closing"] /\ UNCHANGED conn
        BY <2>1, <3>2 DEF EndOldClient, DyadEnd
      <4>3. Live' = Live
        BY <4>1, <4>2 DEF TypeOK, Live
      <4> QED BY <2>1, <4>1, <4>2, <4>3 DEF EndOldClient, OneLiveClient, TypeOK, Live
    <3>3. CASE conn # Nobody /\ wbuf[conn] = <<>>
      <4>1. {conn} \in SUBSET Clients /\ {conn} \subseteq Live
        BY <3>3 DEF OneLiveClient, TypeOK
      <4>2. Close({conn}) /\ UNCHANGED started
        BY <2>1, <3>3 DEF EndOldClient, DyadEnd
      <4> QED BY <4>1, <4>2, CloseKeepsSlot
    <3> QED BY <3>1, <3>2, <3>3
  <2>2. CASE Listen
    BY <2>2 DEF Listen, NobodyYet, OneLiveClient, Live
  <2>3. CASE ~ EndOldClient /\ ~ Listen
    <3>1. UNCHANGED <<stream, conn, started>>
      BY <2>3 DEF Sim, Poll, LockRx, Read, Write, CheckConn, LockDyad, DataOut,
                  DataOutToNull, Drained, Reconfigure, ResetRx, ResetTx, dyad
    <3> QED BY <3>1 DEF OneLiveClient, Live
  <2> QED BY <2>1, <2>2, <2>3
<1>4. BacklogWaits'
  BY <1>1, <1>3, BacklogKept
<1>5. Taking' /\ NotTaking' /\ NobodyYet'
  BY <1>1, <1>3 DEF Taking, NotTaking, NobodyYet
<1> QED BY <1>2, <1>3, <1>4, <1>5

LEMMA PortInvIsInductive == Spec => []PortInv
<1>1. Init => PortInv
  <2> SUFFICES ASSUME Init PROVE MutexHeld /\ BacklogWaits /\ Taking /\ NotTaking
                                 /\ NobodyYet /\ OneLiveClient
    BY InitTyped DEF PortInv, Typed
  <2> QED BY NobodyAssumption DEF Init, MutexHeld, BacklogWaits, Taking, NotTaking,
             NobodyYet, OneLiveClient, Live
<1>2. PortInv /\ TypeOK' /\ [Next]_vars => PortInv'
  <2> SUFFICES ASSUME PortInv, TypeOK', [Next]_vars PROVE PortInv'
    OBVIOUS
  <2>1. CASE UNCHANGED vars
    BY <2>1 DEF vars, PortInv, MutexHeld, BacklogWaits, Taking, NotTaking, NobodyYet,
                OneLiveClient, Live
  <2>2. CASE Rewind
    BY <2>2 DEF Rewind, ConnExcluded, PortInv, MutexHeld, BacklogWaits, Taking, NotTaking,
                NobodyYet, OneLiveClient, Live
  <2>3. CASE Next
    BY <2>1, <2>2, <2>3, PortInvFromTheNetwork, PortInvFromTheWorker, PortInvFromTheSim
       DEF Next, Dead
  <2> QED BY <2>1, <2>3
<1> QED BY <1>1, <1>2, TypedIsInductive, PTL DEF Spec, Typed

\* s->conn is the one stream dyad keeps open for this port, at every step of
\* every interleaving of the two threads and of any number of clients.
THEOREM NewestClientWins == Spec => []OneLiveClient
BY PortInvIsInductive, PTL DEF PortInv

\* No answer dyad was handed is lost to an in-process reboot.
THEOREM RebootKeepsReplies == Spec => RebootCutsNoReply
<1>1. PortInv /\ [Next]_vars =>
        [\A c \in Clients : simPc = "end" /\ wbuf[c] # <<>> => wbuf'[c] = wbuf[c]]_vars
  <2> SUFFICES ASSUME PortInv, Next, simPc = "end", NEW c \in Clients, wbuf[c] # <<>>
               PROVE  wbuf'[c] = wbuf[c]
    BY DEF vars
  <2>1. worker = "idle" /\ dyadLock = "sim"
    BY DEF PortInv, MutexHeld
  <2>2. CASE EndOldClient
    BY <2>2 DEF EndOldClient, DyadEnd, Close, dyad, PortInv, TypeOK
  <2>3. CASE ~ EndOldClient
    BY <2>1, <2>3 DEF Next, Environment, Connect, Send, Leave, Worker, BeginUpdate,
           DataDone, NothingToRead, Flush, Accept, TakeClient, EndUpdate, Receive,
           DataIn, EndOfStream, Sim, Poll, LockRx, Read, Write, CheckConn, LockDyad,
           DataOut, DataOutToNull, Drained, Listen, Reconfigure, ResetRx, ResetTx,
           Rewind, Dead, vars
  <2> QED BY <2>2, <2>3
<1> QED BY <1>1, PortInvIsInductive, PTL DEF Spec, RebootCutsNoReply

\* A connection that died in the backlog never costs the healthy one its port.
THEOREM CorpsesAreHarmless == Spec => CorpseDropsNobody
<1>1. PortInv /\ [Next]_vars =>
        [\A c \in Live : worker = "listen" /\ conn' = Nobody
                            => peer[Head(backlog)] # "aborted"]_vars
  <2> SUFFICES ASSUME PortInv, Next, NEW c \in Live, worker = "listen", conn' = Nobody
               PROVE  peer[Head(backlog)] # "aborted"
    BY DEF vars
  <2>1. conn # Nobody /\ dyadLock = "worker"
    BY NobodyAssumption DEF PortInv, OneLiveClient, MutexHeld, Live
  <2>2. Accept
    BY <2>1 DEF Next, Environment, Connect, Send, Leave, Worker, BeginUpdate,
           DataDone, NothingToRead, Flush, TakeClient, EndUpdate, Receive,
           DataIn, EndOfStream, Sim, Poll, LockRx, Read, Write, CheckConn, LockDyad,
           DataOut, DataOutToNull, Drained, Listen, Reconfigure, EndOldClient, ResetRx,
           ResetTx, Rewind, ConnExcluded, Dead, vars, dyad, PortInv, MutexHeld, NobodyYet
  <2> QED BY <2>1, <2>2 DEF Accept, AcceptCorpse, AcceptClient
<1> QED BY <1>1, PortInvIsInductive, PTL DEF Spec, CorpseDropsNobody

-----------------------------------------------------------------------------
(* The receive ring is a queue.  The ring's slots are compared with the bytes
   that arrived one by one; indexes go round at most once. *)

\* Division with remainder.
LEMMA DivMod ==
    ASSUME NEW n \in Nat, NEW m \in Nat \ {0}
    PROVE  n \div m \in Nat /\ n % m \in 0 .. m - 1 /\ (n \div m) * m + (n % m) = n
OBVIOUS

\* A multiple that is too small to be the second.
LEMMA NotTwice ==
    ASSUME NEW q \in Nat, NEW m \in Nat \ {0}, NEW r \in 0 .. m - 1, q * m + r < 2 * m
    PROVE  q = 0 \/ q = 1
<1>1. q >= 2 => q * m >= 2 * m
  OBVIOUS
<1>2. q * m \in Nat
  OBVIOUS
<1> QED BY <1>1, <1>2

LEMMA WrapsOnce ==
    ASSUME NEW n \in 0 .. 2 * Size - 1
    PROVE  n % Size = IF n < Size THEN n ELSE n - Size
<1>1. Size \in Nat \ {0} /\ n \in Nat /\ n < 2 * Size
  BY SizeAssumption
<1> DEFINE q == n \div Size
           r == n % Size
<1>2. q \in Nat /\ r \in 0 .. Size - 1 /\ q * Size + r = n
  BY <1>1, DivMod
<1> HIDE DEF q, r
<1>3. q = 0 \/ q = 1
  BY <1>1, <1>2, NotTwice
<1>4. r = IF n < Size THEN n ELSE n - Size
  <2>1. CASE q = 0 BY <1>1, <1>2, <2>1
  <2>2. CASE q = 1 BY <1>1, <1>2, <2>2
  <2> QED BY <1>3, <2>1, <2>2
<1> QED BY <1>4 DEF r

Rings(B) == [buf : [Slots -> B], head : Slots, tail : Slots]

Slot(ring, i) == IF ring.tail + i - 1 < Size THEN ring.tail + i - 1
                 ELSE ring.tail + i - 1 - Size

LEMMA SlotOf ==
    ASSUME NEW B, NEW ring \in Rings(B), NEW i \in 1 .. Size
    PROVE  (ring.tail + i - 1) % Size = Slot(ring, i) /\ Slot(ring, i) \in Slots
<1> DEFINE k == ring.tail + i - 1
<1>1. k \in 0 .. 2 * Size - 1
  BY SizeAssumption DEF Rings, Slots
<1>2. Slot(ring, i) = IF k < Size THEN k ELSE k - Size
  BY <1>1, SizeAssumption, SMT DEF Slot, Rings, Slots
<1> HIDE DEF k
<1>3. Slot(ring, i) \in Slots
  BY <1>1, <1>2, SizeAssumption DEF Slots
<1>4. k % Size = Slot(ring, i)
  BY <1>1, <1>2, WrapsOnce
<1> QED BY <1>3, <1>4 DEF k

Matches(ring, q) ==
    /\ Len(q) = Used(ring)
    /\ \A i \in 1 .. Used(ring) : q[i] = ring.buf[Slot(ring, i)]

\* Matching is what the readers of the ring see.
LEMMA MatchesContents ==
    ASSUME NEW B, NEW ring \in Rings(B), NEW q \in Seq(B), Matches(ring, q)
    PROVE  Contents(ring) = q
<1>1. Used(ring) \in Slots /\ Used(ring) \in Nat
  BY UsedInSlots, SizeAssumption DEF Rings, Slots
<1>2. \A i \in 1 .. Used(ring) : ring.buf[(ring.tail + i - 1) % Size] = q[i]
  <2> TAKE i \in 1 .. Used(ring)
  <2>1. i \in 1 .. Size BY <1>1, SizeAssumption DEF Slots
  <2> QED BY <2>1, SlotOf DEF Matches
<1>3. q = [i \in 1 .. Used(ring) |-> q[i]]
  BY <1>1 DEF Matches
<1> QED BY <1>2, <1>3 DEF Contents

\* A byte pushed into a ring with room for it goes to the end.
LEMMA PushMatches ==
    ASSUME NEW B, NEW ring \in Rings(B), NEW q \in Seq(B), NEW b \in B,
           Matches(ring, q), Free(ring) # 0
    PROVE  Matches(Push(ring, b), Append(q, b))
<1> DEFINE next == Push(ring, b)
           n == Used(ring)
<1>1. /\ ring.head \in Slots /\ ring.tail \in Slots /\ n \in Slots /\ n + 1 \in Slots
      /\ ring.buf \in [Slots -> B]
  BY UsedInSlots, SizeAssumption DEF Rings, Slots, Free
<1>2. /\ next.tail = ring.tail /\ next.head = Bump(ring.head)
      /\ next.buf = [ring.buf EXCEPT ![ring.head] = b]
  BY DEF Push
<1> DEFINE h == ring.head
           t == ring.tail
<1>9. /\ h \in 0 .. Size - 1 /\ t \in 0 .. Size - 1
      /\ n = (IF h >= t THEN h - t ELSE Size + h - t) /\ n < Size - 1
      /\ \A i : Slot(ring, i) = IF t + i - 1 < Size THEN t + i - 1 ELSE t + i - 1 - Size
      /\ Used(next) = IF next.head >= t THEN next.head - t ELSE Size + next.head - t
      /\ next.head = IF h + 1 >= Size THEN 0 ELSE h + 1
  BY <1>1, <1>2, SizeAssumption DEF Used, Free, Slots, Slot, Bump
<1> HIDE DEF n, h, t, next
<1>3. Used(next) = n + 1
  BY <1>9, SizeAssumption
<1>4. Slot(ring, n + 1) = ring.head
  <2>1. Slot(ring, n + 1) = h BY <1>9, SizeAssumption, SMTT(30)
  <2> QED BY <2>1 DEF h
<1>5. \A i \in 1 .. n : Slot(ring, i) # ring.head /\ Slot(ring, i) \in Slots
  <2>1. \A i \in 1 .. n : Slot(ring, i) # h /\ Slot(ring, i) \in 0 .. Size - 1
    BY <1>9, SizeAssumption
  <2> QED BY <2>1 DEF h, Slots
<1>6. \A i \in 1 .. n + 1 : Slot(next, i) = Slot(ring, i)
  BY <1>2 DEF Slot
<1>7. Len(Append(q, b)) = n + 1 /\ n = Len(q)
  BY DEF Matches, n
<1>8. ASSUME NEW i \in 1 .. n + 1
      PROVE  Append(q, b)[i] = next.buf[Slot(next, i)]
  <2>1. CASE i = n + 1
    <3>1. Append(q, b)[i] = b BY <1>7, <2>1
    <3>2. Slot(next, i) = ring.head BY <1>4, <1>6, <2>1
    <3> QED BY <1>1, <1>2, <3>1, <3>2
  <2>2. CASE i # n + 1
    <3>1. i \in 1 .. n BY <1>1, <2>2 DEF Slots
    <3>2. Append(q, b)[i] = q[i] BY <1>7, <3>1
    <3>3. q[i] = ring.buf[Slot(ring, i)] BY <3>1 DEF Matches, n
    <3> QED BY <1>1, <1>2, <1>5, <1>6, <3>1, <3>2, <3>3
  <2> QED BY <2>1, <2>2
<1>10. Matches(next, Append(q, b))
  BY <1>3, <1>7, <1>8 DEF Matches
<1> QED BY <1>10 DEF next

\* Popping takes the oldest byte.
LEMMA PopMatches ==
    ASSUME NEW B, NEW ring \in Rings(B), NEW q \in Seq(B), Matches(ring, q),
           Used(ring) > 0
    PROVE  q # <<>> /\ Matches(Pop(ring), Tail(q))
<1> DEFINE next == Pop(ring)
           n == Used(ring)
<1>1. ring.head \in Slots /\ ring.tail \in Slots /\ n \in Slots /\ n >= 1
  BY UsedInSlots, SizeAssumption DEF Rings, Slots
<1>2. /\ next.tail = Bump(ring.tail) /\ next.head = ring.head /\ next.buf = ring.buf
  BY DEF Pop, Rings
<1> DEFINE h == ring.head
           t == ring.tail
           t2 == next.tail
<1>9. /\ h \in 0 .. Size - 1 /\ t \in 0 .. Size - 1 /\ n >= 1
      /\ n = (IF h >= t THEN h - t ELSE Size + h - t)
      /\ t2 = IF t + 1 >= Size THEN 0 ELSE t + 1
      /\ Used(next) = IF h >= t2 THEN h - t2 ELSE Size + h - t2
      /\ \A i : Slot(ring, i) = IF t + i - 1 < Size THEN t + i - 1 ELSE t + i - 1 - Size
      /\ \A i : Slot(next, i) = IF t2 + i - 1 < Size THEN t2 + i - 1 ELSE t2 + i - 1 - Size
  BY <1>1, <1>2, SizeAssumption DEF Used, Slots, Slot, Bump
<1> HIDE DEF n, h, t, t2, next
<1>3. Used(next) = n - 1
  BY <1>9, SizeAssumption
<1>4. ASSUME NEW i \in 1 .. n - 1 PROVE Slot(next, i) = Slot(ring, i + 1)
  <2>1. /\ Slot(ring, i + 1) = IF t + (i + 1) - 1 < Size THEN t + (i + 1) - 1
                                                      ELSE t + (i + 1) - 1 - Size
        /\ Slot(next, i) = IF t2 + i - 1 < Size THEN t2 + i - 1 ELSE t2 + i - 1 - Size
    BY <1>9
  <2> QED BY <1>9, <2>1, SizeAssumption
<1>5. Len(q) = n /\ q # <<>>
  <2>1. Len(q) = n BY DEF Matches, n
  <2> QED BY <1>9, <2>1
<1>6. Len(Tail(q)) = n - 1 /\ \A i \in 1 .. n - 1 : Tail(q)[i] = q[i + 1]
  BY <1>5
<1>7. ASSUME NEW i \in 1 .. n - 1
      PROVE  Tail(q)[i] = next.buf[Slot(next, i)]
  <2>1. i + 1 \in 1 .. n BY <1>1 DEF Slots
  <2>2. q[i + 1] = ring.buf[Slot(ring, i + 1)] BY <2>1 DEF Matches, n
  <2> QED BY <1>2, <1>4, <1>6, <2>2
<1>8. Matches(next, Tail(q))
  BY <1>3, <1>5, <1>6, <1>7 DEF Matches
<1> QED BY <1>5, <1>8 DEF next

\* Unless it was lapped, the ring holds what arrived and was not read; and
\* what the firmware polled is still there when it comes to read it.
Fifo ==
    ~overrun => /\ Matches(rx, unread)
                /\ simPc \in {"poll", "read"} => Used(rx) > 0

LEMMA FifoNext == TypeOK /\ Fifo /\ [Next]_vars => Fifo'
<1> SUFFICES ASSUME TypeOK, Fifo, [Next]_vars, ~overrun'
             PROVE  Matches(rx, unread)' /\ (simPc' \in {"poll", "read"} => (Used(rx) > 0)')
  BY DEF Fifo
<1> DEFINE B == Bytes \cup {Nobody}
<1>1. /\ rx \in Rings(B) /\ unread \in Seq(B) /\ \A c \in Clients : inbox[c] \in Seq(Bytes)
  BY DEF TypeOK, Rings
<1>2. CASE \E c \in Clients : DataIn(c)
  <2>1. PICK c \in Clients : DataIn(c) BY <1>2
  <2>2. Head(inbox[c]) \in B BY <1>1, <2>1 DEF DataIn
  <2>3. ~overrun /\ Free(rx) # 0 BY <2>1 DEF DataIn
  <2>4. rx' = Push(rx, Head(inbox[c])) /\ unread' = Append(unread, Head(inbox[c]))
    BY <2>1 DEF DataIn
  <2>5. Matches(rx', unread')
    BY <1>1, <2>2, <2>3, <2>4, PushMatches DEF Fifo
  <2>6. Len(unread') = Len(unread) + 1 /\ Len(unread) \in Nat
    BY <1>1, <2>2, <2>4
  <2>7. Used(rx') > 0
    BY <2>5, <2>6 DEF Matches
  <2> QED BY <2>5, <2>7
<1>3. CASE Read
  <2>1. /\ simPc = "read" /\ ~overrun /\ rx' = Pop(rx)
        /\ unread' = IF unread = <<>> THEN <<>> ELSE Tail(unread)
        /\ simPc' \in {"run", "print"}
    BY <1>3 DEF Read
  <2>2. Matches(rx, unread) /\ Used(rx) > 0 BY <2>1 DEF Fifo
  <2>3. unread # <<>> /\ Matches(Pop(rx), Tail(unread))
    BY <1>1, <2>2, PopMatches
  <2> QED BY <2>1, <2>3
<1>4. CASE ResetRx
  <2>1. rx'.head = 0 /\ rx'.tail = 0 /\ unread' = <<>> /\ simPc' = "reset2"
    BY <1>1, <1>4 DEF ResetRx, Reopened, Rings
  <2>2. Used(rx') = 0 BY <2>1 DEF Used
  <2> QED BY <2>1, <2>2 DEF Matches
<1>5. CASE Poll
  BY <1>5 DEF Poll, Fifo, ghost
<1>6. CASE LockRx
  BY <1>6 DEF LockRx, Fifo, ghost
<1>7. CASE ~(Read \/ ResetRx \/ Poll \/ LockRx \/ \E c \in Clients : DataIn(c))
  <2>1. /\ UNCHANGED <<rx, unread, overrun>>
        /\ simPc' \in {"poll", "read"} => simPc' = simPc
    BY <1>7 DEF Next, Environment, Connect, Send, Leave, Worker, BeginUpdate,
           DataDone, NothingToRead, Flush, Accept, TakeClient, EndUpdate, Receive,
           EndOfStream, Sim, Write, Printed, CheckConn, LockDyad, DataOut,
           DataOutToNull, Drained, Listen, Reconfigure, EndOldClient, ResetTx, Rewind,
           Dead, vars, ghost
  <2> QED BY <2>1 DEF Fifo
<1> QED BY <1>2, <1>3, <1>4, <1>5, <1>6, <1>7

LEMMA FifoHolds == Spec => []Fifo
<1>1. Init => Fifo
  <2> SUFFICES ASSUME Init PROVE Fifo
    OBVIOUS
  <2>1. rx.head = 0 /\ rx.tail = 0 /\ unread = <<>> /\ simPc = "cfg"
    BY DEF Init, Empty
  <2>2. Used(rx) = 0 BY <2>1 DEF Used
  <2> QED BY <2>1, <2>2 DEF Fifo, Matches
<1> QED BY <1>1, FifoNext, PortTypes, PTL DEF Spec

\* As long as the worker did not lap the firmware, the CLI reads exactly the
\* bytes that arrived, in order, for any ring and any number of clients.
THEOREM RingKeepsOrder == Spec => []RingIsFifo
<1>1. TypeOK /\ Fifo => RingIsFifo
  <2> SUFFICES ASSUME TypeOK, Fifo, ~overrun PROVE Contents(rx) = unread
    BY DEF RingIsFifo
  <2>1. rx \in Rings(Bytes \cup {Nobody}) /\ unread \in Seq(Bytes \cup {Nobody})
    BY DEF TypeOK, Rings
  <2> QED BY <2>1, MatchesContents DEF Fifo
<1> QED BY <1>1, FifoHolds, PortTypes, PTL

-----------------------------------------------------------------------------
(* The contract.  What a reader would get from a ring is a queue that Push
   and Pop work on as Append and Tail do. *)

LEMMA ContentsMatch ==
    ASSUME NEW B, NEW ring \in Rings(B)
    PROVE  /\ Contents(ring) \in Seq(B)
           /\ Len(Contents(ring)) = Used(ring)
           /\ Matches(ring, Contents(ring))
<1>1. Used(ring) \in Slots /\ Used(ring) \in Nat
  BY UsedInSlots, SizeAssumption DEF Rings, Slots
<1>2. Contents(ring) \in Seq(B)
  BY ContentsAreBytes DEF Rings
<1>3. Len(Contents(ring)) = Used(ring)
  BY <1>1 DEF Contents
<1>4. ASSUME NEW i \in 1 .. Used(ring)
      PROVE  Contents(ring)[i] = ring.buf[Slot(ring, i)]
  <2>1. i \in 1 .. Size
    BY <1>1, SizeAssumption DEF Slots
  <2>2. Contents(ring)[i] = ring.buf[(ring.tail + i - 1) % Size]
    BY DEF Contents
  <2> QED BY <2>1, <2>2, SlotOf
<1> QED BY <1>2, <1>3, <1>4 DEF Matches

LEMMA PushInRings ==
    ASSUME NEW B, NEW ring \in Rings(B), NEW b \in B
    PROVE  Push(ring, b) \in Rings(B)
<1>1. ring \in [buf : [Slots -> B], head : Slots, tail : Slots]
  BY DEF Rings
<1>2. Push(ring, b) \in [buf : [Slots -> B], head : Slots, tail : Slots]
  BY <1>1, PushIsRing
<1> QED BY <1>2 DEF Rings

LEMMA PopInRings ==
    ASSUME NEW B, NEW ring \in Rings(B)
    PROVE  Pop(ring) \in Rings(B)
<1>1. ring \in [buf : [Slots -> B], head : Slots, tail : Slots]
  BY DEF Rings
<1>2. Pop(ring) \in [buf : [Slots -> B], head : Slots, tail : Slots]
  BY <1>1, PopIsRing
<1> QED BY <1>2 DEF Rings

LEMMA PushAppends ==
    ASSUME NEW B, NEW ring \in Rings(B), NEW b \in B, Free(ring) # 0
    PROVE  Contents(Push(ring, b)) = Append(Contents(ring), b)
<1>1. Contents(ring) \in Seq(B) /\ Matches(ring, Contents(ring))
  BY ContentsMatch
<1>2. Push(ring, b) \in Rings(B)
  BY PushInRings
<1>3. Matches(Push(ring, b), Append(Contents(ring), b))
  BY <1>1, PushMatches
<1>4. Append(Contents(ring), b) \in Seq(B)
  BY <1>1
<1> QED BY <1>2, <1>3, <1>4, MatchesContents

LEMMA PopTails ==
    ASSUME NEW B, NEW ring \in Rings(B), Used(ring) > 0
    PROVE  Contents(ring) # <<>> /\ Contents(Pop(ring)) = Tail(Contents(ring))
<1>1. Contents(ring) \in Seq(B) /\ Matches(ring, Contents(ring))
  BY ContentsMatch
<1>2. Contents(ring) # <<>> /\ Matches(Pop(ring), Tail(Contents(ring)))
  BY <1>1, PopMatches
<1>3. Pop(ring) \in Rings(B)
  BY PopInRings
<1>4. Tail(Contents(ring)) \in Seq(B)
  BY <1>1, <1>2
<1> QED BY <1>2, <1>3, <1>4, MatchesContents

LEMMA EmptyContents ==
    ASSUME NEW B, NEW ring \in Rings(B), ring.head = ring.tail
    PROVE  Contents(ring) = <<>>
<1>1. Used(ring) = 0
  BY SizeAssumption DEF Used, Rings, Slots
<1>2. Matches(ring, <<>>)
  BY <1>1 DEF Matches
<1>3. <<>> \in Seq(B)
  OBVIOUS
<1> QED BY <1>2, <1>3, MatchesContents

\* A client's bytes are its own.
InboxIsOwn == \A c \in Clients : \A i \in 1 .. Len(inbox[c]) : inbox[c][i].from = c

LEMMA InboxKept == TypeOK /\ InboxIsOwn /\ [Next]_vars => InboxIsOwn'
<1> SUFFICES ASSUME TypeOK, InboxIsOwn, [Next]_vars PROVE InboxIsOwn'
  OBVIOUS
<1>1. ASSUME NEW c \in Clients, NEW cmd \in Commands, Send(c, cmd)
      PROVE  InboxIsOwn'
  <2>1. inbox' = [inbox EXCEPT ![c] = Append(@, [from |-> c, cmd |-> cmd])]
    BY <1>1 DEF Send
  <2>2. ASSUME NEW d \in Clients, NEW i \in 1 .. Len(inbox'[d])
        PROVE  inbox'[d][i].from = d
    <3>1. CASE d = c
      <4>1. inbox'[d] = Append(inbox[c], [from |-> c, cmd |-> cmd]) /\ inbox[c] \in Seq(Bytes)
        BY <2>1, <3>1 DEF TypeOK
      <4>2. CASE i \in 1 .. Len(inbox[c])
        BY <3>1, <4>1, <4>2 DEF InboxIsOwn
      <4>3. CASE i = Len(inbox[c]) + 1
        BY <3>1, <4>1, <4>3
      <4> QED BY <4>1, <4>2, <4>3
    <3>2. CASE d # c
      BY <2>1, <3>2 DEF InboxIsOwn, TypeOK
    <3> QED BY <3>1, <3>2
  <2> QED BY <2>2 DEF InboxIsOwn
<1>2. ASSUME NEW c \in Clients, DataIn(c)
      PROVE  InboxIsOwn'
  <2>1. inbox' = [inbox EXCEPT ![c] = Tail(@)] /\ inbox[c] # <<>>
    BY <1>2 DEF DataIn
  <2>2. ASSUME NEW d \in Clients, NEW i \in 1 .. Len(inbox'[d])
        PROVE  inbox'[d][i].from = d
    <3>1. CASE d = c
      <4>1. inbox'[d] = Tail(inbox[c]) /\ inbox[c] \in Seq(Bytes)
        BY <2>1, <3>1 DEF TypeOK
      <4>2. Len(Tail(inbox[c])) = Len(inbox[c]) - 1 /\ Len(inbox[c]) \in Nat
        BY <2>1, <4>1
      <4>3. i \in 1 .. Len(inbox[c]) - 1
        BY <4>1, <4>2
      <4>4. Tail(inbox[c])[i] = inbox[c][i + 1] /\ i + 1 \in 1 .. Len(inbox[c])
        BY <2>1, <4>1, <4>2, <4>3
      <4> QED BY <3>1, <4>1, <4>4 DEF InboxIsOwn
    <3>2. CASE d # c
      BY <2>1, <3>2 DEF InboxIsOwn, TypeOK
    <3> QED BY <3>1, <3>2
  <2> QED BY <2>2 DEF InboxIsOwn
<1>3. CASE UNCHANGED inbox
  BY <1>3 DEF InboxIsOwn
<1>4. CASE ~UNCHANGED inbox
  BY <1>1, <1>2, <1>4 DEF Next, Environment, Connect, Leave, Worker, BeginUpdate,
         DataDone, NothingToRead, Flush, Accept, TakeClient, EndUpdate, Receive,
         EndOfStream, Sim, Poll, LockRx, Read, Write, CheckConn, LockDyad, DataOut,
         DataOutToNull, Drained, Listen, Reconfigure, EndOldClient, ResetRx, ResetTx,
         Rewind, Dead, vars, net
<1> QED BY <1>3, <1>4

\* The command in hand is owed its answer while the firmware prints it.
Owed == IF simPc = "print" THEN job.from ELSE Nobody

\* Steps of the worker and the firmware that the UART's user does not see, or
\* sees as the client leaving.
LEMMA UnseenSteps ==
    ASSUME UNCHANGED <<rx, tx, overrun, Owed, Unopened>>, conn' \in {conn, Nobody}
    PROVE  Contract!Next \/ UNCHANGED Contract!uart
<1>1. UNCHANGED <<Contents(rx), overrun, Owed, Contents(tx), Unopened>>
  BY DEF Contents, Used
<1> USE DEF Owed
<1>2. CASE conn' = conn
  BY <1>1, <1>2 DEF Contract!uart
<1>3. CASE conn' = Nobody
  BY <1>1, <1>3 DEF Contract!Unplug, Contract!Next
<1> QED BY <1>2, <1>3

\* A reboot or a reset begins.
LEMMA Reopens ==
    ASSUME UNCHANGED <<rx, tx, overrun, conn>>,
           simPc \in {"drain", "run"}, simPc' = "cfg"
    PROVE  Contract!Next
<1>1. UNCHANGED <<Contents(rx), Contents(tx)>>
  BY DEF Contents, Used
<1>2. Owed = Nobody /\ Owed' = Nobody /\ Unopened = {} /\ Unopened' = {"in", "out"}
  BY DEF Owed, Unopened
<1>3. Contract!Reopen
  BY <1>1, <1>2 DEF Contract!Reopen, Owed
<1> QED BY <1>3 DEF Contract!Next

\* A byte of the client plugged in, or one too many.
LEMMA DataInAsContract ==
    ASSUME PortInv, InboxIsOwn, NEW c \in Clients, DataIn(c)
    PROVE  Contract!Next
<1> DEFINE b == Head(inbox[c])
           B == Bytes \cup {Nobody}
<1>1. rx \in Rings(B) /\ inbox[c] \in Seq(Bytes) /\ inbox[c] # <<>> /\ overrun \in BOOLEAN
  BY DEF PortInv, TypeOK, Rings, DataIn
<1>2. b \in Bytes /\ b.from = c
  BY <1>1 DEF InboxIsOwn
<1>3. conn = c /\ conn # Nobody
  BY NobodyAssumption DEF DataIn, PortInv, OneLiveClient, Live
<1>4. /\ rx' = Push(rx, b) /\ overrun' = (overrun \/ Free(rx) = 0)
      /\ conn' = conn /\ tx' = tx
  BY DEF DataIn, dyad
<1>a. UNCHANGED <<simPc, job>>
  BY DEF DataIn
<1>5. /\ Contents(tx)' = Contents(tx) /\ Contents(rx)' = Contents(rx')
      /\ UNCHANGED <<Owed, Unopened>>
  BY <1>4, <1>a DEF Contents, Used, Owed, Unopened
<1>6. /\ Len(Contents(rx)) = Used(rx) /\ Used(rx) \in Slots /\ Free(rx) = (Size - 1) - Used(rx)
  BY <1>1, ContentsMatch, UsedInSlots DEF Free, Rings
<1> HIDE DEF b
<1>7. CASE ~overrun /\ Free(rx) # 0
  <2>1. Contents(rx') = Append(Contents(rx), b)
    BY <1>1, <1>2, <1>4, <1>7, PushAppends
  <2>2. Len(Contents(rx)) < Size - 1
    BY <1>6, <1>7, SizeAssumption DEF Slots
  <2>3. overrun' = overrun
    BY <1>1, <1>4, <1>7
  <2>4. Contract!Arrive(b)
    BY <1>2, <1>3, <1>4, <1>5, <1>7, <2>1, <2>2, <2>3 DEF Contract!Arrive, Owed
  <2> QED BY <1>2, <2>4 DEF Contract!Next
<1>8. CASE overrun \/ Free(rx) = 0
  <2>1. overrun \/ Len(Contents(rx)) = Size - 1
    BY <1>6, <1>8, SizeAssumption DEF Slots
  <2>2. Push(rx, b) \in Rings(B)
    BY <1>1, <1>2, PushInRings
  <2>3. Contents(rx') \in Seq(B)
    BY <1>4, <2>2, ContentsMatch
  <2>4. overrun' = TRUE
    BY <1>4, <1>8
  <2>5. Contract!Overflow
    BY <1>3, <1>4, <1>5, <2>1, <2>3, <2>4 DEF Contract!Overflow, Owed
  <2> QED BY <2>5 DEF Contract!Next
<1> QED BY <1>7, <1>8

LEMMA ReadAsContract ==
    ASSUME Typed, Fifo, Read
    PROVE  Contract!Next
<1> DEFINE B == Bytes \cup {Nobody}
<1>1. /\ rx \in Rings(B) /\ simPc = "read" /\ overrun \in BOOLEAN
      /\ unread \in Seq(Bytes) /\ unread \in Seq(B)
  BY DEF Typed, TypeOK, Rings, Read
<1>2. /\ rx' = Pop(rx) /\ UNCHANGED <<conn, overrun, tx>>
      /\ job' = rx.buf[rx.tail]
      /\ simPc' = IF job' = Nobody THEN "run" ELSE "print"
  BY DEF Read, dyad
<1>3. Contents(tx)' = Contents(tx) /\ Contents(rx)' = Contents(rx')
  BY <1>2 DEF Contents, Used
<1>4. Owed = Nobody /\ Unopened = {} /\ Unopened' = {}
  BY <1>1, <1>2 DEF Owed, Unopened
<1>5. CASE overrun
  <2>1. Contents(rx') \in Seq(B)
    BY <1>1, <1>2, PopInRings, ContentsMatch
  <2>2. job' \in B
    BY <1>1, <1>2 DEF Rings
  <2>3. Owed' \in Clients \cup {Nobody}
    BY <1>2, <2>2 DEF Owed, Bytes
  <2>4. Contract!Read
    BY <1>2, <1>3, <1>4, <1>5, <2>1, <2>3 DEF Contract!Read, Owed
  <2> QED BY <2>4 DEF Contract!Next
<1>6. CASE ~overrun
  <2>1. Used(rx) > 0 /\ Matches(rx, unread)
    BY <1>1, <1>6 DEF Fifo
  <2>2. Contents(rx) # <<>> /\ Contents(rx') = Tail(Contents(rx))
    BY <1>1, <1>2, <2>1, PopTails
  <2>3. Contents(rx) = unread
    BY <1>1, <2>1, MatchesContents
  <2>4. job' = Head(Contents(rx))
    <3>1. Used(rx) \in Nat /\ 1 \in 1 .. Used(rx)
      BY <1>1, <2>1, UsedInSlots, SizeAssumption DEF Rings, Slots
    <3>2. Contents(rx)[1] = rx.buf[(rx.tail + 1 - 1) % Size]
      BY <3>1 DEF Contents
    <3>3. rx.tail \in 0 .. Size - 1
      BY <1>1 DEF Rings, Slots
    <3>4. (rx.tail + 1 - 1) % Size = rx.tail
      BY <3>3, SizeAssumption
    <3> QED BY <1>2, <2>2, <3>2, <3>4
  <2>5. Head(Contents(rx)) \in Bytes
    BY <1>1, <2>2, <2>3
  <2>6. job' # Nobody
    BY <2>4, <2>5, NobodyAssumption
  <2>7. Owed' = Head(Contents(rx)).from
    BY <1>2, <2>4, <2>6 DEF Owed
  <2>8. Contract!Read
    BY <1>2, <1>3, <1>4, <1>6, <2>2, <2>7 DEF Contract!Read, Owed
  <2> QED BY <2>8 DEF Contract!Next
<1> QED BY <1>1, <1>5, <1>6

LEMMA SimAsContract ==
    ASSUME Typed, PortInv, Fifo, Sim
    PROVE  Contract!Next \/ UNCHANGED Contract!uart
<1> DEFINE B == Clients \cup {Nobody}
<1>1. tx \in Rings(B)
  BY DEF Typed, TypeOK, Rings
<1>2. CASE Read
  BY <1>2, ReadAsContract
<1>3. CASE Write
  <2>1. job.from \in Clients /\ job.from \in B /\ job.from # Nobody
    BY <1>3, NobodyAssumption DEF Typed, JobInHand, Write, Bytes
  <2>2. Free(tx) # 0 /\ tx' = Push(tx, job.from) /\ UNCHANGED <<conn, overrun, rx>>
    BY <1>3 DEF Write, dyad, ghost
  <2>3. Contents(tx') = Append(Contents(tx), job.from)
    BY <1>1, <2>1, <2>2, PushAppends
  <2>4. Contents(rx)' = Contents(rx) /\ Contents(tx)' = Contents(tx')
    BY <2>2 DEF Contents, Used
  <2>5. Owed = job.from /\ Owed' = Nobody /\ Unopened' = Unopened
    BY <1>3 DEF Write, Owed, Unopened
  <2>6. Contract!Respond
    BY <2>1, <2>2, <2>3, <2>4, <2>5 DEF Contract!Respond, Owed
  <2> QED BY <2>6 DEF Contract!Next
<1>4. CASE DataOut
  <2>1. /\ tx' = [tx EXCEPT !.tail = tx.head] /\ conn # Nobody
        /\ UNCHANGED <<conn, overrun, rx>>
    BY <1>4 DEF DataOut, ghost
  <2>2. tx' \in Rings(B) /\ tx'.head = tx'.tail
    BY <1>1, <2>1 DEF Rings
  <2>3. Contents(tx') = <<>>
    BY <2>2, EmptyContents
  <2>4. Contents(rx)' = Contents(rx) /\ Contents(tx)' = Contents(tx')
    BY <2>1 DEF Contents, Used
  <2>5. Owed' = Owed /\ Unopened = {} /\ Unopened' = {}
    BY <1>4 DEF DataOut, Printed, Owed, Unopened
  <2>6. Contract!HandOver
    BY <2>1, <2>3, <2>4, <2>5 DEF Contract!HandOver, Owed
  <2> QED BY <2>6 DEF Contract!Next
<1>5. CASE Drained
  <2>1. UNCHANGED <<rx, tx, overrun, conn>> /\ simPc = "drain" /\ simPc' = "cfg"
    BY <1>5 DEF Drained, dyad, ghost
  <2> QED BY <2>1, Reopens
<1>6. CASE ResetRx
  <2>1. rx' = Reopened(rx) /\ overrun' = FALSE /\ UNCHANGED <<conn, tx>>
    BY <1>6 DEF ResetRx, dyad
  <2>2. rx \in Rings(Bytes \cup {Nobody}) /\ 0 \in Slots
    BY SizeAssumption DEF Typed, TypeOK, Rings, Slots
  <2>3. rx' \in Rings(Bytes \cup {Nobody}) /\ rx'.head = rx'.tail
    BY <2>1, <2>2 DEF Rings, Reopened
  <2>4. Contents(rx') = <<>>
    BY <2>3, EmptyContents
  <2>5. Contents(tx)' = Contents(tx) /\ Contents(rx)' = Contents(rx')
    BY <2>1 DEF Contents, Used
  <2>6. Owed' = Owed /\ Unopened = {"in", "out"} /\ Unopened' = {"out"}
    BY <1>6 DEF ResetRx, Owed, Unopened
  <2>7. Contract!OpenInput
    BY <2>1, <2>4, <2>5, <2>6 DEF Contract!OpenInput, Owed
  <2> QED BY <2>7 DEF Contract!Next
<1>7. CASE ResetTx
  <2>1. tx' = Reopened(tx) /\ UNCHANGED <<conn, rx, overrun>>
    BY <1>7 DEF ResetTx, dyad, ghost
  <2>2. 0 \in Slots
    BY SizeAssumption DEF Slots
  <2>3. tx' \in Rings(B) /\ tx'.head = tx'.tail
    BY <1>1, <2>1, <2>2 DEF Rings, Reopened
  <2>4. Contents(tx') = <<>>
    BY <2>3, EmptyContents
  <2>5. Contents(rx)' = Contents(rx) /\ Contents(tx)' = Contents(tx')
    BY <2>1 DEF Contents, Used
  <2>6. Owed' = Owed /\ Unopened = {"out"} /\ Unopened' = {}
    BY <1>7 DEF ResetTx, Owed, Unopened
  <2>7. Contract!OpenOutput
    BY <2>1, <2>4, <2>5, <2>6 DEF Contract!OpenOutput, Owed
  <2> QED BY <2>7 DEF Contract!Next
<1>8. CASE Poll \/ LockRx \/ CheckConn \/ LockDyad \/ DataOutToNull
           \/ Listen \/ Reconfigure \/ EndOldClient
  <2>1. UNCHANGED <<rx, tx, overrun>> /\ conn' \in {conn, Nobody}
    BY <1>8 DEF Poll, LockRx, CheckConn, LockDyad, DataOutToNull, Listen, Reconfigure,
           EndOldClient, DyadEnd, Close, OnClose, dyad, ghost
  <2>2. /\ simPc # "print" /\ simPc' # "print"
        /\ Unopened' = Unopened
    BY <1>8 DEF Poll, LockRx, CheckConn, Printed, LockDyad, DataOutToNull, Listen,
           Reconfigure, EndOldClient, Unopened
  <2>3. Owed' = Owed
    BY <2>2 DEF Owed
  <2> QED BY <2>1, <2>2, <2>3, UnseenSteps
<1> QED BY <1>2, <1>3, <1>4, <1>5, <1>6, <1>7, <1>8 DEF Sim

LEMMA WorkerAsContract ==
    ASSUME PortInv, InboxIsOwn, Worker
    PROVE  Contract!Next \/ UNCHANGED Contract!uart
<1>1. CASE \E c \in Clients : DataIn(c)
  BY <1>1, DataInAsContract
<1>2. CASE TakeClient
  <2>1. joining \in Clients /\ conn = Nobody
    BY <1>2 DEF PortInv, Taking, TakeClient
  <2>2. conn' = joining /\ UNCHANGED <<rx, tx, overrun, simPc, job>>
    BY <1>2 DEF TakeClient, ghost
  <2>3. UNCHANGED <<Contents(rx), Contents(tx), Owed, Unopened>>
    BY <2>2 DEF Contents, Used, Owed, Unopened
  <2>4. Contract!PlugIn(joining)
    BY <2>1, <2>2, <2>3 DEF Contract!PlugIn, Owed
  <2> QED BY <2>1, <2>4 DEF Contract!Next
<1>3. CASE ~TakeClient /\ ~\E c \in Clients : DataIn(c)
  <2>1. UNCHANGED <<rx, tx, overrun, simPc, job>> /\ conn' \in {conn, Nobody}
    BY <1>3 DEF Worker, BeginUpdate, DataDone, NothingToRead, Flush, FlushWrites, Accept,
           AcceptCorpse, AcceptClient, DropStale, EndUpdate, Receive, EndOfStream,
           Close, OnClose, dyad, ghost
  <2>2. UNCHANGED <<Owed, Unopened>>
    BY <2>1 DEF Owed, Unopened
  <2> QED BY <2>1, <2>2, UnseenSteps
<1> QED BY <1>1, <1>2, <1>3

\* For any clients and any ring: the two threads with their rings, locks and
\* callbacks implement a UART with one client at a time, on which every
\* command is answered once.
THEOREM PortIsUart == Spec => UartSpec
<1>1. Init => Contract!Init
  <2> SUFFICES ASSUME Init PROVE Contract!Init
    OBVIOUS
  <2>1. /\ rx \in Rings(Bytes \cup {Nobody}) /\ rx.head = rx.tail
        /\ tx \in Rings(Clients \cup {Nobody}) /\ tx.head = tx.tail
    BY SizeAssumption DEF Init, Empty, Rings, Slots
  <2>2. Contents(rx) = <<>> /\ Contents(tx) = <<>>
    BY <2>1, EmptyContents
  <2>3. Unopened = {"in", "out"} /\ simPc # "print"
    BY DEF Init, Unopened
  <2> QED BY <2>2, <2>3 DEF Init, Contract!Init
<1>2. Spec => []InboxIsOwn
  <2>1. Init => InboxIsOwn
    BY DEF Init, InboxIsOwn
  <2> QED BY <2>1, InboxKept, PortTypes, PTL DEF Spec
<1>3. Typed /\ PortInv /\ Fifo /\ InboxIsOwn /\ [Next]_vars
          => [Contract!Next]_(Contract!uart)
  <2> SUFFICES ASSUME Typed, PortInv, Fifo, InboxIsOwn, [Next]_vars
               PROVE  Contract!Next \/ UNCHANGED Contract!uart
    OBVIOUS
  <2>1. CASE Worker
    BY <2>1, WorkerAsContract
  <2>2. CASE Sim
    BY <2>2, SimAsContract
  <2>3. CASE Environment \/ Dead \/ UNCHANGED vars
    <3>1. UNCHANGED <<rx, tx, overrun, conn, simPc, job>>
      BY <2>3 DEF Environment, Connect, Send, Leave, Dead, vars, dyad
    <3>2. UNCHANGED <<Owed, Unopened>>
      BY <3>1 DEF Owed, Unopened
    <3> QED BY <3>1, <3>2, UnseenSteps
  <2>4. CASE Rewind
    <3>1. /\ UNCHANGED <<rx, tx, overrun, conn>>
          /\ simPc = "run" /\ simPc' = "cfg"
      BY <2>4 DEF Rewind, ConnExcluded, ghost
    <3> QED BY <3>1, Reopens
  <2> QED BY <2>1, <2>2, <2>3, <2>4 DEF Next
<1> QED BY <1>1, <1>2, <1>3, TypedIsInductive, PortInvIsInductive, FifoHolds, PTL
        DEF Spec, UartSpec, Contract!Spec

-----------------------------------------------------------------------------
(* The locks *)

\* Who is where when a lock is held; a process that crashed holds what it held.
LocksHeld ==
    /\ rxLock = "sim" <=> simPc = "read"
    /\ rxLock = "worker" <=> worker = "data"
    /\ dyadLock = "sim" => simPc \in {"write", "end", "crashed"}

LEMMA LocksKept == TypeOK /\ LocksHeld /\ [Next]_vars => LocksHeld'
<1> SUFFICES ASSUME TypeOK, LocksHeld, [Next]_vars PROVE LocksHeld'
  OBVIOUS
<1>1. CASE Environment \/ Rewind \/ Dead \/ UNCHANGED vars
  BY <1>1 DEF LocksHeld, Environment, Connect, Send, Leave, Rewind, Dead, vars
<1>2. CASE Worker
  BY <1>2 DEF LocksHeld, Worker, BeginUpdate, DataDone, NothingToRead, Flush, Accept,
              AcceptCorpse, AcceptClient, TakeClient, EndUpdate, Receive, DataIn,
              EndOfStream
<1>3. CASE LockDyad \/ DataOut \/ EndOldClient
  BY <1>3 DEF LocksHeld, LockDyad, DataOut, EndOldClient, Printed
<1>4. CASE LockRx \/ Read
  BY <1>4 DEF LocksHeld, LockRx, Read, UnlockRx
<1>5. CASE Sim /\ ~(LockDyad \/ DataOut \/ EndOldClient \/ LockRx \/ Read)
  BY <1>5 DEF LocksHeld, Sim, Poll, Write, CheckConn, Printed, DataOutToNull, Drained,
              Listen, Reconfigure, ResetRx, ResetTx
<1> QED BY <1>1, <1>2, <1>3, <1>4, <1>5 DEF Next

SimWaits ==
    \/ simPc \in {"run", "poll", "reset"} /\ rxLock = "worker"
    \/ simPc \in {"run", "lock", "cfglock"} /\ dyadLock = "worker"
    \/ simPc = "cfg" /\ ~started /\ dyadLock = "worker"

WorkerWaits ==
    \/ worker = "idle" /\ dyadLock = "sim"
    \/ worker = "serve" /\ rxLock = "sim"

\* For any clients and rings: the firmware and the worker never wait for each
\* other's locks, whatever callbacks nest them (serial_tcp.c takes rxLock in
\* onData, under pwDyadMutex, and pwDyadMutex in tcpDataOut, under txLock; a
\* reset takes pwDyadMutex for the whole copy-back).
THEOREM NoCircularWait == Spec => []~(SimWaits /\ WorkerWaits)
<1>1. Init => LocksHeld
  BY DEF Init, LocksHeld
<1>2. LocksHeld => ~(SimWaits /\ WorkerWaits)
  BY DEF LocksHeld, SimWaits, WorkerWaits
<1> QED BY <1>1, <1>2, LocksKept, PortTypes, PTL DEF Spec
=============================================================================
