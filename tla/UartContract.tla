----------------------------- MODULE UartContract -----------------------------
(***************************************************************************)
(* What drivers/serial_tcp.c owes the firmware and its clients: a UART     *)
(* that one client at a time is plugged into.  Its bytes reach the         *)
(* firmware in order, unless they come faster than the ring holds; every   *)
(* command read is answered once, before the next is read, and answers are *)
(* lost only when the port is opened again.  SerialTcp implements it with  *)
(* two threads, two rings and dyad.                                        *)
(***************************************************************************)
EXTENDS Naturals, Sequences

CONSTANTS
    Clients,
    Nobody,
    Bytes,          \* a command byte and the client it is from
    Room            \* bytes the receive ring holds

VARIABLES
    owner,          \* the client plugged in
    input,          \* bytes the firmware has not read
    lapped,         \* bytes were lost: what is read means nothing
    owed,           \* whose command was read and not answered
    output,         \* answers given and not yet handed over
    opening         \* directions of the port still to be opened

uart == <<owner, input, lapped, owed, output, opening>>

Init ==
    /\ owner = Nobody
    /\ input = <<>> /\ lapped = FALSE
    /\ owed = Nobody /\ output = <<>>
    /\ opening = {"in", "out"}

(* The slot is free before anybody takes it: nobody is replaced in one step. *)
PlugIn(c) ==
    /\ owner = Nobody
    /\ owner' = c
    /\ UNCHANGED <<input, lapped, owed, output, opening>>

Unplug ==
    /\ owner' = Nobody
    /\ UNCHANGED <<input, lapped, owed, output, opening>>

(* Only the client plugged in is heard.  A byte too many costs them all. *)
Arrive(b) ==
    /\ b.from = owner
    /\ ~lapped
    /\ Len(input) < Room
    /\ input' = Append(input, b)
    /\ UNCHANGED <<owner, lapped, owed, output, opening>>

Overflow ==
    /\ owner # Nobody
    /\ lapped \/ Len(input) = Room
    /\ lapped' = TRUE
    /\ input' \in Seq(Bytes \cup {Nobody})
    /\ UNCHANGED <<owner, owed, output, opening>>

Read ==
    /\ opening = {} /\ owed = Nobody
    /\ IF lapped
       THEN input' \in Seq(Bytes \cup {Nobody}) /\ owed' \in Clients \cup {Nobody}
       ELSE input # <<>> /\ input' = Tail(input) /\ owed' = Head(input).from
    /\ UNCHANGED <<owner, lapped, output, opening>>

Respond ==
    /\ owed # Nobody
    /\ output' = Append(output, owed)
    /\ owed' = Nobody
    /\ UNCHANGED <<owner, input, lapped, opening>>

(* All of it goes at once, and never to nobody. *)
HandOver ==
    /\ opening = {} /\ owner # Nobody
    /\ output' = <<>>
    /\ UNCHANGED <<owner, input, lapped, owed, opening>>

(* A reboot or a reset opens the port again, one direction after the other,
   and never between a command and its answer. *)
Reopen ==
    /\ opening = {} /\ owed = Nobody
    /\ opening' = {"in", "out"}
    /\ UNCHANGED <<owner, input, lapped, owed, output>>

OpenInput ==
    /\ opening = {"in", "out"}
    /\ opening' = {"out"}
    /\ input' = <<>> /\ lapped' = FALSE
    /\ UNCHANGED <<owner, owed, output>>

OpenOutput ==
    /\ opening = {"out"}
    /\ opening' = {}
    /\ output' = <<>>
    /\ UNCHANGED <<owner, input, lapped, owed>>

Next ==
    \/ \E c \in Clients : PlugIn(c)
    \/ \E b \in Bytes : Arrive(b)
    \/ Unplug \/ Overflow \/ Read \/ Respond \/ HandOver
    \/ Reopen \/ OpenInput \/ OpenOutput

Spec == Init /\ [][Next]_uart
=============================================================================
