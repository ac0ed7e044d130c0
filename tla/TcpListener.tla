----------------------------- MODULE TcpListener -----------------------------
(***************************************************************************)
(* TCP::Server as the TCP listener of the AIS mode uses it: its thread        *)
(* accepts clients into slots, reads, writes and closes them, while the       *)
(* threads that decode broadcast messages to all slots with SendAll: each     *)
(* receiver has a thread of its own, and all are connected to the listener.   *)
(*                                                                            *)
(* A slot is locked for one operation at a time; isConnected, the search for  *)
(* a free slot and Start take no lock. A byte is its sender, the number of    *)
(* the message and its place in it.                                           *)
(* The time since a client last sent anything is left open: to the timeout     *)
(* any client may count as inactive.                                           *)
(***************************************************************************)
EXTENDS Integers, SequencesExt, FiniteSetsExt

CONSTANTS Senders,     \* the threads that decode, one of each receiver
          MaxClients,  \* bound: the connections that callers make
          MaxConn,     \* MAX_CONN: the slots
          Size,        \* bytes of a message
          Limit,       \* bytes that Send lets wait in a slot
          MaxMessages  \* bound: the broadcasts

ASSUME ListenerAssumption ==
  /\ {MaxConn, Size} \subseteq Nat \ {0}
  /\ {Limit, MaxClients, MaxMessages} \subseteq Nat

VARIABLES client,  \* the callers: state, bytes received, whether they hung up
          slot,    \* Server::client: sock and out
          server,  \* the server thread: where it is, at which slot
          sender,  \* SendAll of each sender: where, at which slot, in which message
          reached  \* history: the broadcasts that returned true, and to whom they were due

vars == <<client, slot, server, sender, reached>>

Clients == 1 .. MaxClients \* in the order in which they call
NoClient == 0              \* no socket
Slots == 1 .. MaxConn
FreeSlot == [sock |-> NoClient, out |-> << >>]

\* What a caller received is of interest as long as it is connected.
NotOpen == [state |-> "closed", got |-> << >>, hung |-> FALSE,
            since |-> [z \in Senders |-> 0]]

Idle == [pc |-> "idle", i |-> 1, m |-> 0, present |-> {}]

Init ==
  /\ client = [c \in Clients |-> [NotOpen EXCEPT !.state = "away"]]
  /\ slot = [i \in Slots |-> FreeSlot]
  /\ server = [pc |-> "accept", i |-> 1]
  /\ sender = [z \in Senders |-> Idle]
  /\ reached = {}

IsConnected(i) == slot[i].sock # NoClient

-----------------------------------------------------------------------------
(* ServerConnection.                                                          *)

CloseUnsafe(i) ==
  /\ slot' = [slot EXCEPT ![i] = FreeSlot]
  /\ client' = [c \in Clients |->
                  IF c = slot[i].sock THEN NotOpen ELSE client[c]]

\* The socket comes last, and until then nobody else touches the free slot.
Start(i, c) ==
  /\ slot' = [slot EXCEPT ![i] = [FreeSlot EXCEPT !.sock = c]]
  /\ client' = [client EXCEPT ![c].state = "open", 
                              ![c].since = [z \in Senders |-> sender[z].m]]

Unchanged == UNCHANGED <<slot, client>>

\* The end or an error of the connection; what a client sends is not used.
Read(i) ==
  IF IsConnected(i) /\ client[slot[i].sock].hung THEN CloseUnsafe(i) ELSE Unchanged

Bytes(z, m) == [k \in 1 .. Size |-> <<z, m, k>>]

\* Mutant of Unsent: what the socket did not take is dropped.
UnsentDropped(out, k) == IF k = 0 THEN out ELSE << >>

\* What stays of out when k bytes are sent.
Unsent(out, k) == SubSeq(out, k + 1, Len(out))

\* The socket takes some of the bytes, or none, or fails.
SendBuffer(i) ==
  \/ /\ IsConnected(i) /\ slot[i].out # << >>
     /\ \E k \in 0 .. Len(slot[i].out) :
          /\ client' = [client EXCEPT ![slot[i].sock].got = @ \o SubSeq(slot[i].out, 1, k)]
          /\ slot' = [slot EXCEPT ![i].out = Unsent(@, k)]
  \/ /\ IsConnected(i) /\ slot[i].out # << >> /\ client[slot[i].sock].hung
     /\ CloseUnsafe(i)
  \/ /\ ~(IsConnected(i) /\ slot[i].out # << >>)
     /\ Unchanged

\* Mutant of Fits: the limit is compared with what waits already.
FitsBefore(i) == Len(slot[i].out) <= Limit

Fits(i) == Len(slot[i].out) + Size <= Limit

-----------------------------------------------------------------------------
(* The callers.                                                               *)

Connect(c) ==
  /\ client[c].state = "away" /\ \A d \in 1 .. c - 1 : client[d].state # "away"
  /\ client' = [client EXCEPT ![c].state = "waiting"]
  /\ UNCHANGED <<slot, server, sender, reached>>

HangUp(c) ==
  /\ client[c].state = "open" /\ ~client[c].hung
  /\ client' = [client EXCEPT ![c].hung = TRUE]
  /\ UNCHANGED <<slot, server, sender, reached>>

-----------------------------------------------------------------------------
(* The server thread: accept, then each slot read, each written, each checked *)
(* for its timeout.                                                           *)

Phase == [accept |-> "read", read |-> "write", write |-> "clean", clean |-> "accept"]

\* Mutant of Onward: the last slot is passed over.
OnwardEarly ==
  server' = IF server.pc # "accept" /\ server.i < MaxConn - 1
            THEN [server EXCEPT !.i = @ + 1] ELSE [pc |-> Phase[server.pc], i |-> 1]

Onward ==
  server' = IF server.pc # "accept" /\ server.i < MaxConn
            THEN [server EXCEPT !.i = @ + 1] ELSE [pc |-> Phase[server.pc], i |-> 1]

Waiting == {c \in Clients : client[c].state = "waiting"}
FreeSlots == {i \in Slots : ~IsConnected(i)}

\* acceptClients: accept finds nobody or fails, and who waits goes on waiting;
\* without a free slot, or if the socket cannot be made non-blocking (which is
\* known only after Start), the connection is closed.
Accept ==
  /\ server.pc = "accept"
  /\ \/ Unchanged
     \/ /\ Waiting # {} /\ FreeSlots # {}
        /\ Start(Min(FreeSlots), Min(Waiting))
     \/ /\ Waiting # {}
        /\ client' = [client EXCEPT ![Min(Waiting)] = NotOpen]
        /\ UNCHANGED slot
  /\ Onward
  /\ UNCHANGED <<sender, reached>>

ReadClients ==
  /\ server.pc = "read"
  /\ Read(server.i)
  /\ Onward
  /\ UNCHANGED <<sender, reached>>

WriteClients ==
  /\ server.pc = "write"
  /\ SendBuffer(server.i)
  /\ Onward
  /\ UNCHANGED <<sender, reached>>

CleanUp ==
  /\ server.pc = "clean"
  /\ \/ IsConnected(server.i) /\ CloseUnsafe(server.i)
     \/ Unchanged
  /\ Onward
  /\ UNCHANGED <<sender, reached>>

-----------------------------------------------------------------------------
(* SendAll, on a thread that decodes: of a slot it first reads whether it is  *)
(* connected, then sends, then, if Send refused, closes and returns.          *)

Present == {c \in Clients : client[c].state = "open"}

\* The broadcasts begun.
Broadcasts == MapThenSumSet(LAMBDA z : sender[z].m, Senders)

SendAll(z) ==
  /\ sender[z].pc = "idle" /\ Broadcasts < MaxMessages
  /\ sender' = [sender EXCEPT ![z] = [pc |-> "check", i |-> 1, m |-> @.m + 1,
                                      present |-> Present]]
  /\ UNCHANGED <<client, slot, server, reached>>

\* The end of SendAll, and its end with true.
Finished(z) == [Idle EXCEPT !.m = sender[z].m]

Reached(z) == [by |-> z, m |-> sender[z].m, due |-> sender[z].present]

\* The next slot, or the end.
NextSlot(z) ==
  IF sender[z].i < MaxConn
  THEN /\ sender' = [sender EXCEPT ![z].pc = "check", ![z].i = @ + 1]
       /\ UNCHANGED reached
  ELSE /\ sender' = [sender EXCEPT ![z] = Finished(z)]
       /\ reached' = reached \cup {Reached(z)}

\* Mutant of CheckClient: the first slot that is free ends the loop.
CheckClientUntilFree(z) ==
  /\ sender[z].pc = "check"
  /\ IF IsConnected(sender[z].i)
     THEN /\ sender' = [sender EXCEPT ![z].pc = "send"]
          /\ UNCHANGED reached
     ELSE /\ sender' = [sender EXCEPT ![z] = Finished(z)]
          /\ reached' = reached \cup {Reached(z)}
  /\ UNCHANGED <<client, slot, server>>

CheckClient(z) ==
  /\ sender[z].pc = "check"
  /\ IF IsConnected(sender[z].i)
     THEN /\ sender' = [sender EXCEPT ![z].pc = "send"]
          /\ UNCHANGED reached
     ELSE NextSlot(z)
  /\ UNCHANGED <<client, slot, server>>

SendClient(z) ==
  /\ sender[z].pc = "send"
  /\ IsConnected(sender[z].i) /\ Fits(sender[z].i)
  /\ slot' = [slot EXCEPT ![sender[z].i].out = @ \o Bytes(z, sender[z].m)]
  /\ NextSlot(z)
  /\ UNCHANGED <<client, server>>

\* Send refuses: the client has left meanwhile, or does not read.
RefuseClient(z) ==
  /\ sender[z].pc = "send"
  /\ ~(IsConnected(sender[z].i) /\ Fits(sender[z].i))
  /\ sender' = [sender EXCEPT ![z].pc = "drop"]
  /\ UNCHANGED <<client, slot, server, reached>>

\* Who is in the slot by now is closed, and the slots after it are left out.
DropClient(z) ==
  /\ sender[z].pc = "drop"
  /\ CloseUnsafe(sender[z].i)
  /\ sender' = [sender EXCEPT ![z] = Finished(z)]
  /\ UNCHANGED <<server, reached>>

-----------------------------------------------------------------------------

CallerStep == \E c \in Clients : Connect(c) \/ HangUp(c)
Server == Accept \/ ReadClients \/ WriteClients \/ CleanUp
Sender(z) == \/ SendAll(z) \/ CheckClient(z) \/ SendClient(z)
             \/ RefuseClient(z) \/ DropClient(z)

Next == CallerStep \/ Server \/ \E z \in Senders : Sender(z)

(***************************************************************************)
(* The server thread runs. Nothing is assumed of accept, of the callers, of   *)
(* how much the sockets take and of the senders.                              *)
(***************************************************************************)
Fairness == WF_vars(Server)

Spec == Init /\ [][Next]_vars /\ Fairness

-----------------------------------------------------------------------------

AllBytes == Senders \X Nat \X (1 .. Size)

Caller == [state : {"away", "waiting", "open", "closed"}, got : Seq(AllBytes),
           hung : BOOLEAN, since : [Senders -> Nat]]
Connection == [sock : Clients \cup {NoClient}, out : Seq(AllBytes)]
Broadcast == [pc : {"idle", "check", "send", "drop"}, i : Slots, m : Nat,
              present : SUBSET Clients]

TypeOK ==
  /\ client \in [Clients -> Caller]
  /\ slot \in [Slots -> Connection]
  /\ \A i \in Slots : Len(slot[i].out) <= Limit
  /\ server \in [pc : DOMAIN Phase, i : Slots]
  /\ sender \in [Senders -> Broadcast]
  /\ reached \subseteq [by : Senders, m : Nat, due : SUBSET Clients]

SlotsOf(c) == {i \in Slots : slot[i].sock = c}

\* What waits for a client, and what it has received with that.
Backlog(c) ==
  IF SlotsOf(c) = {} THEN << >> ELSE slot[CHOOSE i \in Slots : i \in SlotsOf(c)].out

Stream(c) == client[c].got \o Backlog(c)

(***************************************************************************)
(* What a client receives is a row of whole messages, each once, those of a   *)
(* sender in the order in which it broadcast them and none from before the    *)
(* client was accepted, though several senders broadcast at a time, its slot   *)
(* had other clients before, is written in pieces and may be closed by any     *)
(* thread at any point. No client is in two slots.                            *)
(***************************************************************************)
StreamIntact ==
  \A c \in Clients :
    LET s == Stream(c)
    IN  /\ \A i, j \in SlotsOf(c) : i = j
        /\ \A p \in 1 .. Len(s) :
             /\ s[p][2] >= client[c].since[s[p][1]]
             /\ s[p][3] = ((p - 1) % Size) + 1
             /\ IF s[p][3] = 1
                THEN \A q \in 1 .. p - 1 : s[q][1] = s[p][1] => s[q][2] < s[p][2]
                ELSE s[p][1] = s[p - 1][1] /\ s[p][2] = s[p - 1][2]
        /\ client[c].state = "open" => Len(s) % Size = 0

(***************************************************************************)
(* A message is missed only in a broadcast that SendAll gave up: when it       *)
(* returns true, every client that was connected when it began and still is    *)
(* has the message, whatever the slots before it and the broadcasts of other   *)
(* senders went through meanwhile. SendAll gives up, and leaves out the slots  *)
(* after it, at the first client that has gone or does not read.               *)
(***************************************************************************)
NoMessageMissed ==
  \A r \in reached : \A c \in r.due :
    client[c].state = "open" => <<r.by, r.m, 1>> \in ToSet(Stream(c))

(***************************************************************************)
(* A client that has hung up does not keep its slot, of which there are few,   *)
(* for ever: it is closed, though the server thread turns to each slot but     *)
(* once in a round, what waits for the client is never taken, broadcasts go    *)
(* on and the timeout does not tell who has gone.                              *)
(***************************************************************************)
LeaversAreClosed ==
  \A c \in Clients : client[c].hung ~> client[c].state # "open"
=============================================================================
