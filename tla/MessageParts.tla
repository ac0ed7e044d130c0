---------------------------- MODULE MessageParts ----------------------------
(***************************************************************************)
(* What the assembler of multi-line messages promises: every talker on      *)
(* every channel has parts of its own that wait, as if it were alone.  A     *)
(* part is added where it continues them, else it replaces them, and a      *)
(* message leaves whole.                                                    *)
(***************************************************************************)
EXTENDS Integers, Sequences

CONSTANTS Channels, Talkers,
          Sentence, \* the sentences, each a record with its channel and talker
          MayIgnore \* whether a sentence may be ignored

VARIABLES waiting, \* of each source, the parts of the message that is not complete
          sent     \* the parts of the message the last sentence completed, or <<>>

Source(a) == <<a.channel, a.talkerID>>

Init == /\ waiting = [s \in Channels \X Talkers |-> <<>>]
        /\ sent = <<>>

\* The parts 1, 2, ... of one message.
InOrder(parts) ==
  \A i \in 1 .. Len(parts) : /\ parts[i].number = i
                             /\ parts[i].ID = parts[1].ID
                             /\ parts[i].count = parts[1].count

\* What there is of the message of a once a has come.
Assembled(a) == IF InOrder(Append(waiting[Source(a)], a))
                THEN Append(waiting[Source(a)], a)
                ELSE <<a>>

Ignore == MayIgnore /\ sent' = <<>> /\ UNCHANGED waiting

Single(a) ==
  /\ a.count = 1
  /\ sent' \in {<<a>>, <<>>}
  /\ UNCHANGED waiting

\* A part that neither continues what waits nor begins a message.
Drop(a) ==
  /\ a.count # 1
  /\ sent' = <<>>
  /\ ~InOrder(Assembled(a))
  /\ waiting' = [waiting EXCEPT ![Source(a)] = <<>>]

Store(a) ==
  /\ a.count # 1
  /\ sent' = <<>>
  /\ InOrder(Assembled(a)) /\ Len(Assembled(a)) # a.count
  /\ waiting' = [waiting EXCEPT ![Source(a)] = Assembled(a)]

\* The message may turn out to be invalid.
Complete(a) ==
  /\ a.count # 1
  /\ sent' \in {Assembled(a), <<>>}
  /\ InOrder(Assembled(a)) /\ Len(Assembled(a)) = a.count
  /\ waiting' = [waiting EXCEPT ![Source(a)] = <<>>]

Next == \/ Ignore
        \/ \E a \in Sentence : Single(a) \/ Drop(a) \/ Store(a) \/ Complete(a)

Spec == Init /\ [][Next]_<<waiting, sent>>
=============================================================================
