--------------------------- MODULE NmeaAssembler ---------------------------
(***************************************************************************)
(* How the AIS worker puts the parts of a multi-line AIVDM message together *)
(* (src/mode/ais/NMEA.cpp: submitAIS, search, clean).  Sentences of several  *)
(* talkers and channels arrive interleaved; parts may be missing, repeated  *)
(* or out of order, and all that wait are in one vector.                    *)
(***************************************************************************)
EXTENDS Integers, SequencesExt

CONSTANTS Channels, Talkers, IDs,
          Counts, Numbers, \* values of the fields "count" and "number" of a sentence
          CrcCheck,        \* the option crc_check
          MaxWaiting       \* bound of the model: parts that wait at a time

ASSUME NumbersAssumption == Counts \subseteq Int /\ Numbers \subseteq Int
ASSUME CrcCheckAssumption == CrcCheck \in BOOLEAN
ASSUME MaxWaitingAssumption == MaxWaiting \in Nat

\* What processAIS reads from a sentence; its payload is its own identity.
Sentence == [channel : Channels, talkerID : Talkers, ID : IDs,
             count : Counts, number : Numbers]

VARIABLES queue,  \* parts that wait, oldest first
          out     \* the parts whose payloads the last step sent, or <<>>

assembly == <<queue, out>>

NmeaTypeOK == queue \in Seq(Sentence) /\ out \in Seq(Sentence)

NmeaInit == queue = <<>> /\ out = <<>>

Source(a) == <<a.channel, a.talkerID>>

IsFrom(a, source) == Source(a) = source

\* The elements of q that are in S, in the order of q.
Select(q, S) ==
  LET kept[n \in 0 .. Len(q)] ==
        IF n = 0 THEN <<>>
        ELSE IF q[n] \in S THEN Append(kept[n - 1], q[n])
        ELSE kept[n - 1]
  IN  kept[Len(q)]

\* The parts in q from a channel and talker, oldest first.
From(q, source) == Select(q, {b \in Sentence : IsFrom(b, source)})

\* The number of the part before a, 0 if there is none, -1 if it is of another message.
Search(a) ==
  LET parts == From(queue, Source(a))
  IN  IF parts = <<>> THEN 0
      ELSE IF Last(parts).count # a.count \/ Last(parts).ID # a.ID THEN -1
      ELSE Last(parts).number

\* Mutant of Clean: the talker is not looked at.
CleanChannel(q, a) == Select(q, {b \in Sentence : b.channel # a.channel})

\* clean(a.channel, a.talkerID).
Clean(q, a) == Select(q, {b \in Sentence : ~IsFrom(b, Source(a))})

\* Mutant of Continues: a part that is missing is not noticed.
ContinuesAnyhow(a) == Search(a) # -1

Continues(a) == Search(a) # -1 /\ a.number = Search(a) + 1

-----------------------------------------------------------------------------

\* Message.validate decides whether what was assembled is sent.
Send(parts, valid) == out' = IF valid THEN parts ELSE <<>>

\* A wrong checksum is only a warning unless crc_check is set.
SubmitBadChecksum(a) == CrcCheck /\ out' = <<>> /\ UNCHANGED queue

SubmitSingle(a, valid) == a.count = 1 /\ Send(<<a>>, valid) /\ UNCHANGED queue

SubmitMissing(a) ==
  /\ a.count # 1
  /\ ~Continues(a)
  /\ a.number # 1
  /\ queue' = Clean(queue, a)
  /\ out' = <<>>

\* Mutant of Pushed: parts are stored under the number of the next one.
PushedRenumbered(a) ==
  Append(IF Continues(a) THEN queue ELSE Clean(queue, a), [a EXCEPT !.number = @ + 1])

\* The queue with the part added, after what it does not continue has been removed.
Pushed(a) == Append(IF Continues(a) THEN queue ELSE Clean(queue, a), a)

\* The parts in q on the channel of a, of every talker.
OnChannel(q, a) == Select(q, {b \in Sentence : b.channel = a.channel})

Accepted(a) == a.count # 1 /\ (Continues(a) \/ a.number = 1)

SubmitPart(a) ==
  /\ Accepted(a)
  /\ a.number # a.count
  /\ Len(Pushed(a)) <= MaxWaiting
  /\ queue' = Pushed(a)
  /\ out' = <<>>

\* Mutant of SubmitLast: the parts stay in the queue when the message is invalid.
SubmitLastKeepingInvalid(a, valid) ==
  /\ Accepted(a)
  /\ a.number = a.count
  /\ Send(OnChannel(Pushed(a), a), valid)
  /\ queue' = IF valid THEN Clean(Pushed(a), a) ELSE Pushed(a)

\* The last part: the payloads of all parts in the queue on its channel.
SubmitLast(a, valid) ==
  /\ Accepted(a)
  /\ a.number = a.count
  /\ Send(OnChannel(Pushed(a), a), valid)
  /\ queue' = Clean(Pushed(a), a)

NmeaNext ==
  \E a \in Sentence :
     \/ SubmitBadChecksum(a)
     \/ \E valid \in BOOLEAN : SubmitSingle(a, valid)
     \/ SubmitMissing(a)
     \/ SubmitPart(a)
     \/ \E valid \in BOOLEAN : SubmitLast(a, valid)

NmeaSpec == NmeaInit /\ [][NmeaNext]_assembly

-----------------------------------------------------------------------------

\* parts are the parts 1, 2, ... of one message.
InOrderFromOne(parts) ==
  \A i \in 1 .. Len(parts) : /\ parts[i].number = i
                             /\ parts[i].ID = parts[1].ID
                             /\ parts[i].count = parts[1].count

(***************************************************************************)
(* What waits from one talker on one channel is always the beginning of one *)
(* message, without a gap and without its last part, whatever was lost,     *)
(* repeated or interleaved.                                                 *)
(***************************************************************************)
WaitingPartsAreAPrefix ==
  \A i \in 1 .. Len(queue) :
     LET parts == From(queue, Source(queue[i]))
     IN  InOrderFromOne(parts) /\ Last(parts).number # Last(parts).count

(***************************************************************************)
(* A message that is sent contains every part of the message its last       *)
(* sentence completes, once each and in order.                              *)
(***************************************************************************)
SentMessageIsComplete ==
  out # <<>> /\ Last(out).count # 1 =>
     LET own == From(out, Source(Last(out)))
     IN  InOrderFromOne(own) /\ Len(own) = Last(out).count

\* The parts that wait from each source, and those of the message that was sent which
\* are from its own source.
Waiting == [s \in Channels \X Talkers |-> From(queue, s)]

Completed == IF out = <<>> THEN <<>> ELSE From(out, Source(Last(out)))

Parts == INSTANCE MessageParts WITH waiting <- Waiting, sent <- Completed,
                                    MayIgnore <- CrcCheck

(***************************************************************************)
(* The one queue works as if every talker on every channel had a queue of   *)
(* its own: a part is added where it continues what waits from its source,  *)
(* else it begins anew or is dropped; no other source is disturbed; and the *)
(* parts of a message that is sent are all of them, once each and in order. *)
(***************************************************************************)
ImplementsParts == Parts!Spec

(***************************************************************************)
(* "multiline messages are now complete and in the right order / we create  *)
(* a message and add the payloads to it" (NMEA.cpp:102): the payloads that  *)
(* are added are those of that message and no others.                       *)
(***************************************************************************)
SentMessageIsPure ==
  out # <<>> => \A i \in 1 .. Len(out) : Source(out[i]) = Source(Last(out))
=============================================================================
