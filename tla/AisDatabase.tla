---------------------------- MODULE AisDatabase ----------------------------
(***************************************************************************)
(* The ship database of the AIS worker (src/mode/ais/DB.cpp): a fixed array  *)
(* of ships in a doubly linked list, the vessel heard last first, and a      *)
(* ring of path points shared by all ships, in which the points of a ship    *)
(* are linked from the newest to the oldest.  A point is never unlinked: it  *)
(* is overwritten, and its vessel and count tell a reader that it was.       *)
(* DB::mtx makes every message one step.                                     *)
(***************************************************************************)
EXTENDS Integers, Sequences

CONSTANTS Mmsi,      \* the vessels
          Unused,    \* mmsi 0
          N,         \* ships in the array
          M,         \* points in the ring
          Position,  \* positions on a line; next to one another means within 100 m
          Report,    \* kinds of message: <<position, whether of a type kept in paths>>
          MaxMessages \* bound of the model: messages received

\* LAT_UNDEFINED and LON_UNDEFINED, far from every position.
NoPosition == -9

\* The message has no position, or updateFields refuses it (a long-range position
\* when a better one is recent enough).
Absent == -10

ASSUME UnusedAssumption == Unused \notin Mmsi
ASSUME SizesAssumption == N \in Nat \ {0} /\ M \in Nat \ {0}
ASSUME MaxMessagesAssumption == MaxMessages \in Nat
ASSUME PositionAssumption == Position \subseteq Nat
ASSUME ReportAssumption ==
  Report \subseteq (Position \cup {NoPosition, Absent}) \X BOOLEAN

Ship == 0 .. N - 1

PathPoint == 0 .. M - 1

VARIABLES first, last, count, \* the list, and how many of its ships are in use
          next, prev,         \* ships[].next and .prev
          mmsi, heard, pos,   \* ships[].mmsi, .count, and .lat with .lon
          path_ptr,           \* ships[].path_ptr
          paths,              \* the ring
          path_idx,           \* the point written next
          former,             \* history: points made before their vessel entered last
          vessel,             \* the vessel of the last message
          received            \* messages received

list == <<first, last, next, prev>>
vars == <<list, count, mmsi, heard, pos, path_ptr, paths, path_idx, former, vessel, received>>

TypeOK == /\ first \in Ship
          /\ last \in Ship
          /\ count \in 0 .. N
          /\ next \in [Ship -> Ship \cup {-1}]
          /\ prev \in [Ship -> Ship \cup {-1}]
          /\ mmsi \in [Ship -> Mmsi \cup {Unused}]
          /\ heard \in [Ship -> Nat]
          /\ pos \in [Ship -> Position \cup {NoPosition, 0}]
          /\ path_ptr \in [Ship -> PathPoint \cup {-1, 0}]
          /\ paths \in [PathPoint -> [mmsi : Mmsi \cup {Unused}, count : Nat,
                                      next : PathPoint \cup {-1},
                                      pos : Position \cup {NoPosition, 0}]]
          /\ path_idx \in PathPoint
          /\ former \subseteq PathPoint
          /\ vessel \in Mmsi \cup {Unused}
          /\ received \in 0 .. MaxMessages

\* setup; resize has set every other field to 0.
Init == /\ first = N - 1
        /\ last = 0
        /\ count = 0
        /\ next = [s \in Ship |-> s - 1]
        /\ prev = [s \in Ship |-> IF s = N - 1 THEN -1 ELSE s + 1]
        /\ mmsi = [s \in Ship |-> Unused]
        /\ heard = [s \in Ship |-> 0]
        /\ pos = [s \in Ship |-> 0]
        /\ path_ptr = [s \in Ship |-> 0]
        /\ paths = [i \in PathPoint |-> [mmsi |-> Unused, count |-> 0, next |-> 0, pos |-> 0]]
        /\ path_idx = 0
        /\ former = {}
        /\ vessel = Unused
        /\ received = 0

-----------------------------------------------------------------------------

\* The i-th ship of the list, -1 past its end.
Nth[i \in 1 .. N] == IF i = 1 THEN first
                     ELSE IF Nth[i - 1] = -1 THEN -1 ELSE next[Nth[i - 1]]

\* findShip: the ranks, among the ships in use, that hold the vessel.
Ranks(m) == {i \in 1 .. count : mmsi[Nth[i]] = m}

FindShip(m) == Nth[CHOOSE i \in Ranks(m) : \A j \in Ranks(m) : i <= j]

\* Mutant of MoveShipToFront: the last ship of the list is not adjusted.
MoveShipKeepingLast(ship) ==
  \/ /\ ship = first
     /\ UNCHANGED list
  \/ /\ ship # first
     /\ first' = ship
     /\ last' = last
     /\ next' = [next EXCEPT ![prev[ship]] = next[ship], ![ship] = first]
     /\ prev' = [s \in Ship |-> CASE s = ship -> -1
                                  [] s = first -> ship
                                  [] s = next[ship] /\ s # first -> prev[ship]
                                  [] OTHER -> prev[s]]

MoveShipToFront(ship) ==
  \/ /\ ship = first
     /\ UNCHANGED list
  \/ /\ ship # first
     /\ first' = ship
     /\ last' = IF next[ship] = -1 THEN prev[ship] ELSE last
     /\ next' = [next EXCEPT ![prev[ship]] = next[ship], ![ship] = first]
     /\ prev' = [s \in Ship |-> CASE s = ship -> -1
                                  [] s = first -> ship
                                  [] s = next[ship] /\ s # first -> prev[ship]
                                  [] OTHER -> prev[s]]

-----------------------------------------------------------------------------

\* Mutant of IsNextPathPoint: the vessel is compared, and not the count.
IsPointOfVessel(i, m, c) == i # -1 /\ paths[i].mmsi = m

IsNextPathPoint(i, m, c) == i # -1 /\ paths[i].mmsi = m /\ paths[i].count < c

\* Less than 0.000001 between the squares.
Near(p, q) == p - q \in -1 .. 1

\* The vessel of a ship whose path begins at i has not moved away from the last point.
Stays(i, m, c, p) ==
  /\ IsNextPathPoint(i, m, c)
  /\ \/ paths[i].pos = p
     \/ /\ IsNextPathPoint(paths[i].next, m, paths[i].count)
        /\ Near(paths[paths[i].next].pos, p)

\* addToPath, for a path that begins at i; m, c and p are the vessel, its count and
\* its position after the message, and stale the points of its earlier visits.
AddToPath(ship, i, m, c, p, stale) ==
  \/ /\ Stays(i, m, c, p)
     /\ paths' = [paths EXCEPT ![i].pos = p, ![i].count = c]
     /\ path_ptr' = [path_ptr EXCEPT ![ship] = i]
     /\ former' = stale
     /\ UNCHANGED path_idx
  \/ /\ ~Stays(i, m, c, p)
     /\ paths' = [paths EXCEPT ![path_idx] = [mmsi |-> m, count |-> c, next |-> i, pos |-> p]]
     /\ path_ptr' = [path_ptr EXCEPT ![ship] = path_idx]
     /\ former' = stale \ {path_idx}
     /\ path_idx' = (path_idx + 1) % M

\* updateShip and addToPath, on a ship whose fields are i, c and p before the message;
\* reported is the position the message sets, onPath that its type is 1, 2, 3, 9, 18
\* or 19.
Update(ship, m, i, c, p, reported, onPath, stale) ==
  LET here == IF reported = Absent THEN p ELSE reported
  IN  /\ vessel' = m
      /\ mmsi' = [mmsi EXCEPT ![ship] = m]
      /\ heard' = [heard EXCEPT ![ship] = c + 1]
      /\ pos' = [pos EXCEPT ![ship] = here]
      /\ IF onPath
           THEN AddToPath(ship, i, m, c + 1, here, stale)
           ELSE /\ path_ptr' = [path_ptr EXCEPT ![ship] = i]
                /\ former' = stale
                /\ UNCHANGED <<paths, path_idx>>

\* Mutant of ReceiveKnown: the ship stays where it is in the list.
ReceiveKnownInPlace(m, reported, onPath) ==
  /\ Ranks(m) # {}
  /\ LET ship == FindShip(m)
     IN  Update(ship, m, path_ptr[ship], heard[ship], pos[ship], reported, onPath, former)
  /\ UNCHANGED <<list, count>>

\* Receive, for a vessel the database knows.
ReceiveKnown(m, reported, onPath) ==
  /\ Ranks(m) # {}
  /\ LET ship == FindShip(m)
     IN  /\ MoveShipToFront(ship)
         /\ Update(ship, m, path_ptr[ship], heard[ship], pos[ship], reported, onPath, former)
  /\ UNCHANGED count

\* Mutant of CreateShip: the count goes past the array.
CreateShipCounting == count' = count + 1

\* The part of createShip that is not reset().
CreateShip == count' = IF count < N THEN count + 1 ELSE N

\* Receive, for a vessel that is not in the database: the ship heard longest ago is
\* reset and becomes its ship.
ReceiveNew(m, reported, onPath) ==
  /\ Ranks(m) = {}
  /\ CreateShip
  /\ MoveShipToFront(last)
  /\ Update(last, m, -1, 0, NoPosition, reported, onPath,
            former \cup {i \in PathPoint : paths[i].mmsi = m})

Next == /\ received < MaxMessages
        /\ received' = received + 1
        /\ \E m \in Mmsi, report \in Report :
             \/ ReceiveKnown(m, report[1], report[2])
             \/ ReceiveNew(m, report[1], report[2])

Spec == Init /\ [][Next]_vars

-----------------------------------------------------------------------------

(***************************************************************************)
(* The list visits every slot once, forwards and backwards, with the ships  *)
(* in use in front: so the loop of getJSON, which goes along next to the end *)
(* and skips unused ships, and that of findShip, which stops at count, see   *)
(* the same vessels, and the slot that createShip takes is the end of the    *)
(* list.                                                                    *)
(***************************************************************************)
ListIntact ==
  /\ {Nth[i] : i \in 1 .. N} = Ship
  /\ Nth[1] = first /\ prev[first] = -1
  /\ Nth[N] = last /\ next[last] = -1
  /\ \A i \in 2 .. N : prev[Nth[i]] = Nth[i - 1]
  /\ \A i \in 1 .. N : mmsi[Nth[i]] # Unused <=> i <= count

Recent == INSTANCE RecentVessels WITH Size <- N,
                                      recent <- [i \in 1 .. count |-> mmsi[Nth[i]]]

(***************************************************************************)
(* The database keeps the N vessels heard last, each once and in order of    *)
(* recency: it evicts none but the one heard longest ago.                    *)
(***************************************************************************)
KeepsTheRecent == Recent!Spec

\* The points getSinglePathJSON visits for a ship, in its order, -1 past the end.
PathOf(ship) ==
  LET visit[k \in 1 .. M + 1] ==
        LET i == IF k = 1 THEN path_ptr[ship]
                 ELSE IF visit[k - 1] = -1 THEN -1 ELSE paths[visit[k - 1]].next
            c == IF k = 1 THEN heard[ship] + 1
                 ELSE IF visit[k - 1] = -1 THEN 0 ELSE paths[visit[k - 1]].count
        IN  IF IsNextPathPoint(i, mmsi[ship], c) THEN i ELSE -1
  IN  visit

(***************************************************************************)
(* The path shown for a vessel is made of all the points of its present stay *)
(* in the database that the ring still holds, each once, and of no others:   *)
(* neither a point of another vessel written over one of its own, nor one    *)
(* from before it was evicted and heard again.  So the walk ends, although    *)
(* overwriting leaves links that go round in circles.                        *)
(***************************************************************************)
PathIsItsOwn ==
  \A s \in Ship : mmsi[s] # Unused =>
    LET own == {i \in PathPoint : paths[i].mmsi = mmsi[s] /\ i \notin former}
    IN  /\ {PathOf(s)[k] : k \in 1 .. M} \ {-1} = own
        /\ PathOf(s)[M + 1] = -1
=============================================================================
