------------------------------ MODULE AisFifo ------------------------------
(***************************************************************************)
(* The sample FIFO between the thread that reads a device and the thread     *)
(* that runs the AIS model (src/mode/ais/_inc/FIFO.h): bytes go in by any     *)
(* number and come out by blocks, which their reader uses in place and        *)
(* without the lock between Front and Pop.  A byte is its rank among those    *)
(* accepted.  Each operator is what one call does under fifo_mutex.          *)
(***************************************************************************)
EXTENDS Integers

CONSTANTS BLOCK_SIZE, N_BLOCKS

ASSUME FifoAssumption == BLOCK_SIZE \in Nat \ {0} /\ N_BLOCKS \in Nat \ {0}

Size == N_BLOCKS * BLOCK_SIZE

VARIABLES data,          \* _data
          head, tail,
          blocks_filled, \* -1 once halted
          parked,        \* the reader of blocks is parked on fifo_cond
          accepted,      \* history: bytes pushed
          taken          \* history: blocks popped

fifo == <<data, head, tail, blocks_filled, parked, accepted, taken>>

FifoTypeOK == /\ data \in [0 .. Size - 1 -> Int]
              /\ head \in 0 .. Size - 1
              /\ tail \in 0 .. Size - 1
              /\ blocks_filled \in -1 .. N_BLOCKS
              /\ parked \in BOOLEAN
              /\ accepted \in Nat
              /\ taken \in Nat

\* Init, -1 standing for whatever the bytes are.
FifoInit == /\ data = [i \in 0 .. Size - 1 |-> -1]
            /\ head = 0
            /\ tail = 0
            /\ blocks_filled = 0
            /\ parked = FALSE
            /\ accepted = 0
            /\ taken = 0

BlocksReady(sz) == ((tail % BLOCK_SIZE) + sz) \div BLOCK_SIZE

\* Mutant of BlocksNeeded: the block begun is not counted.
BlocksCompleted(sz) == BlocksReady(sz)

BlocksNeeded(sz) == (((tail % BLOCK_SIZE) + sz - 1) \div BLOCK_SIZE) + 1

\* Push(data, sz) returns true without looking at the FIFO, or has room.
CanPush(sz) == \/ sz = 0
               \/ /\ blocks_filled # -1
                  /\ blocks_filled + BlocksNeeded(sz) <= N_BLOCKS

\* Push(data, sz), when it returns true; the two memcpy write around the end.
Push(sz) ==
  LET offset(i) == (i - tail) % Size
      ready == IF sz = 0 THEN 0 ELSE BlocksReady(sz)
  IN  /\ data' = [i \in 0 .. Size - 1 |-> IF offset(i) < sz THEN accepted + offset(i) ELSE data[i]]
      /\ tail' = (tail + sz) % Size
      /\ blocks_filled' = blocks_filled + ready
      /\ parked' = (parked /\ ready = 0)
      /\ accepted' = accepted + sz
      /\ UNCHANGED <<head, taken>>

\* Mutant of Pop: a FIFO that has been halted is popped as well.
PopHalted ==
  /\ head' = (head + BLOCK_SIZE) % Size
  /\ blocks_filled' = blocks_filled - 1
  /\ taken' = taken + 1
  /\ UNCHANGED <<data, tail, parked, accepted>>

Pop ==
  \/ /\ blocks_filled > 0
     /\ head' = (head + BLOCK_SIZE) % Size
     /\ blocks_filled' = blocks_filled - 1
     /\ taken' = taken + 1
     /\ UNCHANGED <<data, tail, parked, accepted>>
  \/ /\ blocks_filled <= 0
     /\ UNCHANGED fifo

Halt == /\ blocks_filled' = -1
        /\ parked' = FALSE
        /\ UNCHANGED <<data, head, tail, accepted, taken>>

\* wait_for gives the mutex up; a timeout or a spurious wakeup may take it again.
Park == /\ parked' = TRUE
        /\ UNCHANGED <<data, head, tail, blocks_filled, accepted, taken>>

Unpark == /\ parked' = FALSE
          /\ UNCHANGED <<data, head, tail, blocks_filled, accepted, taken>>
=============================================================================
