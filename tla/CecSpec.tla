------------------------------ MODULE CecSpec ------------------------------
(***************************************************************************)
(* Constants and data types shared by every module: cec_spec.h, cec.h and  *)
(* the widths of the C types that can overflow.                            *)
(*                                                                         *)
(* The code's numbers are parameters, so that TLC can check small          *)
(* instances and the theorems hold for all of them.  The value of the code *)
(* is given beside each one.                                               *)
(***************************************************************************)
EXTENDS Integers, Sequences, FiniteSets

CONSTANTS
  ADDR_BITS,                \* bits of a logical address          (code: 4)
  CEC_BUFFER_SIZE,          \* bytes of a transmit/receive buffer (code: 16)
  LEN_RANGE,                \* values of the header's length bits (code: 64)
  CEC_XMIT_MAX_RETRANSMIT,  \* transmissions of one message       (code: 5)
  CEC_PRESENT_PERIOD_WAIT,  \* idle frames: we sent last          (code: 7)
  CEC_NEW_PERIOD_WAIT,      \* idle frames: somebody else did     (code: 5)
  CEC_PREV_PERIOD_WAIT,     \* idle frames: our last try failed   (code: 3)
  IDLE_FRAMES_MAX           \* where idle_frames saturates        (code: 255)

(* The range of an unsigned char.  The receive header keeps the length in  *)
(* its low 6 bits, below the overrun and nack bits, hence the factor 4.    *)
UCHAR == 4 * LEN_RANGE

ASSUME SizeAssumption ==
  /\ ADDR_BITS \in Nat \ {0}
  /\ CEC_BUFFER_SIZE \in Nat \ {0}
  /\ LEN_RANGE \in Nat
  /\ CEC_BUFFER_SIZE < LEN_RANGE
  /\ CEC_XMIT_MAX_RETRANSMIT \in 1..(UCHAR - 1)

ASSUME WaitAssumption ==
  /\ IDLE_FRAMES_MAX \in Nat
  /\ {CEC_PRESENT_PERIOD_WAIT, CEC_NEW_PERIOD_WAIT, CEC_PREV_PERIOD_WAIT}
       \subseteq 1..IDLE_FRAMES_MAX

(***************************************************************************)
(* A byte is the sequence of its bits in the order they travel on the      *)
(* line, most significant first.  The header byte of a message is the      *)
(* initiator's address followed by the target's.                           *)
(***************************************************************************)
BITS == 2 * ADDR_BITS

Byte == [1..BITS -> BOOLEAN]

Address == [1..ADDR_BITS -> BOOLEAN]

MAKE_ADDRESS(source, target) ==
  [i \in 1..BITS |-> IF i <= ADDR_BITS THEN source[i] ELSE target[i - ADDR_BITS]]

Target(byte) == [i \in 1..ADDR_BITS |-> byte[ADDR_BITS + i]]

CEC_ADDR_BROADCAST == [i \in 1..ADDR_BITS |-> TRUE]
CEC_ADDR_UNREGISTERED == CEC_ADDR_BROADCAST

ZeroByte == [i \in 1..BITS |-> FALSE]

(***************************************************************************)
(* Causes of a failed transmission.                                        *)
(***************************************************************************)
CEC_ERR_ARB_LOST  == "ARB_LOST"
CEC_ERR_NACK      == "NACK"
CEC_ERR_NO_EOM    == "NO_EOM"
CEC_ERR_LOW_DRIVE == "LOW_DRIVE"
CEC_ERR_HALT      == "HALT"
CEC_ERR_HW        == "HW"

CecErr == {CEC_ERR_ARB_LOST, CEC_ERR_NACK, CEC_ERR_NO_EOM,
           CEC_ERR_LOW_DRIVE, CEC_ERR_HALT, CEC_ERR_HW}
=============================================================================
