------------------------------ MODULE CecAddr ------------------------------
(***************************************************************************)
(* The four address assignment modules: cec_addr_dev_type.c,               *)
(* cec_addr_bitfield.c, cec_addr_fixed.c and cec_addr_none.c.  A build     *)
(* contains one of them, chosen by ADDR_MODULE.                            *)
(*                                                                         *)
(* cec_addr_dev_type claims an address of the device's type: it pings the  *)
(* candidates in turn and takes the first one whose ping fails.            *)
(***************************************************************************)
EXTENDS CecTransmit

CONSTANTS
  ADDR_MODULE,                \* which of the four modules is built in
  cec_dev_addrs,              \* dev_type: ping headers of the candidates
  CEC_FIXED_LOGICAL_ADDRESS   \* fixed: the address

VARIABLES
  logical_address,     \* dev_type: the claimed address, or NOT_READY
  cec_dev_idx,         \* dev_type: candidates tried so far
  logical_addresses,   \* bitfield: the set of addresses the app assigned
  cec_receive_hdr      \* cec_receive_buf[0], shared with the receive engine

addrVars == <<logical_address, cec_dev_idx, logical_addresses>>

ASSUME AddrAssumption ==
  /\ ADDR_MODULE \in {"dev_type", "bitfield", "fixed", "none"}
  /\ cec_dev_addrs \in Seq(Byte)
  /\ \A i \in DOMAIN cec_dev_addrs : Target(cec_dev_addrs[i]) # CEC_ADDR_BROADCAST
  /\ \A i, j \in DOMAIN cec_dev_addrs :
        Target(cec_dev_addrs[i]) = Target(cec_dev_addrs[j]) => i = j
  /\ CEC_FIXED_LOGICAL_ADDRESS \in Address

(* 0xff: no address, the empty sequence matches none.                      *)
NOT_READY == << >>

(***************************************************************************)
(* The receive header byte: length in the low bits, overrun and nack above *)
(* them.  All zero means that the receive buffer belongs to the engine.    *)
(***************************************************************************)
Header == [len : 0..(LEN_RANGE - 1), overrun : BOOLEAN, nack : BOOLEAN]

EmptyHeader == [len |-> 0, overrun |-> FALSE, nack |-> FALSE]

AddrTypeOK ==
  /\ logical_address \in Address \cup {NOT_READY}
  /\ cec_dev_idx \in 0..Len(cec_dev_addrs)
  /\ logical_addresses \subseteq Address
  /\ cec_receive_hdr \in Header

AddrInit ==
  /\ logical_address = NOT_READY
  /\ cec_dev_idx = 0
  /\ logical_addresses = {}

cec_addr_ready ==
  CASE ADDR_MODULE = "dev_type" -> logical_address # NOT_READY
    [] ADDR_MODULE = "none"     -> FALSE
    [] OTHER                    -> TRUE

cec_addr_match(addr) ==
  CASE ADDR_MODULE = "dev_type" -> addr = logical_address
    [] ADDR_MODULE = "bitfield" -> addr \in logical_addresses
    [] ADDR_MODULE = "fixed"    -> addr = CEC_FIXED_LOGICAL_ADDRESS
    [] ADDR_MODULE = "none"     -> FALSE

(* The header byte of a message to target: the address the module assigned *)
(* in front of the target's, or 0xff with its nibbles swapped and or-ed    *)
(* with the target, which is 0xff again.  bitfield takes the source from   *)
(* the application; none has no cec_addr_build(), the application would    *)
(* write the header itself.                                                *)
cec_addr_build(source, target) ==
  CASE ADDR_MODULE = "dev_type" ->
         IF logical_address = NOT_READY THEN [i \in 1..BITS |-> TRUE]
         ELSE MAKE_ADDRESS(logical_address, target)
    [] ADDR_MODULE = "fixed" -> MAKE_ADDRESS(CEC_FIXED_LOGICAL_ADDRESS, target)
    [] OTHER -> MAKE_ADDRESS(source, target)

cec_addr_init ==
  CASE ADDR_MODULE = "dev_type" ->
         /\ logical_address' = NOT_READY
         /\ cec_dev_idx' = 0
         /\ UNCHANGED logical_addresses
    [] ADDR_MODULE = "bitfield" ->
         /\ logical_addresses' = {}
         /\ UNCHANGED <<logical_address, cec_dev_idx>>
    [] OTHER -> UNCHANGED addrVars

(* Only dev_type's cec_addr_init() also resets the transmit state.         *)
AddrInitTransmitState ==
  IF ADDR_MODULE = "dev_type" THEN TRANSMIT_IDLE ELSE transmit_state

-----------------------------------------------------------------------------
(***************************************************************************)
(* cec_addr_periodic(): nothing once an address is assigned, and nothing   *)
(* at all in the modules other than dev_type.                              *)
(***************************************************************************)
Searching == ADDR_MODULE = "dev_type" /\ ~cec_addr_ready

AddrIdle ==
  /\ ~Searching
  /\ UNCHANGED <<transmitVars, addrVars, cec_receive_hdr>>

(* Ping the next candidate.                                                *)
AddrPing ==
  /\ Searching
  /\ transmit_state = TRANSMIT_IDLE
  /\ cec_dev_idx # Len(cec_dev_addrs)
  /\ cec_receive_hdr' = EmptyHeader
  /\ transmit_buf' = [transmit_buf EXCEPT ![0] = cec_dev_addrs[cec_dev_idx + 1]]
  /\ cec_dev_idx' = cec_dev_idx + 1
  /\ transmit_buf_end' = 0
  /\ transmit_state' = TRANSMIT_PEND
  /\ UNCHANGED <<transmit_stats, transmit_buf_bit, transmit_buf_pos,
                 transmit_last_bit, transmit_retries, needed_idle_frames,
                 usi_xmit_state, logical_address, logical_addresses>>

(* Every candidate answered.                                               *)
AddrGiveUp ==
  /\ Searching
  /\ transmit_state = TRANSMIT_IDLE
  /\ cec_dev_idx = Len(cec_dev_addrs)
  /\ cec_receive_hdr' = EmptyHeader
  /\ logical_address' = CEC_ADDR_UNREGISTERED
  /\ UNCHANGED <<transmitVars, cec_dev_idx, logical_addresses>>

(* Mutant: IDLE and FAILED swapped, the search claims what was answered.   *)
AddrClaimAnswered ==
  /\ Searching
  /\ transmit_state = TRANSMIT_IDLE
  /\ cec_receive_hdr' = EmptyHeader
  /\ logical_address' = Target(transmit_buf[0])
  /\ UNCHANGED <<transmitVars, cec_dev_idx, logical_addresses>>

AddrClaim ==
  /\ Searching
  /\ transmit_state = TRANSMIT_FAILED
  /\ cec_receive_hdr' = EmptyHeader
  /\ logical_address' = Target(transmit_buf[0])
  /\ UNCHANGED <<transmitVars, cec_dev_idx, logical_addresses>>

(* Mutant: messages are thrown away only when a ping is begun or done.     *)
AddrWaitKeepsHeader ==
  /\ Searching
  /\ transmit_state \notin {TRANSMIT_IDLE, TRANSMIT_FAILED}
  /\ UNCHANGED <<transmitVars, addrVars, cec_receive_hdr>>

(* A ping is under way.                                                    *)
AddrWait ==
  /\ Searching
  /\ transmit_state \notin {TRANSMIT_IDLE, TRANSMIT_FAILED}
  /\ cec_receive_hdr' = EmptyHeader
  /\ UNCHANGED <<transmitVars, addrVars>>

cec_addr_periodic == AddrIdle \/ AddrPing \/ AddrGiveUp \/ AddrClaim \/ AddrWait
=============================================================================
