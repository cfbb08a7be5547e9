------------------------------ MODULE ImpCanId ------------------------------
(***************************************************************************)
(* The 29-bit extended CAN identifier of the Intermodule Protocol (IMP):   *)
(* destination (5 bits from bit 24), source (5 bits from bit 19), session  *)
(* (4 bits from bit 15) and command (5 bits from bit 10).  Shifts and masks*)
(* of uni_can_protocol_imp.c are written with *, \div and %.               *)
(***************************************************************************)
EXTENDS Integers

ALL == 31                      \* UNI_CAN_IMP_DEVICE_ID_ALL, the broadcast address
DEVICE_ID_MAX == 31
SESSION_ID_MAX == 15

\* uni_can_imp_cmd_t: the values are part of the identifier layout.
CMD_START == 0
CMD_START_WA == 1
CMD_ACK == 2
CMD_NACK == 3
CMD_DATA == 4
CMD_DATA_WA == 5
CMD_END == 6
CMD_END_WA == 7
CMD_ABORT_WA == 8

Commands == CMD_START .. CMD_ABORT_WA

CanIdCreate(from, to, sid, cmd) ==
  (to % 32) * 16777216 + (from % 32) * 524288 + (sid % 16) * 32768 + (cmd % 32) * 1024

CanIdFrom(id)    == (id \div 524288) % 32
CanIdTo(id)      == (id \div 16777216) % 32
CanIdSession(id) == (id \div 32768) % 16
CanIdCommand(id) == (id \div 1024) % 32
=============================================================================
