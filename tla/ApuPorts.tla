------------------------------ MODULE ApuPorts ------------------------------
(***************************************************************************)
(* The four 8-bit I/O ports between the S-CPU and the SPC700 ($2140-$2143  *)
(* on the S-CPU's side, $F4-$F7 on the SPC700's).  Every port is a pair of *)
(* latches: what one side writes is what the other side reads, and neither *)
(* side can read back what it wrote.                                       *)
(***************************************************************************)
EXTENDS Integers

VARIABLES
  cpuOut,   \* cpuOut[p]: last value the S-CPU wrote to port p
  spcOut    \* spcOut[p]: last value the SPC700 wrote to port p

portVars == <<cpuOut, spcOut>>

Port == 0..3
Byte == 0..255
Word == 0..65535

PortsTypeOK ==
  /\ cpuOut \in [Port -> Byte]
  /\ spcOut \in [Port -> Byte]

CpuWrite(p, b) == cpuOut' = [cpuOut EXCEPT ![p] = b]
SpcWrite(p, b) == spcOut' = [spcOut EXCEPT ![p] = b]

(* A 16-bit store to ports 2 and 3.                                        *)
CpuWriteWord(w) ==
  cpuOut' = [cpuOut EXCEPT ![2] = w % 256, ![3] = w \div 256]

(* The 16-bit value the SPC700 finds in ports 2 and 3.                     *)
WordFromCpu == cpuOut[2] + 256 * cpuOut[3]

(* Faulty: the eor is an addition in 16 bits.                              *)
FaultyToggle(v) == v + 128

(* eor #80h and ora #01h on the validation byte; ora #128 and and #127 on  *)
(* the message byte.                                                       *)
Toggle(v) == (v + 128) % 256
MakeOdd(v) == IF v % 2 = 1 THEN v ELSE v + 1
SetBit7(b) == IF b >= 128 THEN b ELSE b + 128
Low7(b) == b % 128

(* The message identifiers both sides agree on (snesmodwla.asm 49-59,      *)
(* sm_spc.as7 CommandTable).                                               *)
CMD_LOAD  == 0
CMD_LOADE == 1
CMD_PLAY  == 3
CMD_STOP  == 4
CMD_MVOL  == 5
CMD_FADE  == 6
CMD_FX    == 8
CMD_SSIZE == 10
=============================================================================
