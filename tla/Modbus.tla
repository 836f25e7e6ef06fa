------------------------------- MODULE Modbus -------------------------------
(***************************************************************************)
(* A Modbus operation (modbus/modbus.cc) over a connection of TcpService   *)
(* (rest/tcp_service.cc): the agent accepts a connection of a gateway,     *)
(* writes the frame of the operation and reads the answer in whatever      *)
(* pieces TCP delivers.                                                    *)
(*                                                                         *)
(* Frames are sequences of bytes.  The plugin that owns the connection is  *)
(* not in the repository: it writes one operation, reads until the         *)
(* operation is completed and closes the connection then, on an error, or  *)
(* when it loses patience.                                                 *)
(***************************************************************************)
EXTENDS Integers, Sequences

CONSTANTS
  Operations,   \* operations the plugin may start with
  Registers,    \* Registers[n]: what the device holds
  Changes       \* what may be added to a byte on the way

READ_HOLDING_REGISTERS == 3
PRESET_SINGLE_REGISTER == 6
PRESET_MULTIPLE_REGISTER == 16

Word == 0..65535

(* What the constructors take, of a size a device can answer to: a count   *)
(* of bytes is one byte.  Only the second constructor makes an operation   *)
(* that must be confirmed.  The last register is not read: its number in   *)
(* _values, an unsigned short, would be 0 and precede the others.          *)
Allowed(o) ==
  /\ o.slave \in 0..255 /\ o.address \in Word /\ o.number \in Word
  /\ o.fn \in {READ_HOLDING_REGISTERS, PRESET_SINGLE_REGISTER, PRESET_MULTIPLE_REGISTER}
  /\ o.need \in (IF o.fn = PRESET_MULTIPLE_REGISTER THEN {"yes", "no"} ELSE {"no"})
  /\ o.write \in Seq(Word) /\ Len(o.write) <= 123 /\ o.labels \in Seq(Word)
  /\ o.fn = READ_HOLDING_REGISTERS =>
       /\ o.number <= 125 /\ o.address + o.number <= 65535
       /\ o.address..(o.address + o.number - 1) \subseteq DOMAIN Registers

ASSUME OperationsAssumption == \A o \in Operations : Allowed(o)

ASSUME RegistersAssumption == \A n \in DOMAIN Registers : n \in Word /\ Registers[n] \in Word

ASSUME ChangesAssumption == Changes \subseteq 1..255

VARIABLES
  op,        \* the operation: its parameters and the fields of class Modbus
  answer,    \* what the device does: its bytes, and whether they are right
  wire,      \* bytes of the answer that are not yet read
  aligned,   \* history: a read has ended where the echo ends
  conn,      \* "open", "closed"
  pending,   \* the asynchronous operation of the connection
  buffers    \* "yes": _async_buffers has an entry for the connection

modbus == <<op, answer, wire, aligned, conn, pending, buffers>>
tcp == <<conn, pending, buffers>>

----------------------------------------------------------------------------
(* crc(). *)
table_crc_hi == <<
   0, 193, 129, 64, 1, 192, 128, 65, 1, 192, 128, 65, 0, 193, 129, 64,
   1, 192, 128, 65, 0, 193, 129, 64, 0, 193, 129, 64, 1, 192, 128, 65,
   1, 192, 128, 65, 0, 193, 129, 64, 0, 193, 129, 64, 1, 192, 128, 65,
   0, 193, 129, 64, 1, 192, 128, 65, 1, 192, 128, 65, 0, 193, 129, 64,
   1, 192, 128, 65, 0, 193, 129, 64, 0, 193, 129, 64, 1, 192, 128, 65,
   0, 193, 129, 64, 1, 192, 128, 65, 1, 192, 128, 65, 0, 193, 129, 64,
   0, 193, 129, 64, 1, 192, 128, 65, 1, 192, 128, 65, 0, 193, 129, 64,
   1, 192, 128, 65, 0, 193, 129, 64, 0, 193, 129, 64, 1, 192, 128, 65,
   1, 192, 128, 65, 0, 193, 129, 64, 0, 193, 129, 64, 1, 192, 128, 65,
   0, 193, 129, 64, 1, 192, 128, 65, 1, 192, 128, 65, 0, 193, 129, 64,
   0, 193, 129, 64, 1, 192, 128, 65, 1, 192, 128, 65, 0, 193, 129, 64,
   1, 192, 128, 65, 0, 193, 129, 64, 0, 193, 129, 64, 1, 192, 128, 65,
   0, 193, 129, 64, 1, 192, 128, 65, 1, 192, 128, 65, 0, 193, 129, 64,
   1, 192, 128, 65, 0, 193, 129, 64, 0, 193, 129, 64, 1, 192, 128, 65,
   1, 192, 128, 65, 0, 193, 129, 64, 0, 193, 129, 64, 1, 192, 128, 65,
   0, 193, 129, 64, 1, 192, 128, 65, 1, 192, 128, 65, 0, 193, 129, 64>>

table_crc_lo == <<
   0, 192, 193, 1, 195, 3, 2, 194, 198, 6, 7, 199, 5, 197, 196, 4,
   204, 12, 13, 205, 15, 207, 206, 14, 10, 202, 203, 11, 201, 9, 8, 200,
   216, 24, 25, 217, 27, 219, 218, 26, 30, 222, 223, 31, 221, 29, 28, 220,
   20, 212, 213, 21, 215, 23, 22, 214, 210, 18, 19, 211, 17, 209, 208, 16,
   240, 48, 49, 241, 51, 243, 242, 50, 54, 246, 247, 55, 245, 53, 52, 244,
   60, 252, 253, 61, 255, 63, 62, 254, 250, 58, 59, 251, 57, 249, 248, 56,
   40, 232, 233, 41, 235, 43, 42, 234, 238, 46, 47, 239, 45, 237, 236, 44,
   228, 36, 37, 229, 39, 231, 230, 38, 34, 226, 227, 35, 225, 33, 32, 224,
   160, 96, 97, 161, 99, 163, 162, 98, 102, 166, 167, 103, 165, 101, 100, 164,
   108, 172, 173, 109, 175, 111, 110, 174, 170, 106, 107, 171, 105, 169, 168, 104,
   120, 184, 185, 121, 187, 123, 122, 186, 190, 126, 127, 191, 125, 189, 188, 124,
   180, 116, 117, 181, 119, 183, 182, 118, 114, 178, 179, 115, 177, 113, 112, 176,
   80, 144, 145, 81, 147, 83, 82, 146, 150, 86, 87, 151, 85, 149, 148, 84,
   156, 92, 93, 157, 95, 159, 158, 94, 90, 154, 155, 91, 153, 89, 88, 152,
   136, 72, 73, 137, 75, 139, 138, 74, 78, 142, 143, 79, 141, 77, 76, 140,
   68, 132, 133, 69, 135, 71, 70, 134, 130, 66, 67, 131, 65, 129, 128, 64>>

(* Exclusive or of two bytes, bit by bit. *)
XorByte(a, b) ==
  LET bit(p) == IF (a \div p) % 2 = (b \div p) % 2 THEN 0 ELSE p
  IN  bit(1) + bit(2) + bit(4) + bit(8) + bit(16) + bit(32) + bit(64) + bit(128)

(* One byte more: c is <<crc_hi, crc_lo>>. *)
CrcStep(c, byte) ==
  LET i == XorByte(c[1], byte) + 1
  IN  <<XorByte(c[2], table_crc_hi[i]), table_crc_lo[i]>>

CrcFrom(first, frame) ==
  LET crc[n \in 0..Len(frame)] ==
        IF n = 0 THEN <<first, first>> ELSE CrcStep(crc[n - 1], frame[n])
  IN  crc[Len(frame)]

CrcFromZero(frame) == CrcFrom(0, frame)

Crc(frame) == CrcFrom(255, frame)

Hi(n) == (n \div 256) % 256

Lo(n) == n % 256

(* The bytes of some values, the high one of each first. *)
Bytes(values) ==
  [j \in 1..(2 * Len(values)) |->
     IF j % 2 = 1 THEN Hi(values[(j + 1) \div 2]) ELSE Lo(values[j \div 2])]

WithCrc(bytes) == bytes \o Crc(bytes)

(* The two constructors. *)
Frame(o) ==
  LET head == <<o.slave, o.fn, Hi(o.address), Lo(o.address)>>
      n == Len(o.write)
  IN  WithCrc(IF o.fn # PRESET_MULTIPLE_REGISTER
              THEN head \o <<Hi(o.number), Lo(o.number)>>
              ELSE head \o <<Hi(n), Lo(n), Lo(2 * n)>> \o Bytes(o.write))

Start(o) ==
  [slave |-> o.slave, fn |-> o.fn, address |-> o.address, number |-> o.number,
   write |-> o.write, need |-> o.need, labels |-> o.labels,
   frame |-> Frame(o), response |-> <<>>, finished |-> "no", completed |-> "no",
   confirmed |-> IF o.need = "yes" THEN "no" ELSE "yes", ok |-> "yes", values |-> <<>>]

CheckCrcNever(frame) == TRUE

(* check_crc(). *)
CheckCrc(frame) ==
  LET n == Len(frame)
  IN  Crc(SubSeq(frame, 1, n - 2)) = SubSeq(frame, n - 1, n)

CheckCompletedOfPiece(o, piece) ==
  [o EXCEPT !.response = piece, !.completed = IF Len(piece) >= 8 THEN "yes" ELSE "no"]

(* A test for the size of the answer is for equality where the code says   *)
(* so.                                                                     *)
AnswerComplete(o, all) ==
  LET n == Len(all)
  IN  CASE o.fn = READ_HOLDING_REGISTERS -> n >= 3 /\ n - 2 = all[3] + 3
        [] o.fn = PRESET_SINGLE_REGISTER -> n = Len(o.frame)
        [] OTHER -> IF o.confirmed = "yes" THEN n >= 8
                    ELSE n >= Len(o.frame) /\ all # o.frame

(* check_completed(): the piece is appended.  The echo of a write that     *)
(* must be confirmed is dropped when nothing follows it.                   *)
CheckCompleted(o, piece) ==
  LET all == o.response \o piece
      done == AnswerComplete(o, all)
      echo == o.confirmed = "no" /\ all = o.frame
  IN  [o EXCEPT !.response = IF echo THEN <<>> ELSE all,
                !.confirmed = IF echo THEN "yes" ELSE @,
                !.completed = IF done THEN "yes" ELSE "no"]

(* The tests on a complete answer. *)
Acceptable(o) ==
  LET r == o.response
  IN  /\ r[1] = o.slave /\ r[2] = o.fn /\ CheckCrc(r)
      /\ CASE o.fn = READ_HOLDING_REGISTERS -> Len(r) - 2 = r[3] + 3
           [] o.fn = PRESET_SINGLE_REGISTER ->
                256 * r[3] + r[4] = o.address /\ 256 * r[5] + r[6] = o.number
           [] OTHER -> /\ o.confirmed = "yes" /\ Len(r) = 8
                       /\ 256 * r[3] + r[4] = o.address
                       /\ 256 * r[5] + r[6] = Len(o.write)

ValuesOf(o) ==
  IF o.fn = READ_HOLDING_REGISTERS
  THEN [i \in 1..((o.response[3] + 1) \div 2) |->
          256 * o.response[2 + 2 * i] + o.response[3 + 2 * i]]
  ELSE <<>>

(* receive_modbus_frame(). *)
ReceiveModbusFrame(o, piece) ==
  LET c == CheckCompleted(o, piece)
  IN  IF c.completed = "no" THEN c
      ELSE IF Acceptable(c) THEN [c EXCEPT !.finished = "yes", !.values = ValuesOf(c)]
      ELSE [c EXCEPT !.finished = "yes", !.ok = "no"]

(* get_mapped_values(): the labels of add_command_as_operation() are the   *)
(* addresses of the parameters in ascending order; with another number of  *)
(* values nothing is mapped.  Without labels the values keep the numbers   *)
(* of _values, which count registers from 1.                               *)
MappedValues(o) ==
  CASE o.labels = <<>> -> {<<o.address + i, o.values[i]>> : i \in 1..Len(o.values)}
    [] o.labels # <<>> /\ Len(o.labels) = Len(o.values) ->
         {<<o.labels[i], o.values[i]>> : i \in 1..Len(o.labels)}
    [] OTHER -> {}

----------------------------------------------------------------------------
(* The device.  An answer with the registers from o.address on, count of   *)
(* them.                                                                   *)
Reading(o, count) ==
  WithCrc(<<o.slave, o.fn, 2 * count>>
          \o Bytes([i \in 1..count |-> Registers[o.address + i - 1]]))

GoodAnswer(o) ==
  CASE o.fn = READ_HOLDING_REGISTERS -> Reading(o, o.number)
    [] o.fn = PRESET_SINGLE_REGISTER -> o.frame
    [] OTHER -> (IF o.need = "yes" THEN o.frame ELSE <<>>)
                \o WithCrc(<<o.slave, o.fn, Hi(o.address), Lo(o.address), 0, Len(o.write)>>)

(* A right answer; one with a byte changed on the way; an exception of the *)
(* device; fewer registers than asked for.                                 *)
Answers(o) ==
  LET good == GoodAnswer(o)
  IN  {[bytes |-> good, kind |-> "good"]}
      \cup {[bytes |-> [good EXCEPT ![i] = (@ + d) % 256], kind |-> "corrupt"] :
              i \in 1..Len(good), d \in Changes}
      \cup {[bytes |-> WithCrc(<<o.slave, o.fn + 128, 2>>), kind |-> "exception"]}
      \cup (IF o.fn = READ_HOLDING_REGISTERS /\ o.number > 1
            THEN {[bytes |-> Reading(o, o.number - 1), kind |-> "fewer"]} ELSE {})

NoAnswer == [bytes |-> <<>>, kind |-> "none"]

DeviceAnswers ==
  /\ answer = NoAnswer /\ pending = "read"
  /\ answer' \in Answers(op)
  /\ wire' = answer'.bytes
  /\ UNCHANGED <<op, aligned, tcp>>

----------------------------------------------------------------------------
(* TcpService. *)
ModbusInit(first) ==
  /\ op \in {Start(o) : o \in Operations}
  /\ answer = NoAnswer
  /\ wire = <<>>
  /\ aligned = "no"
  /\ conn = "open" /\ pending = first /\ buffers = "no"

(* call_client() makes the buffer of the connection if there is none.      *)
HandleConnection ==
  /\ pending = "accept"
  /\ buffers' = "yes"
  /\ pending' = "write"
  /\ UNCHANGED <<op, answer, wire, aligned, conn>>

(* read(), the handler of the write in send(), which looks at no error.    *)
Written ==
  /\ pending = "write"
  /\ pending' = "read"
  /\ UNCHANGED <<op, answer, wire, aligned, conn, buffers>>

FinishKeepsBuffer ==
  /\ conn' = "closed"
  /\ UNCHANGED buffers

(* finish(). *)
Finish ==
  /\ conn' = "closed"
  /\ buffers' = "no"

(* handle_read() with n bytes: the plugin reads on, or is done. *)
HandleRead(n) ==
  /\ pending = "read" /\ conn = "open" /\ n <= Len(wire)
  /\ wire' = SubSeq(wire, n + 1, Len(wire))
  /\ op' = ReceiveModbusFrame(op, SubSeq(wire, 1, n))
  /\ aligned' = IF Len(answer.bytes) - Len(wire) + n = Len(op.frame) THEN "yes" ELSE aligned
  /\ IF op'.completed = "no" THEN UNCHANGED tcp
     ELSE pending' = "none" /\ Finish
  /\ UNCHANGED answer

(* handle_read() with an error: the peer has gone, or the read was aborted *)
(* by finish().  call_client() makes the buffer anew; the plugin closes.   *)
HandleReadError ==
  /\ pending = "read"
  /\ pending' = "none"
  /\ Finish
  /\ UNCHANGED <<op, answer, wire, aligned>>

(* The plugin loses patience. *)
CloseConnection ==
  /\ conn = "open" /\ pending = "read"
  /\ Finish
  /\ UNCHANGED <<op, answer, wire, aligned, pending>>

ModbusNext ==
  \/ HandleConnection \/ Written \/ DeviceAnswers
  \/ \E n \in 1..Len(wire) : HandleRead(n)
  \/ HandleReadError \/ CloseConnection

ModbusSpec == ModbusInit("accept") /\ [][ModbusNext]_modbus

----------------------------------------------------------------------------
(* The CRC of the Modbus specification: reflected polynomial A001, low     *)
(* byte first.                                                             *)
XorWord(a, b) == 256 * XorByte(Hi(a), Hi(b)) + XorByte(Lo(a), Lo(b))

Shift(c) == IF c % 2 = 1 THEN XorWord(c \div 2, 40961) ELSE c \div 2

EightShifted(c) == Shift(Shift(Shift(Shift(Shift(Shift(Shift(Shift(c))))))))

ReferenceCrc(frame) ==
  LET step == [x \in Int \X Int |-> EightShifted(XorWord(x[1], x[2]))]
      crc[n \in 0..Len(frame)] ==
        IF n = 0 THEN 65535 ELSE step[<<crc[n - 1], frame[n]>>]
      last == crc[Len(frame)]
  IN  <<Lo(last), Hi(last)>>

EveryEntry == \A b \in 0..255 : Crc(<<b>>) = ReferenceCrc(<<b>>)

(* The CRC of every frame that is sent is the one of the Modbus            *)
(* specification, and so is every entry of the two tables (crc()).         *)
FrameIsProtected ==
  LET n == Len(op.frame)
  IN  pending = "accept" =>
      /\ SubSeq(op.frame, n - 1, n) = ReferenceCrc(SubSeq(op.frame, 1, n - 2))
      /\ EveryEntry

(* A right answer is accepted in whatever pieces it comes                  *)
(* (check_completed()); when an echo comes first, provided a piece ends    *)
(* where the echo ends.                                                    *)
GoodAnswerAccepted ==
  answer.kind = "good" /\ wire = <<>> /\ (op.need = "yes" => aligned = "yes") =>
    /\ op.finished = "yes" /\ op.ok = "yes"
    /\ op.fn = READ_HOLDING_REGISTERS =>
         op.values = [i \in 1..op.number |-> Registers[op.address + i - 1]]

(* An answer with a changed byte and an exception are never taken for an   *)
(* answer, and no register gets the value of another: neither among the    *)
(* values nor under the label of a parameter, if the addresses of the      *)
(* parameters have no gap, nor under the number of the register when there *)
(* are no labels (receive_modbus_frame(), get_mapped_values()).            *)
NothingFalseAccepted ==
  op.finished = "yes" /\ op.ok = "yes" =>
    /\ answer.kind \in {"good", "fewer"}
    /\ \A i \in DOMAIN op.values : op.values[i] = Registers[op.address + i - 1]
    /\ op.labels = <<>> => \A m \in MappedValues(op) : m[2] = Registers[m[1] - 1]
    /\ (op.labels # <<>> /\ \A i \in DOMAIN op.labels : op.labels[i] = op.address + i - 1)
         => \A m \in MappedValues(op) : m[2] = Registers[m[1]]

(* A connection that is closed and has nothing under way keeps no buffer   *)
(* (finish(), clear_buffer()).                                             *)
BufferReleased == conn = "closed" /\ pending = "none" => buffers = "no"

(* The byte that says how long the answer to a read is has become smaller  *)
(* on the way, and the last two of the bytes it leaves are the CRC of the  *)
(* others by accident.                                                     *)
ShortenedRead ==
  /\ answer.kind = "corrupt" /\ op.fn = READ_HOLDING_REGISTERS
  /\ Len(op.response) >= 3 /\ op.response[3] < 2 * op.number
  /\ CheckCrc(op.response)

(* The agent tells good answers of a slave from bad ones, in whatever      *)
(* pieces they come, and forgets the pieces when the exchange is over.     *)
AnswerJudged == FrameIsProtected /\ GoodAnswerAccepted /\ NothingFalseAccepted /\ BufferReleased
=============================================================================
