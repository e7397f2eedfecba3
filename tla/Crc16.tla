-------------------------------- MODULE Crc16 --------------------------------
(***************************************************************************)
(* The checksum of a message (nuki/crc.py): CRC-16/CCITT-FALSE, computed   *)
(* with a table of 256 remainders.                                         *)
(***************************************************************************)
EXTENDS Integers, Sequences

Polynomial == 4129  \* 0x1021
InitialCrc == 65535 \* 0xFFFF

\* The exclusive or of two bytes, tabulated, and of two numbers of two bytes.
XorOfBytes ==
    [a \in 0 .. 255 |-> [b \in 0 .. 255 |->
        LET x(bit) == IF (a \div bit) % 2 = (b \div bit) % 2 THEN 0 ELSE bit
        IN  x(1) + x(2) + x(4) + x(8) + x(16) + x(32) + x(64) + x(128)]]
XorOfWords(a, b) == 256 * XorOfBytes[a \div 256][b \div 256] + XorOfBytes[a % 256][b % 256]

\* One step of the division: shift, and subtract the polynomial if a bit falls out.
Shifted(crc) == IF crc >= 32768 THEN XorOfWords((2 * crc) % 65536, Polynomial) ELSE 2 * crc

\* The remainder of each byte, eight steps on.
Table == [byte \in 0 .. 255 |-> Shifted(Shifted(Shifted(Shifted(
                            Shifted(Shifted(Shifted(Shifted(256 * byte))))))))]

\* The remainder with another initial value, as CRC-16/XMODEM has it.
crc16_from_zero(data) ==
    LET crc[k \in 0 .. Len(data)] ==
            IF k = 0 THEN 0
            ELSE LET c == crc[k - 1]
                 IN  XorOfWords((256 * c) % 65536, Table[XorOfBytes[c \div 256][data[k]]])
    IN  crc[Len(data)]

crc16(data) ==
    LET crc[k \in 0 .. Len(data)] ==
            IF k = 0 THEN InitialCrc
            ELSE LET c == crc[k - 1]
                 IN  XorOfWords((256 * c) % 65536, Table[XorOfBytes[c \div 256][data[k]]])
    IN  crc[Len(data)]

\* What the table stands for: the division of the message, bit after bit.
Remainder(data) ==
    LET Bit(k) == (data[(k - 1) \div 8 + 1] \div 2^(7 - ((k - 1) % 8))) % 2
        reg[k \in 0 .. 8 * Len(data)] ==
            IF k = 0 THEN InitialCrc
            ELSE LET r == reg[k - 1]
                 IN  IF r \div 32768 = Bit(k) THEN (2 * r) % 65536
                     ELSE XorOfWords((2 * r) % 65536, Polynomial)
    IN  reg[8 * Len(data)]
=============================================================================
