---------------------------- MODULE MCWireFormat ----------------------------
(* WireFormat with the checksum of the code and bytes of a few patterns.   *)
EXTENDS WireFormat, Crc16

\* Zeroes (a clock never set), sixes (a ring), all bits, and bytes that differ, with a date
\* that is one.
Bytes(n, pattern) == [i \in 1 .. n |-> (pattern[1] * i + pattern[2]) % 256]
Patterns == {<<0, 0>>, <<0, 6>>, <<0, 255>>, <<1, 0>>}

\* The last message is of a type the client does not know.
MCPairingMessages == {
    [command |-> 14, payload |-> <<1>>],                  \* STATUS
    [command |-> 18, payload |-> <<16, 6, 0>>],           \* ERROR_REPORT
    [command |-> 4, payload |-> Bytes(32, <<37, 0>>)],    \* CHALLENGE
    [command |-> 170, payload |-> <<1, 2, 3, 4>>]}

\* Lengths around those the parsers ask for.
Lengths == (0 .. 28) \cup (46 .. 58) \cup (70 .. 73) \cup (82 .. 85)
MCPayloads == {Bytes(n, pattern) : n \in Lengths, pattern \in Patterns}

\* Characters of one to four bytes.
Characters == {<<65>>, <<195, 182>>, <<226, 130, 172>>, <<240, 159, 148, 145>>}
MCNames == {[i \in 1 .. n |-> c] : n \in {0, 1, 5, 8, 16, 20, 32, 33}, c \in Characters}

MCAuthenticator == Bytes(32, <<1, 129>>)
MCAppId == <<1, 2, 3, 4>>
MCNonce == Bytes(32, <<37, 0>>)

\* The table computes the remainder of the division by the polynomial (crc.py:10-32).
ChecksumIsTheRemainder ==
    \A i \in DOMAIN sent :
        LET data == Slice(Plain(sent[i]), 0, 7)
        IN  crc16(data) = Remainder(data)
=============================================================================
