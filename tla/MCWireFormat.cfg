\* Two messages cut into indications of 3, 20 or 200 bytes; bodies up to ten bytes longer than
\* asked for, so that a log entry reaches its details and a state all its fields.
CONSTANTS
    Checksum <- crc16
    PairingMessages <- MCPairingMessages
    Indications = {3, 20, 200}
    MaxBuffer = 4096
    Payloads <- MCPayloads
    Names <- MCNames
    Authenticator <- MCAuthenticator
    AppId <- MCAppId
    Nonce <- MCNonce
    Levels = {0, 255}
    MaxMessages = 2
    MaxChanges = 2
SPECIFICATION Spec
INVARIANTS
    FramesArriveWhole
    DamageIsNoticed
    ChecksumIsTheRemainder
    FirmwareMayGrow
    WriteBackKeepsOthers
    NamesKeepTheirPlace
CHECK_DEADLOCK FALSE
