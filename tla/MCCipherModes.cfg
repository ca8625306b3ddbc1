\* Messages of 0 to 3 blocks, with and without a tail, in the five modes.
SPECIFICATION Spec
CONSTANTS
    Byte <- MCByte
    BlockLen = 2
    ByteXor <- MCXor
    encrypt_fun <- MCEncrypt
    decrypt_fun <- MCDecrypt
    Messages <- MCMessages
    IVs <- MCIVs
    MaxBlocks = 3
INVARIANTS
    RoundTrip
    PaddingAccepted
    Propagation
    CutIsPrefix
    IInv
