\* Three different keys: the block modes do not decode what they encoded.
SPECIFICATION Spec
CONSTANTS
    Block <- MCBlock
    Key <- MCKey
    BlockXor <- MCXor
    des_algo_encrypt <- MCEncrypt
    des_algo_decrypt <- MCDecrypt
INVARIANT
    DecodeUndoesEncode
