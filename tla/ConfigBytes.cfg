\* Bytes of four values: a uint32 has 256 values, an int64 65536.  Every field
\* takes the least and the greatest value its place in the wire format holds;
\* K and the set sizes, which are ints, also -1, which a uint32 does not hold.
CONSTANTS
    Byte = 4
    Uint32s = {0, 255}
    Ints <- ExtremeInts
    Durations <- ExtremeDurations
    FloatBits = {0, 127}
SPECIFICATION Spec
INVARIANT TypeOK
INVARIANT BytesFollowWireFormat
