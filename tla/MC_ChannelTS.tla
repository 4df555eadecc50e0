--------------------------- MODULE MC_ChannelTS ---------------------------
EXTENDS ChannelTS
CONSTANTS a, b, c, ua, ub, uc
Chain == {{a, b}, {b, c}}
Homes == [u \in User |-> IF u = ua THEN a ELSE IF u = ub THEN b ELSE c]
=============================================================================
