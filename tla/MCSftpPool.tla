----------------------------- MODULE MCSftpPool -----------------------------
\* Small instances of SftpPool: requests r1 to r3 and one call of CloseByKey.
EXTENDS SftpPool

CONSTANTS r1, r2, r3, k1
=============================================================================
