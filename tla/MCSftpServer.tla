---------------------------- MODULE MCSftpServer ----------------------------
(* SftpServer with addresses that are model values: no address is special,  *)
(* Allocate may return any free one.                                        *)
EXTENDS SftpServer, TLC

AddrSymmetry == Permutations(Addr)
=============================================================================
