---------------------------- MODULE MCMacTables ----------------------------
(***************************************************************************)
(* TLC instance of MacTables: the word NULL, the lists of one address and  *)
(* the lists of two different ones.                                        *)
(***************************************************************************)
EXTENDS MacTables, FiniteSets

ShortLists == {<<>>} \cup {<<m>> : m \in Macs}
                     \cup {<<p[1], p[2]>> : p \in {q \in Macs \X Macs : q[1] # q[2]}}
=============================================================================
