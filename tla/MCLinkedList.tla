---------------------------- MODULE MCLinkedList ----------------------------
(* Lists of up to three nodes over two values, the addresses being reused: *)
(* the first node, one in the middle and the last are three nodes, and a   *)
(* value can occur twice.                                                  *)
EXTENDS LinkedList
=============================================================================
